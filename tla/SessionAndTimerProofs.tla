----------------------- MODULE SessionAndTimerProofs -----------------------
(***************************************************************************)
(* Proofs about SessionIo, for any number of senders and closers, any      *)
(* length of a message and any limit; and about TimerWheel, for every      *)
(* number of timers, levels and slots.                                     *)
(*                                                                         *)
(* A session leaves the map no later than the poll thread can reclaim it   *)
(* (LifeInv), and the DEL of its watch is the last operation ever queued,  *)
(* because every other one goes through the channel that DetachChannel has *)
(* taken away (OpsInv).                                                    *)
(*                                                                         *)
(* That no timer is passed over needs to know where it is: Until says how  *)
(* many ticks remain before each level turns, and PlaceInv that a timer of *)
(* an upper level comes down before its trigger tick.                      *)
(***************************************************************************)
EXTENDS SessionIo, MCTimerWheel, SequenceTheorems, WellFoundedInduction, TLAPS

Masks == SUBSET {READ, WRITE}
Ops == [op : {"MOD", "DEL"}, mask : Masks]
Watches == [mask : Masks, data : BOOLEAN, state : {"open", "closing", "freed"}]
Names == Senders \cup {Poll}
Threads == Senders \cup Closers \cup {Poll}

TypeOK ==
  /\ mapped \in BOOLEAN /\ pChannel \in BOOLEAN /\ deleted \in BOOLEAN /\ writable \in BOOLEAN
  /\ iStatus \in {"CONNECTED", "WILL_CLOSE"}
  /\ iReferences \subseteq Senders \cup {"channel"}
  /\ iEventMask \in Masks
  /\ watch \in Watches
  /\ g_ops \in Seq(Ops) /\ iRemaining \in Nat
  /\ poll \in {"idle", "drain", "in", "eof", "inclosed", "out", "sending", "outclosed", "try",
               "destroy"}
  /\ stOutputBuffer \in Seq(Names) /\ chanOut \in Seq(Names)
  /\ wire \in Seq(Names) /\ accepted \in Seq(Names) /\ iQueuedBytes \in Int
  /\ thread \in [Threads -> {"new", "found", "refused", "accepted", "closed"}]

\* How far the end of the session has come.  A closed session is out of the map except
\* between the two steps of PassiveClose; what Destroy takes away goes together.
LifeInv ==
  /\ mapped => /\ "channel" \in iReferences
               /\ IsClosed => poll \in {"inclosed", "outclosed"}
  /\ ~pChannel => IsClosed
  /\ deleted <=> ~watch.data
  /\ deleted => ~mapped /\ ~pChannel
  /\ poll = "destroy" <=> ~pChannel /\ ~deleted
  /\ poll \notin {"idle", "drain"} => watch.data

\* A DEL is queued after everything else and for a watch that uv still has.
OpsInv ==
  /\ poll = "drain" => iRemaining \in 1..Len(g_ops)
  /\ \A i \in DOMAIN g_ops : g_ops[i].op = "DEL" => i = Len(g_ops) /\ ~watch.data
  /\ g_ops # <<>> => watch.state = "open"
  /\ watch.state # "open" => ~watch.data

IInv == TypeOK /\ LifeInv /\ OpsInv /\ MaskFollows

-----------------------------------------------------------------------------
\* What Append and Tail do to a queue.
LEMMA AppendFacts ==
  ASSUME NEW S, NEW q \in Seq(S), NEW e \in S
  PROVE  /\ Append(q, e) \in Seq(S) /\ Append(q, e) # <<>>
         /\ Len(q) \in Nat /\ DOMAIN q = 1..Len(q) /\ Len(Append(q, e)) = Len(q) + 1
         /\ DOMAIN Append(q, e) = 1..(Len(q) + 1)
         /\ Append(q, e)[Len(q) + 1] = e
         /\ \A i \in 1..Len(q) : Append(q, e)[i] = q[i]
OBVIOUS

LEMMA TailFacts ==
  ASSUME NEW S, NEW q \in Seq(S), q # <<>>
  PROVE  /\ Len(q) \in Nat /\ DOMAIN q = 1..Len(q) /\ Len(q) > 0 /\ 1 \in DOMAIN q
         /\ Head(q) = q[1] /\ Head(q) \in S /\ Tail(q) \in Seq(S)
         /\ Len(Tail(q)) = Len(q) - 1 /\ DOMAIN Tail(q) = 1..(Len(q) - 1)
         /\ \A i \in DOMAIN Tail(q) : i + 1 \in DOMAIN q /\ Tail(q)[i] = q[i + 1]
OBVIOUS

\* As long as the watch has its channel nothing but MODs is queued.
LEMMA OnlyMods ==
  ASSUME TypeOK, OpsInv, watch.data
  PROVE  \A i \in DOMAIN g_ops : g_ops[i].op = "MOD"
<1>1. ASSUME NEW i \in DOMAIN g_ops PROVE g_ops[i].op = "MOD"
  <2>1. g_ops[i] \in Ops
    BY DEF TypeOK
  <2> QED
    BY <2>1 DEF Ops, OpsInv
<1> QED
  BY <1>1

\* What the mask, the watch and the queue look like after a step that only asks for events.
EventStep ==
  /\ iEventMask' \in Masks
  /\ watch' \in Watches /\ watch'.data = watch.data /\ watch'.state = watch.state
  /\ g_ops' \in Seq(Ops) /\ iRemaining' = iRemaining /\ Len(g_ops') >= Len(g_ops)
  /\ \A i \in DOMAIN g_ops' : g_ops'[i].op = "DEL" => i = Len(g_ops') /\ ~watch.data
  /\ g_ops' # <<>> => watch.state = "open"
  /\ MaskFollows'

LEMMA NoEventStep ==
  ASSUME IInv, UNCHANGED <<eventVars, opVars>>
  PROVE  EventStep
BY DEF IInv, TypeOK, OpsInv, MaskFollows, EventStep, eventVars, opVars

LEMMA ModStep ==
  ASSUME IInv, NEW onLoop \in BOOLEAN, NEW mask \in Masks, watch.data, IOEventMod(onLoop, mask)
  PROVE  EventStep
<1> USE DEF IInv
<1>0. watch.state = "open" /\ g_ops \in Seq(Ops) /\ Len(g_ops) \in Nat
  BY DEF TypeOK, OpsInv
<1>1. CASE onLoop
  <2>1. iEventMask' = mask /\ g_ops' = g_ops /\ iRemaining' = iRemaining
    BY <1>1 DEF IOEventMod, opVars
  <2>2. /\ watch'.mask = iEventMask' /\ watch'.data = watch.data /\ watch'.state = watch.state
        /\ watch' \in Watches
    <3>1. watch' = [watch EXCEPT !.mask = mask]
      BY <1>1 DEF IOEventMod
    <3> QED
      BY Zenon, <2>1, <3>1 DEF TypeOK, Watches
  <2>3. MaskFollows'
    BY <2>2 DEF MaskFollows
  <2>4. \A i \in DOMAIN g_ops' : g_ops'[i].op = "MOD"
    BY <2>1, OnlyMods
  <2> QED
    BY <1>0, <2>1, <2>2, <2>3, <2>4 DEF EventStep
<1>2. CASE ~onLoop
  <2> DEFINE mod == [op |-> "MOD", mask |-> mask]
  <2>1. mod \in Ops /\ mod.op = "MOD"
    BY DEF Ops
  <2>2. /\ g_ops' = Append(g_ops, mod) /\ iEventMask' = mask
        /\ watch' = watch /\ iRemaining' = iRemaining
    BY <1>2 DEF IOEventMod
  <2> HIDE DEF mod
  <2>3. /\ g_ops' \in Seq(Ops) /\ Len(g_ops') >= Len(g_ops)
        /\ \A i \in DOMAIN g_ops' : g_ops'[i].op = "MOD"
        /\ \E i \in DOMAIN g_ops' : g_ops'[i].op = "MOD"
    BY <1>0, <2>1, <2>2, OnlyMods, AppendFacts
  <2> QED
    BY Zenon, <1>0, <2>2, <2>3 DEF TypeOK, MaskFollows, EventStep
<1> QED
  BY <1>1, <1>2

LEMMA AllowSendStep ==
  ASSUME IInv, NEW onLoop \in BOOLEAN, AllowSend(onLoop)
  PROVE  EventStep
<1>1. CASE pChannel /\ WRITE \notin iEventMask
  <2>1. watch.data /\ iEventMask \cup {WRITE} \in Masks
    BY <1>1 DEF IInv, TypeOK, LifeInv, Masks
  <2> QED
    BY <1>1, <2>1, ModStep DEF AllowSend
<1>2. CASE ~(pChannel /\ WRITE \notin iEventMask)
  BY <1>2, NoEventStep DEF AllowSend
<1> QED
  BY <1>1, <1>2

LEMMA CloseStep ==
  ASSUME IInv, NEW onLoop \in BOOLEAN, Close(onLoop)
  PROVE  EventStep /\ iStatus' = "WILL_CLOSE" /\ pChannel' = pChannel
<1>1. CASE IsClosed
  BY <1>1, NoEventStep DEF Close, sessionVars, IsClosed, IInv, TypeOK
<1>2. CASE ~IsClosed
  BY <1>2, AllowSendStep DEF Close
<1> QED
  BY <1>1, <1>2

-----------------------------------------------------------------------------
\* The byte queues keep their type.
LEMMA SendResultStep ==
  ASSUME IInv, NEW t \in Names, NEW onLoop \in BOOLEAN, SendResult(t, onLoop)
  PROVE  /\ EventStep
         /\ thread' \in [Threads -> {"new", "found", "refused", "accepted", "closed"}]
         /\ \/ UNCHANGED queueVars
            \/ \E bytes \in Seq(Names) :
                 /\ Len(bytes) = MessageBytes
                 /\ stOutputBuffer' = stOutputBuffer \o bytes
                 /\ accepted' = accepted \o bytes
                 /\ iQueuedBytes' = iQueuedBytes + MessageBytes
<1>1. CASE IsClosed \/ MessageBytes > iMaxSendQueueBytes - iQueuedBytes
  BY <1>1, NoEventStep DEF SendResult, Goto, IInv, TypeOK
<1>2. CASE ~(IsClosed \/ MessageBytes > iMaxSendQueueBytes - iQueuedBytes)
  <2> DEFINE bytes == [i \in 1..MessageBytes |-> t]
  <2>1. bytes \in Seq(Names) /\ Len(bytes) = MessageBytes
    BY SessionIoAssumption DEF SessionIoAssumption
  <2>2. /\ stOutputBuffer' = stOutputBuffer \o bytes /\ accepted' = accepted \o bytes
        /\ iQueuedBytes' = iQueuedBytes + MessageBytes
        /\ Goto(t, "accepted") /\ AllowSend(onLoop)
    BY Zenon, <1>2 DEF SendResult
  <2> HIDE DEF bytes
  <2>3. EventStep
    BY <2>2, AllowSendStep
  <2> QED
    BY Zenon, <2>1, <2>2, <2>3 DEF Goto, IInv, TypeOK
<1> QED
  BY Zenon, <1>1, <1>2

\* Where the bytes move: a message is appended behind, the buffers are joined, or the socket
\* takes some from the front.
BytesMove ==
  \/ UNCHANGED <<queueVars, outVars>>
  \/ /\ \E bytes \in Seq(Names) : /\ Len(bytes) = MessageBytes
                                  /\ stOutputBuffer' = stOutputBuffer \o bytes
                                  /\ accepted' = accepted \o bytes
                                  /\ iQueuedBytes' = iQueuedBytes + MessageBytes
     /\ UNCHANGED outVars
  \/ SwapOutBuff
  \/ \E n \in 1..Len(chanOut) : SendSome(n)

LEMMA BytesType ==
  ASSUME TypeOK, BytesMove
  PROVE  /\ stOutputBuffer' \in Seq(Names) /\ chanOut' \in Seq(Names)
         /\ wire' \in Seq(Names) /\ accepted' \in Seq(Names) /\ iQueuedBytes' \in Int
<1>1. CASE UNCHANGED <<queueVars, outVars>>
  BY <1>1 DEF TypeOK, queueVars, outVars
<1>2. ASSUME NEW bytes \in Seq(Names), stOutputBuffer' = stOutputBuffer \o bytes,
             accepted' = accepted \o bytes, iQueuedBytes' = iQueuedBytes + MessageBytes,
             UNCHANGED outVars
      PROVE  /\ stOutputBuffer' \in Seq(Names) /\ chanOut' \in Seq(Names)
             /\ wire' \in Seq(Names) /\ accepted' \in Seq(Names) /\ iQueuedBytes' \in Int
  BY <1>2, SessionIoAssumption, ConcatProperties DEF SessionIoAssumption, TypeOK, outVars
<1>3. CASE SwapOutBuff
  BY <1>3, ConcatProperties, EmptySeq DEF SwapOutBuff, TypeOK
<1>4. ASSUME NEW n \in 1..Len(chanOut), SendSome(n)
      PROVE  /\ stOutputBuffer' \in Seq(Names) /\ chanOut' \in Seq(Names)
             /\ wire' \in Seq(Names) /\ accepted' \in Seq(Names) /\ iQueuedBytes' \in Int
  <2>1. chanOut \in Seq(Names) /\ wire \in Seq(Names)
    BY DEF TypeOK
  <2>2. SubSeq(chanOut, 1, n) \in Seq(Names) /\ SubSeq(chanOut, n + 1, Len(chanOut)) \in Seq(Names)
    BY <2>1
  <2> QED
    BY <1>4, <2>1, <2>2, ConcatProperties DEF SendSome, TypeOK
<1> QED
  BY <1>1, <1>2, <1>3, <1>4 DEF BytesMove

\* However the bytes move, none is lost, doubled or overtaken, and the count follows.
LEMMA BytesStep ==
  ASSUME TypeOK, BytesInOrder, BytesMove
  PROVE  BytesInOrder'
<1>0. /\ stOutputBuffer \in Seq(Names) /\ chanOut \in Seq(Names) /\ wire \in Seq(Names)
      /\ wire \o chanOut \in Seq(Names) /\ <<>> \in Seq(Names)
      /\ Len(chanOut) \in Nat /\ Len(stOutputBuffer) \in Nat
  BY ConcatProperties DEF TypeOK
<1>a. \A s, t, u \in Seq(Names) : (s \o t) \o u = s \o (t \o u)
  BY ConcatAssociative
<1>1. CASE UNCHANGED <<queueVars, outVars>>
  BY <1>1 DEF BytesInOrder, queueVars, outVars
<1>2. ASSUME NEW bytes \in Seq(Names), Len(bytes) = MessageBytes,
             stOutputBuffer' = stOutputBuffer \o bytes, accepted' = accepted \o bytes,
             iQueuedBytes' = iQueuedBytes + MessageBytes, UNCHANGED outVars
      PROVE  BytesInOrder'
  <2>1. (wire \o chanOut) \o (stOutputBuffer \o bytes)
          = ((wire \o chanOut) \o stOutputBuffer) \o bytes
    <3>1. wire \o chanOut \in Seq(Names) /\ stOutputBuffer \in Seq(Names)
      BY <1>0, Zenon
    <3> QED
      BY <1>a, <3>1, Zenon
  <2>2. Len(stOutputBuffer \o bytes) = Len(stOutputBuffer) + MessageBytes
    BY Zenon, <1>0, <1>2, ConcatProperties
  <2> QED
    <3>1. wire' = wire /\ chanOut' = chanOut
      BY <1>2 DEF outVars
    <3>2. (wire \o chanOut) \o stOutputBuffer = accepted
      BY DEF BytesInOrder
    <3>3. iQueuedBytes' = Len(chanOut) + Len(stOutputBuffer \o bytes)
      BY <1>0, <1>2, <2>2, SessionIoAssumption DEF BytesInOrder, SessionIoAssumption
    <3> QED
      BY Zenon, <1>2, <2>1, <3>1, <3>2, <3>3 DEF BytesInOrder
<1>3. CASE SwapOutBuff
  <2>1. /\ wire' = wire /\ accepted' = accepted /\ iQueuedBytes' = iQueuedBytes
        /\ chanOut' = chanOut \o stOutputBuffer /\ stOutputBuffer' = <<>>
    BY <1>3 DEF SwapOutBuff
  <2>2. chanOut \o stOutputBuffer \in Seq(Names)
        /\ Len(chanOut \o stOutputBuffer) = Len(chanOut) + Len(stOutputBuffer)
    BY <1>0, ConcatProperties
  <2>3. (wire \o (chanOut \o stOutputBuffer)) \o <<>> = wire \o chanOut \o stOutputBuffer
    BY SMTT(30), <1>0, <2>2, ConcatAssociative, ConcatProperties, ConcatEmptySeq
  <2> QED
    BY SMTT(30), <1>0, <2>1, <2>2, <2>3 DEF BytesInOrder
<1>4. ASSUME NEW n \in 1..Len(chanOut), SendSome(n)
      PROVE  BytesInOrder'
  <2> DEFINE front == SubSeq(chanOut, 1, n)
             rest == SubSeq(chanOut, n + 1, Len(chanOut))
  <2>1. /\ wire' = wire \o front /\ chanOut' = rest /\ iQueuedBytes' = iQueuedBytes - n
        /\ stOutputBuffer' = stOutputBuffer /\ accepted' = accepted
    BY <1>4 DEF SendSome
  <2>2. front \in Seq(Names) /\ rest \in Seq(Names) /\ Len(rest) = Len(chanOut) - n
    BY <1>0
  <2>3. front \o rest = chanOut
    <3>1. front \o rest = SubSeq(chanOut, 1, Len(chanOut))
      BY <1>0, ConcatAdjacentSubSeq
    <3> QED
      BY <1>0, <3>1, SubSeqFull
  <2> HIDE DEF front, rest
  <2>4. (wire \o front) \o rest = wire \o (front \o rest)
    <3>1. wire \in Seq(Names) /\ front \in Seq(Names) /\ rest \in Seq(Names)
      BY <1>0, <2>2, Zenon
    <3> QED
      BY <1>a, <3>1, Zenon
  <2>5. (wire' \o chanOut') \o stOutputBuffer' = accepted'
    BY SMTT(30), <2>1, <2>3, <2>4 DEF BytesInOrder
  <2>6. iQueuedBytes' = Len(chanOut') + Len(stOutputBuffer')
    BY <1>0, <2>1, <2>2 DEF BytesInOrder
  <2> QED
    BY <2>5, <2>6 DEF BytesInOrder
<1> QED
  BY Zenon, <1>1, <1>2, <1>3, <1>4 DEF BytesMove

LEMMA BytesMoves ==
  ASSUME IInv, [Next]_vars
  PROVE  BytesMove
<1>1. ASSUME NEW t \in Senders, Find(t) \/ Send(t)
      PROVE  BytesMove
  BY Zenon, <1>1, SendResultStep DEF Find, Send, BytesMove, Names
<1>2. ASSUME NEW t \in Closers, CloseSession(t)
      PROVE  BytesMove
  BY <1>2 DEF CloseSession, BytesMove
<1>3. CASE DrainOps \/ ApplyOp \/ CloseWatch \/ AllowRead
  BY Zenon, <1>3 DEF DrainOps, ApplyOp, CloseWatch, AllowRead, BytesMove
<1>4. CASE DataIn
  BY Zenon, <1>4, SendResultStep DEF DataIn, BytesMove, Names
<1>5. CASE PassiveClose \/ PassiveErase \/ WriteFull \/ SendDrained \/ TryClose \/ Destroy
  BY Zenon, <1>5
     DEF PassiveClose, PassiveErase, WriteFull, SendDrained, TryClose, Destroy, BytesMove
<1>6. CASE SwapOutBuff \/ \E n \in 1..Len(chanOut) : SendSome(n)
  BY <1>6 DEF BytesMove
<1>7. ASSUME NEW in \in BOOLEAN, NEW out \in BOOLEAN, OnPoll(in, out)
      PROVE  BytesMove
  BY <1>7 DEF OnPoll, BytesMove
<1>8. CASE UNCHANGED vars
  BY <1>8 DEF vars, BytesMove
<1> QED
  BY <1>1, <1>2, <1>3, <1>4, <1>5, <1>6, <1>7, <1>8 DEF Next, Callback

-----------------------------------------------------------------------------
\* The invariant after a step that asks for events at most, and does not begin to drain.
LEMMA EventsKept ==
  ASSUME IInv, EventStep, poll' = "drain" => poll = "drain"
  PROVE  OpsInv' /\ MaskFollows' /\ watch'.data = watch.data
<1>1. Len(g_ops) \in Nat /\ Len(g_ops') \in Nat
  BY DEF EventStep, IInv, TypeOK
<1> QED
  BY <1>1 DEF EventStep, IInv, TypeOK, OpsInv

LEMMA InvStep ==
  ASSUME IInv, [Next]_vars
  PROVE  IInv'
<1> USE DEF sessionVars, IsClosed, IInv
<1>b. /\ stOutputBuffer' \in Seq(Names) /\ chanOut' \in Seq(Names)
      /\ wire' \in Seq(Names) /\ accepted' \in Seq(Names) /\ iQueuedBytes' \in Int
  BY BytesMoves, BytesType
<1>1. ASSUME NEW t \in Senders, Find(t) PROVE IInv'
  <2>1. EventStep
    BY <1>1, NoEventStep DEF Find
  <2> QED
    BY Zenon, <1>1, <1>b, <2>1, EventsKept DEF Find, Goto, TypeOK, LifeInv, EventStep
<1>2. ASSUME NEW t \in Senders, Send(t) PROVE IInv'
  <2>1. EventStep /\ thread' \in [Threads -> {"new", "found", "refused", "accepted", "closed"}]
    BY Zenon, <1>2, SendResultStep DEF Send, Names
  <2> QED
    BY <1>2, <1>b, <2>1, EventsKept, SessionIoAssumption
       DEF Send, TypeOK, LifeInv, EventStep, SessionIoAssumption
<1>3. ASSUME NEW t \in Closers, CloseSession(t) PROVE IInv'
  <2>1. /\ EventStep /\ pChannel' = pChannel /\ mapped' = FALSE
        /\ iStatus' \in {iStatus, "WILL_CLOSE"}
    BY Zenon, <1>3, NoEventStep, CloseStep DEF CloseSession, TypeOK
  <2> QED
    BY Zenon, <1>3, <1>b, <2>1, EventsKept DEF CloseSession, Goto, TypeOK, LifeInv, EventStep
<1>4. CASE DrainOps
  BY <1>4, <1>b DEF DrainOps, TypeOK, LifeInv, OpsInv, MaskFollows, eventVars
<1>5. CASE ApplyOp
  <2>1. /\ g_ops # <<>> /\ g_ops \in Seq(Ops) /\ Len(g_ops) \in Nat /\ Head(g_ops) = g_ops[1]
        /\ g_ops[1] \in Ops /\ 1 \in DOMAIN g_ops /\ watch.state = "open"
    BY <1>5, TailFacts DEF ApplyOp, TypeOK, OpsInv
  <2>2. /\ g_ops' \in Seq(Ops) /\ Len(g_ops') = Len(g_ops) - 1 /\ DOMAIN g_ops' = 1..Len(g_ops')
        /\ \A i \in DOMAIN g_ops' : i + 1 \in DOMAIN g_ops /\ g_ops'[i] = g_ops[i + 1]
    BY <1>5, <2>1, TailFacts DEF ApplyOp
  <2>3. /\ poll = "drain" /\ iRemaining \in 1..Len(g_ops) /\ iRemaining' = iRemaining - 1
        /\ poll' = IF iRemaining = 1 THEN "idle" ELSE "drain"
    BY <1>5 DEF ApplyOp, OpsInv
  <2>4. /\ iRemaining' \in Nat /\ (poll' = "drain" => iRemaining' \in 1..Len(g_ops'))
        /\ poll' \in {"idle", "drain"}
    BY <2>1, <2>2, <2>3
  <2>5. \A i \in DOMAIN g_ops' : g_ops'[i].op = "DEL" => i = Len(g_ops') /\ ~watch.data
    BY <2>1, <2>2 DEF OpsInv
  <2>6. CASE g_ops[1].op = "MOD"
    <3>1. watch' = [watch EXCEPT !.mask = IF watch.data THEN iEventMask ELSE @]
      BY <1>5, <2>1, <2>6 DEF ApplyOp, ModMask
    <3>2. /\ watch' \in Watches /\ watch'.data = watch.data /\ watch'.state = watch.state
          /\ watch.data => watch'.mask = iEventMask
      BY SMTT(30), <3>1 DEF TypeOK, Watches
    <3>3. OpsInv' /\ MaskFollows'
      BY <1>5, <2>1, <2>4, <2>5, <3>2 DEF ApplyOp, OpsInv, MaskFollows
    <3> QED
      BY SMTT(30), <1>5, <1>b, <2>2, <2>3, <2>4, <3>2, <3>3 DEF ApplyOp, TypeOK, LifeInv
  <2>7. CASE g_ops[1].op = "DEL"
    <3>1. watch' = [watch EXCEPT !.state = "closing"]
      BY <1>5, <2>1, <2>7 DEF ApplyOp
    <3>2. watch' \in Watches /\ watch'.data = watch.data /\ watch'.state = "closing"
      BY Zenon, <3>1 DEF TypeOK, Watches
    <3>3. ~watch.data /\ g_ops' = <<>>
      <4>1. Len(g_ops) = 1 /\ ~watch.data
        BY Zenon, <2>1, <2>7 DEF OpsInv
      <4> QED
        BY <2>2, <4>1, EmptySeq
    <3>4. OpsInv' /\ MaskFollows'
      BY <2>2, <2>4, <3>2, <3>3 DEF OpsInv, MaskFollows
    <3> QED
      BY SMTT(30), <1>5, <1>b, <2>2, <2>3, <2>4, <3>2, <3>4 DEF ApplyOp, TypeOK, LifeInv
  <2> QED
    BY <2>1, <2>6, <2>7 DEF Ops
<1>6. CASE CloseWatch
  BY Zenon, <1>6, <1>b DEF CloseWatch, TypeOK, Watches, LifeInv, OpsInv, MaskFollows, opVars
<1>7. CASE AllowRead
  <2>1. EventStep
    BY Zenon, <1>7, ModStep DEF AllowRead, TypeOK, LifeInv, Masks
  <2> QED
    BY <1>7, <1>b, <2>1, EventsKept DEF AllowRead, TypeOK, LifeInv, EventStep
<1>8. ASSUME NEW in \in BOOLEAN, NEW out \in BOOLEAN, OnPoll(in, out) PROVE IInv'
  <2>1. EventStep
    BY <1>8, NoEventStep DEF OnPoll
  <2> QED
    BY <1>8, <1>b, <2>1, EventsKept DEF OnPoll, TypeOK, LifeInv, EventStep
<1>9. CASE DataIn
  <2>1. /\ EventStep
        /\ thread' \in [Threads -> {"new", "found", "refused", "accepted", "closed"}]
    <3>1. CASE SendResult(Poll, TRUE)
      BY Zenon, <3>1, SendResultStep DEF Names
    <3>2. CASE IOEventMod(TRUE, iEventMask \ {READ}) /\ UNCHANGED thread
      <4>1. watch.data /\ iEventMask \ {READ} \in Masks
        BY <1>9 DEF DataIn, TypeOK, LifeInv, Masks
      <4> QED
        BY Zenon, <3>2, <4>1, ModStep DEF TypeOK
    <3>3. CASE UNCHANGED <<eventVars, opVars, thread>>
      BY <3>3, NoEventStep DEF TypeOK
    <3> QED
      BY Zenon, <1>9, <3>1, <3>2, <3>3 DEF DataIn
  <2> QED
    BY <1>9, <1>b, <2>1, EventsKept DEF DataIn, AfterIn, TypeOK, LifeInv, EventStep
<1>10. CASE PassiveClose
  <2>1. EventStep /\ iStatus' = "WILL_CLOSE" /\ pChannel' = pChannel
    BY Zenon, <1>10, CloseStep DEF PassiveClose
  <2> QED
    BY <1>10, <1>b, <2>1, EventsKept DEF PassiveClose, TypeOK, LifeInv, EventStep
<1>11. CASE PassiveErase \/ SwapOutBuff \/ WriteFull \/ \E n \in 1..Len(chanOut) : SendSome(n)
  <2>1. EventStep
    BY <1>11, NoEventStep DEF PassiveErase, SwapOutBuff, WriteFull, SendSome
  <2>2. CASE PassiveErase
    BY Zenon, <1>b, <2>1, <2>2, EventsKept DEF PassiveErase, AfterIn, TypeOK, LifeInv, EventStep
  <2>3. CASE SwapOutBuff \/ WriteFull \/ \E n \in 1..Len(chanOut) : SendSome(n)
    BY SMTT(60), <1>b, <2>1, <2>3, EventsKept
       DEF SwapOutBuff, WriteFull, SendSome, TypeOK, LifeInv, EventStep
  <2> QED
    BY <1>11, <2>2, <2>3
<1>12. CASE SendDrained
  <2>1. EventStep
    <3>1. watch.data /\ iEventMask \ {WRITE} \in Masks
      BY <1>12 DEF SendDrained, TypeOK, LifeInv, Masks
    <3> QED
      BY Zenon, <1>12, <3>1, ModStep, NoEventStep DEF SendDrained
  <2> QED
    BY <1>12, <1>b, <2>1, EventsKept DEF SendDrained, TypeOK, LifeInv, EventStep
<1>13. CASE Destroy
  <2>1. watch.data /\ watch.state = "open" /\ g_ops \in Seq(Ops)
    BY <1>13 DEF Destroy, TypeOK, LifeInv, OpsInv
  <2>2. watch' \in Watches /\ watch'.data = FALSE /\ watch'.state = "open"
    <3>1. watch' = [watch EXCEPT !.data = FALSE]
      BY <1>13 DEF Destroy
    <3> QED
      BY Zenon, <2>1, <3>1 DEF TypeOK, Watches
  <2> DEFINE del == [op |-> "DEL", mask |-> {}]
  <2>3. g_ops' = Append(g_ops, del) /\ del \in Ops
    BY <1>13 DEF Destroy, Ops, Masks
  <2> HIDE DEF del
  <2>4. /\ g_ops' \in Seq(Ops) /\ Len(g_ops') = Len(g_ops) + 1 /\ Len(g_ops) \in Nat
        /\ \A i \in DOMAIN g_ops' : g_ops'[i].op = "DEL" => i = Len(g_ops')
    BY <2>1, <2>3, AppendFacts, OnlyMods
  <2>5. OpsInv' /\ MaskFollows'
    BY <1>13, <2>2, <2>4 DEF Destroy, OpsInv, MaskFollows
  <2> QED
    BY SMTT(30), <1>13, <1>b, <2>2, <2>4, <2>5 DEF Destroy, TypeOK, LifeInv
<1>14. CASE TryClose
  <2>1. EventStep
    BY <1>14, NoEventStep DEF TryClose
  <2> QED
    BY Zenon, <1>14, <1>b, <2>1, EventsKept DEF TryClose, TypeOK, LifeInv, EventStep
<1>15. CASE UNCHANGED vars
  BY <1>15, <1>b DEF vars, TypeOK, LifeInv, OpsInv, MaskFollows, eventVars, opVars
<1> QED
  BY <1>1, <1>2, <1>3, <1>4, <1>5, <1>6, <1>7, <1>8, <1>9, <1>10, <1>11, <1>12, <1>13, <1>14,
     <1>15
     DEF Next, Callback

-----------------------------------------------------------------------------
LEMMA InvInit == Init => IInv /\ BytesInOrder
<1> SUFFICES ASSUME Init PROVE IInv /\ BytesInOrder
  OBVIOUS
<1>1. <<>> \in Seq(Names) /\ <<>> \in Seq(Ops) /\ Len(<<>>) = 0 /\ <<>> \o <<>> = <<>>
  OBVIOUS
<1>2. TypeOK
  <2>1. iEventMask \in Masks /\ watch \in Watches
    BY DEF Init, Masks, Watches
  <2>2. thread \in [Threads -> {"new", "found", "refused", "accepted", "closed"}]
    BY DEF Init, Threads
  <2>3. /\ g_ops \in Seq(Ops) /\ stOutputBuffer \in Seq(Names) /\ chanOut \in Seq(Names)
        /\ wire \in Seq(Names) /\ accepted \in Seq(Names)
    BY <1>1 DEF Init
  <2>4. /\ mapped \in BOOLEAN /\ pChannel \in BOOLEAN /\ deleted \in BOOLEAN
        /\ writable \in BOOLEAN /\ iStatus = "CONNECTED" /\ iReferences = {"channel"}
        /\ iRemaining = 0 /\ poll = "idle" /\ iQueuedBytes = 0
    BY Zenon DEF Init
  <2> QED
    BY <2>1, <2>2, <2>3, <2>4 DEF TypeOK
<1>3. LifeInv /\ OpsInv /\ MaskFollows
  BY <1>1 DEF Init, LifeInv, OpsInv, MaskFollows, IsClosed
<1>4. BytesInOrder
  BY <1>1 DEF Init, BytesInOrder
<1> QED
  BY <1>2, <1>3, <1>4 DEF IInv

\* The invariant of a session, its channel and the queue of Poll.
THEOREM SessionInvariant == Spec => []IInv
<1>1. IInv /\ [Next]_vars => IInv'
  BY InvStep
<1> QED
  BY InvInit, <1>1, PTL DEF Spec

\* No pointer of the map, a sender, the channel or the queue of operations leads to something
\* that is gone, and uv polls for the channel's mask or a MOD is on its way.
THEOREM SessionPollSound == Spec => []PollSound
<1>1. IInv => PointersAlive
  <2> SUFFICES ASSUME IInv PROVE PointersAlive
    OBVIOUS
  <2>1. mapped => "channel" \in iReferences /\ ~deleted
    BY DEF IInv, LifeInv
  <2>2. pChannel => watch.data
    BY DEF IInv, LifeInv
  <2> QED
    BY <2>1, <2>2 DEF IInv, OpsInv, PointersAlive
<1>2. IInv => PollSound
  BY <1>1 DEF IInv, PollSound
<1> QED
  BY SessionInvariant, <1>2, PTL

\* What SendResult has accepted is, in this order, on the wire, in the channel or in the
\* session, and iQueuedBytes counts what is not yet on the wire.
THEOREM SessionBytesInOrder == Spec => []BytesInOrder
<1>1. Init => BytesInOrder
  BY InvInit
<1>2. IInv /\ BytesInOrder /\ [Next]_vars => BytesInOrder'
  BY BytesMoves, BytesStep DEF IInv
<1> QED
  BY SessionInvariant, <1>1, <1>2, PTL DEF Spec
-----------------------------------------------------------------------------
(***************************************************************************)
(* TimerWheel.  That no timer is passed over is not inductive: WheelInv    *)
(* says for each slot of each level that the wheel gets to it before the   *)
(* trigger tick of the timers in it.  Until bounds when a level turns next *)
(* (it may turn earlier, when try_uniform finds the level below at its     *)
(* start), and Stage is what holds between two levels of try_uniform.      *)
(***************************************************************************)

Offsets == {off \in [Wheel!Levels -> Nat] : \A l \in Wheel!Levels : off[l] < MaxTick[l]}
Slots == UNION {{<<l, s>> : s \in 0..(MaxTick[l] - 1)} : l \in Wheel!Levels}
Places == {Wheel!Idle, Wheel!Due, Wheel!Running} \cup Slots

\* How many ticks at most until a level turns next, for a wheel that stands at off.
Until(off) ==
  LET D[l \in Wheel!Levels] ==
        IF l = 0 THEN 1
        ELSE D[l - 1] + (MaxTick[l - 1] - 1 - off[l - 1]) * Wheel!LevelOffsetTick[l - 1]
  IN D

\* How many times level l turns before it gets to slot s.
Turns(off, l, s) == (s - off[l]) % MaxTick[l]

\* A timer that triggers at tick trig is well placed in slot s of level l: on level 0 its slot
\* comes in the trigger tick, or in the next one when it was handed down in the trigger tick;
\* an upper level gets to its slot before the trigger tick.
Placed(off, cur, l, s, trig) ==
  IF l = 0 THEN LET r == Turns(off, 0, s) IN cur + 1 + r = trig \/ (r = 0 /\ cur = trig)
  ELSE cur + Until(off)[l] + Turns(off, l, s) * Wheel!LevelOffsetTick[l] <= trig

WheelType ==
  /\ now \in 0..MaxNow /\ base \in Nat /\ curTick \in Nat /\ iTicks \in Nat
  /\ offset \in Offsets
  /\ place \in [Timers -> Places]
  /\ trigger \in [Timers -> Nat] /\ interval \in [Timers -> Nat] /\ due \in [Timers -> Nat]

\* Ticks are taken from time that has passed.
ClockInv == base + iTicks * TickMs <= now

PlaceInv ==
  \A t \in Timers : \A l \in Wheel!Levels : \A s \in 0..(MaxTick[l] - 1) :
    place[t] = <<l, s>> => Placed(offset, curTick, l, s, trigger[t])

\* The trigger tick of an armed timer ends no earlier than its interval.
DueInv ==
  \A t \in Timers :
    /\ place[t] # Wheel!Idle => interval[t] > 0
    /\ Wheel!InWheel(t) => due[t] <= base + (trigger[t] - curTick) * TickMs
    /\ place[t] = Wheel!Due => /\ due[t] <= base
                         /\ trigger[t] <= curTick /\ curTick <= trigger[t] + 1

WheelInv == WheelType /\ ClockInv /\ PlaceInv /\ DueInv

-----------------------------------------------------------------------------
\* A set of naturals that is not empty has a least element.
LEMMA LeastNat ==
  ASSUME NEW T, T \subseteq Nat, T # {}
  PROVE  \E x \in T : \A y \in T : x <= y
<1> DEFINE Less == OpToRel(<, Nat)
<1>1. IsWellFoundedOn(Less, Nat)
  BY NatLessThanWellFounded
<1>2. \A x, y \in Nat : y < x => <<y, x>> \in Less
  BY DEF OpToRel
<1> HIDE DEF Less
<1>3. PICK x \in T : \A y \in T : ~(<<y, x>> \in Less)
  BY Zenon, <1>1, WFMin
<1>4. \A y \in T : ~(y < x)
  BY Zenon, <1>2, <1>3
<1>5. \A y \in T : x <= y
  BY <1>4
<1> QED
  BY <1>5

\* Induction from level to level: a set that has 0 and each successor has all.
LEMMA LevelInduction ==
  ASSUME NEW n \in Nat, NEW S, 0 \in S, \A l \in 1..n : l - 1 \in S => l \in S
  PROVE  \A l \in 0..n : l \in S
<1> DEFINE U == {l \in 0..n : l \notin S}
<1> SUFFICES ASSUME U # {}
             PROVE  FALSE
  OBVIOUS
<1>1. PICK x \in U : \A y \in U : x <= y
  <2>1. U \subseteq Nat
    OBVIOUS
  <2> QED
    BY <2>1, LeastNat
<1>2. x \in 1..n /\ x - 1 \in 0..n /\ x - 1 \notin U
  BY <1>1
<1> QED
  BY <1>2

\* G takes a level above 0 and a value, and f goes by G from level to level.
IsStep(G, n, X) == G \in [(1..n) \X X -> X]

IsTable(f, n, X, x0, G) ==
  f \in [0..n -> X] /\ f[0] = x0 /\ \A l \in 1..n : f[l] = G[<<l, f[l - 1]>>]

\* A function that is defined from level to level exists.
LEMMA LevelRecursion ==
  ASSUME NEW n, NEW X, NEW x0, NEW G, n \in Nat, x0 \in X, IsStep(G, n, X)
  PROVE  \E f : IsTable(f, n, X, x0, G)
<1> USE DEF IsStep
<1> DEFINE Good(k) == \E f \in [0..k -> X] : f[0] = x0 /\ \A l \in 1..k : f[l] = G[<<l, f[l - 1]>>]
           S == {k \in 0..n : Good(k)}
<1>1. Good(0)
  <2>1. [l \in 0..0 |-> x0] \in [0..0 -> X] /\ [l \in 0..0 |-> x0][0] = x0
    OBVIOUS
  <2>2. 1..0 = {}
    OBVIOUS
  <2> QED
    BY <2>1, <2>2
<1>2. ASSUME NEW k \in 1..n, Good(k - 1)
      PROVE  Good(k)
  <2>1. PICK f \in [0..(k - 1) -> X] :
               f[0] = x0 /\ \A l \in 1..(k - 1) : f[l] = G[<<l, f[l - 1]>>]
    BY <1>2
  <2> DEFINE g == [l \in 0..k |-> IF l = k THEN G[<<k, f[k - 1]>>] ELSE f[l]]
  <2>2. k - 1 \in 0..(k - 1) /\ f[k - 1] \in X
    BY <2>1
  <2>3. g \in [0..k -> X]
    BY <2>1, <2>2
  <2>4. g[0] = x0
    BY <2>1
  <2>5. ASSUME NEW l \in 1..k
        PROVE  g[l] = G[<<l, g[l - 1]>>]
    <3>1. l - 1 \in 0..k /\ l - 1 # k /\ g[l - 1] = f[l - 1]
      OBVIOUS
    <3>2. CASE l = k
      BY <3>1, <3>2
    <3>3. CASE l # k
      <4>1. l \in 1..(k - 1) /\ g[l] = f[l]
        BY <3>3
      <4> QED
        BY <2>1, <3>1, <4>1
    <3> QED
      BY <3>2, <3>3
  <2> QED
    BY <2>3, <2>4, <2>5
<1> HIDE DEF Good
<1>3. 0 \in S
  BY <1>1
<1>4. \A l \in 1..n : l - 1 \in S => l \in S
  BY <1>2
<1> HIDE DEF S
<1>5. n \in S
  BY <1>3, <1>4, LevelInduction
<1> QED
  BY <1>5 DEF S, Good, IsTable

-----------------------------------------------------------------------------
\* The facts about the constants that the other proofs use.
LEMMA ConstantFacts ==
  /\ Count \in Nat /\ Count > 2 /\ Count - 1 \in Nat /\ Wheel!Levels = 0..(Count - 1)
  /\ MaxTick \in [Wheel!Levels -> Nat \ {0}] /\ MaxTick[Count - 1] = 1
  /\ \A l \in Wheel!Levels : MaxTick[l] \in Nat /\ MaxTick[l] >= 1
  /\ TickMs \in Nat /\ TickMs > 0
  /\ 0 \in Wheel!Levels /\ Count - 1 \in Wheel!Levels
  /\ \A l \in 1..(Count - 1) : l - 1 \in Wheel!Levels /\ l \in Wheel!Levels
  BY WheelAssumption DEF Wheel!Levels

\* The levels are numbers.
LEMMA LevelNat == \A j \in Wheel!Levels : j \in Nat
  BY ConstantFacts

\* What one slot of a level stands for: the recursive definition unfolds.
LEMMA LevelOffset ==
  /\ Wheel!LevelOffsetTick \in [Wheel!Levels -> Nat \ {0}]
  /\ Wheel!LevelOffsetTick[0] = 1
  /\ \A l \in 1..(Count - 1) :
       Wheel!LevelOffsetTick[l] = Wheel!LevelOffsetTick[l - 1] * MaxTick[l - 1]
<1> DEFINE X == Nat \ {0}
           G == [p \in (1..(Count - 1)) \X X |-> p[2] * MaxTick[p[1] - 1]]
           E(f) == f = [l \in Wheel!Levels |-> IF l = 0 THEN 1 ELSE f[l - 1] * MaxTick[l - 1]]
<1>1. ASSUME NEW p \in (1..(Count - 1)) \X X
      PROVE  p[2] * MaxTick[p[1] - 1] \in X
  BY ConstantFacts
<1>2. IsStep(G, Count - 1, X) /\ 1 \in X
  BY <1>1 DEF IsStep
<1>3. \A l \in 1..(Count - 1), x \in X : G[<<l, x>>] = x * MaxTick[l - 1]
  OBVIOUS
<1> HIDE DEF G
<1>4. \E f : IsTable(f, Count - 1, X, 1, G)
  <2>1. Count - 1 \in Nat
    BY ConstantFacts
  <2> HIDE DEF X
  <2> QED
    BY Zenon, <1>2, <2>1, LevelRecursion
<1> PICK f : IsTable(f, Count - 1, X, 1, G)
  BY <1>4
<1> f \in [0..(Count - 1) -> X] /\ f[0] = 1 /\ \A l \in 1..(Count - 1) : f[l] = G[<<l, f[l - 1]>>]
  BY DEF IsTable
<1>5. \A l \in 1..(Count - 1) : f[l] = f[l - 1] * MaxTick[l - 1]
  BY <1>3, <1>4, ConstantFacts
<1>6. E(f)
  BY <1>4, <1>5, ConstantFacts
<1>7. E(Wheel!LevelOffsetTick)
  BY Zenon, <1>6 DEF Wheel!LevelOffsetTick
<1>8. \A l \in 1..(Count - 1) :
        Wheel!LevelOffsetTick[l] = Wheel!LevelOffsetTick[l - 1] * MaxTick[l - 1]
  <2>1. \A l \in 1..(Count - 1) : l \in Wheel!Levels /\ l # 0
    BY ConstantFacts
  <2> QED
    BY Zenon, <1>7, <2>1
<1>9. Wheel!LevelOffsetTick[0] = 1
  BY Zenon, <1>7, ConstantFacts
<1> DEFINE S == {l \in 0..(Count - 1) : Wheel!LevelOffsetTick[l] = f[l]}
<1>10. 0 \in S
  BY <1>4, <1>9, ConstantFacts
<1>11. \A l \in 1..(Count - 1) : l - 1 \in S => l \in S
  BY <1>5, <1>8, ConstantFacts
<1>12. \A l \in 0..(Count - 1) : l \in S
  <2> HIDE DEF S
  <2> QED
    BY <1>10, <1>11, ConstantFacts, LevelInduction
<1>13. Wheel!LevelOffsetTick = f
  BY <1>4, <1>7, <1>12, ConstantFacts
<1> QED
  BY <1>4, <1>8, <1>9, <1>13, ConstantFacts

\* The same for Until: the recursive definition unfolds.
LEMMA UntilUnfolds ==
  ASSUME NEW off \in Offsets
  PROVE  /\ Until(off) \in [Wheel!Levels -> Nat] /\ Until(off)[0] = 1
         /\ \A l \in 1..(Count - 1) : Until(off)[l] =
              Until(off)[l - 1] + (MaxTick[l - 1] - 1 - off[l - 1]) * Wheel!LevelOffsetTick[l - 1]
<1> DEFINE N == Count - 1
           K(l) == (MaxTick[l - 1] - 1 - off[l - 1]) * Wheel!LevelOffsetTick[l - 1]
           G == [p \in (1..N) \X Nat |-> p[2] + K(p[1])]
           E(f) == f = [l \in Wheel!Levels |-> IF l = 0 THEN 1 ELSE f[l - 1] + K(l)]
<1>1. ASSUME NEW l \in 1..N
      PROVE  K(l) \in Nat
  <2>1. l - 1 \in Wheel!Levels
    BY ConstantFacts
  <2>2. off[l - 1] \in Nat /\ off[l - 1] < MaxTick[l - 1] /\ MaxTick[l - 1] \in Nat
    BY <2>1, ConstantFacts DEF Offsets
  <2>3. Wheel!LevelOffsetTick[l - 1] \in Nat
    BY <2>1, LevelOffset
  <2>4. MaxTick[l - 1] - 1 - off[l - 1] \in Nat
    BY <2>2
  <2> QED
    BY <2>3, <2>4
<1>2. /\ N \in Nat /\ \A l \in 1..N : l \in Wheel!Levels /\ l # 0 /\ l - 1 \in Wheel!Levels
      /\ 0 \in Wheel!Levels /\ Wheel!Levels = 0..N
  BY ConstantFacts
<1> HIDE DEF K, N
<1>3. ASSUME NEW p \in (1..N) \X Nat
      PROVE  p[2] + K(p[1]) \in Nat
  BY <1>1
<1>4. IsStep(G, N, Nat)
  BY <1>3 DEF IsStep
<1>5. \A l \in 1..N, x \in Nat : G[<<l, x>>] = x + K(l)
  OBVIOUS
<1> HIDE DEF G
<1>6. PICK f : IsTable(f, N, Nat, 1, G)
  <2>1. 1 \in Nat
    OBVIOUS
  <2> QED
    BY Zenon, <1>2, <1>4, <2>1, LevelRecursion
<1>7. f \in [Wheel!Levels -> Nat] /\ f[0] = 1 /\ \A l \in 1..N : f[l] = G[<<l, f[l - 1]>>]
  BY Zenon, <1>2, <1>6 DEF IsTable
<1>8. \A l \in 1..N : f[l] = f[l - 1] + K(l)
  BY <1>2, <1>5, <1>7
<1>9. E(f)
  BY <1>2, <1>7, <1>8
<1>10. E(Until(off))
  BY Zenon, <1>9 DEF Until, K
<1>11. \A l \in 1..N : Until(off)[l] = Until(off)[l - 1] + K(l)
  BY Zenon, <1>2, <1>10
<1>12. Until(off)[0] = 1
  BY Zenon, <1>2, <1>10
<1> DEFINE S == {l \in 0..N : Until(off)[l] = f[l]}
<1>13. 0 \in S
  BY <1>2, <1>7, <1>12
<1>14. \A l \in 1..N : l - 1 \in S => l \in S
  BY <1>2, <1>8, <1>11
<1>15. \A l \in 0..N : l \in S
  <2> HIDE DEF S
  <2> QED
    BY Zenon, <1>2, <1>13, <1>14, LevelInduction
<1>16. Until(off) = f
  BY <1>2, <1>7, <1>10, <1>15
<1>17. Until(off) \in [Wheel!Levels -> Nat]
  BY Zenon, <1>7, <1>16
<1> QED
  BY Zenon, <1>11, <1>12, <1>17 DEF K, N

\* The arithmetic of one level more.
LEMMA OneLevelMore ==
  ASSUME NEW d \in Nat, NEW o \in Nat, NEW m \in Nat, NEW x \in Nat, 1 <= d, d <= o, x < m
  PROVE  1 <= d + (m - 1 - x) * o /\ d + (m - 1 - x) * o <= o * m
<1>1. PICK k \in Nat : k = m - 1 - x
  OBVIOUS
<1>2. k <= m - 1 /\ k * o \in Nat
  BY <1>1
<1>3. PICK j \in Nat : m - 1 = k + j
  <2>1. x \in Nat /\ m - 1 = k + x
    BY <1>1
  <2> QED
    BY <2>1
<1>4. o * m = k * o + j * o + o /\ j * o \in Nat
  BY <1>3
<1> QED
  BY <1>1, <1>2, <1>4

\* A level turns within what one of its slots stands for.
LEMMA UntilBounds ==
  ASSUME NEW off \in Offsets
  PROVE  \A l \in Wheel!Levels : 1 <= Until(off)[l] /\ Until(off)[l] <= Wheel!LevelOffsetTick[l]
<1> DEFINE N == Count - 1
           D == Until(off)
           S == {l \in 0..N : 1 <= D[l] /\ D[l] <= Wheel!LevelOffsetTick[l]}
<1>1. 0 \in S
  BY UntilUnfolds, LevelOffset, ConstantFacts
<1>2. ASSUME NEW l \in 1..N, l - 1 \in S
      PROVE  l \in S
  <2>1. /\ l - 1 \in Wheel!Levels /\ l \in Wheel!Levels /\ D[l - 1] \in Nat
        /\ Wheel!LevelOffsetTick[l - 1] \in Nat
        /\ MaxTick[l - 1] \in Nat /\ off[l - 1] \in Nat /\ off[l - 1] < MaxTick[l - 1]
    BY UntilUnfolds, LevelOffset, ConstantFacts DEF Offsets
  <2>2. 1 <= D[l - 1] /\ D[l - 1] <= Wheel!LevelOffsetTick[l - 1]
    BY <1>2
  <2>3. D[l] = D[l - 1] + (MaxTick[l - 1] - 1 - off[l - 1]) * Wheel!LevelOffsetTick[l - 1]
    BY UntilUnfolds
  <2>4. Wheel!LevelOffsetTick[l] = Wheel!LevelOffsetTick[l - 1] * MaxTick[l - 1]
    BY LevelOffset
  <2> HIDE DEF D
  <2>5. 1 <= D[l] /\ D[l] <= Wheel!LevelOffsetTick[l]
    BY <2>1, <2>2, <2>3, <2>4, OneLevelMore
  <2> QED
    BY <2>1, <2>5
<1>3. N \in Nat /\ Wheel!Levels = 0..N
  BY ConstantFacts
<1> HIDE DEF S, N, D
<1>4. \A l \in 0..N : l \in S
  BY Zenon, <1>1, <1>2, <1>3, LevelInduction
<1> QED
  BY <1>3, <1>4 DEF S, D

\* Until of a level depends on the levels below it.
LEMMA UntilLocal ==
  ASSUME NEW off \in Offsets, NEW next \in Offsets, NEW n \in Wheel!Levels,
         \A j \in Wheel!Levels : j < n => next[j] = off[j]
  PROVE  \A l \in 0..n : Until(next)[l] = Until(off)[l]
<1> DEFINE S == {l \in 0..n : Until(next)[l] = Until(off)[l]}
<1>1. n \in Nat /\ \A l \in 1..n : l \in 1..(Count - 1) /\ l - 1 \in Wheel!Levels /\ l - 1 < n
  BY ConstantFacts
<1>2. 0 \in S
  BY <1>1, UntilUnfolds
<1>3. ASSUME NEW l \in 1..n, l - 1 \in S
      PROVE  l \in S
  <2>1. Until(next)[l - 1] = Until(off)[l - 1] /\ next[l - 1] = off[l - 1]
    BY <1>1, <1>3
  <2>2. Until(next)[l] = Until(off)[l]
    BY Zenon, <1>1, <2>1, UntilUnfolds
  <2> QED
    BY <2>2
<1> HIDE DEF S
<1>4. \A l \in 0..n : l \in S
  BY Zenon, <1>1, <1>2, <1>3, LevelInduction
<1> QED
  BY <1>4 DEF S

\* A tick in which only level 0 moves on brings every turn one tick nearer.
LEMMA UntilTick ==
  ASSUME NEW off \in Offsets, NEW next \in Offsets, next[0] = off[0] + 1,
         \A j \in Wheel!Levels : j # 0 => next[j] = off[j]
  PROVE  \A l \in 1..(Count - 1) : Until(next)[l] = Until(off)[l] - 1
<1> DEFINE N == Count - 1
           S == {l \in 0..N : l = 0 \/ Until(next)[l] = Until(off)[l] - 1}
<1>1. N \in Nat /\ 0 \in S
  BY ConstantFacts
<1>2. ASSUME NEW l \in 1..N, l - 1 \in S
      PROVE  l \in S
  <2>1. /\ l - 1 \in Wheel!Levels /\ Until(off)[l - 1] \in Nat
        /\ Wheel!LevelOffsetTick[l - 1] \in Nat
        /\ MaxTick[l - 1] \in Nat /\ off[l - 1] \in Nat /\ next[l - 1] \in Nat
        /\ Until(next)[l - 1] \in Nat
    BY UntilUnfolds, LevelOffset, ConstantFacts DEF Offsets
  <2>2. /\ Until(off)[l] =
             Until(off)[l - 1] + (MaxTick[l - 1] - 1 - off[l - 1]) * Wheel!LevelOffsetTick[l - 1]
        /\ Until(next)[l] =
             Until(next)[l - 1] + (MaxTick[l - 1] - 1 - next[l - 1]) * Wheel!LevelOffsetTick[l - 1]
    BY UntilUnfolds
  <2>3. CASE l = 1
    <3>1. /\ Until(off)[l - 1] = 1 /\ Until(next)[l - 1] = 1 /\ Wheel!LevelOffsetTick[l - 1] = 1
          /\ next[l - 1] = off[l - 1] + 1
      BY <2>3, UntilUnfolds, LevelOffset
    <3>2. Until(next)[l] = Until(off)[l] - 1
      BY <2>1, <2>2, <3>1
    <3> QED
      BY <3>2
  <2>4. CASE l # 1
    <3>1. Until(next)[l - 1] = Until(off)[l - 1] - 1 /\ next[l - 1] = off[l - 1]
      BY <1>2, <2>1, <2>4
    <3>2. Until(next)[l] = Until(off)[l] - 1
      BY <2>1, <2>2, <3>1
    <3> QED
      BY <3>2
  <2> QED
    BY <2>3, <2>4
<1> HIDE DEF S, N
<1>3. \A l \in 0..N : l \in S
  BY Zenon, <1>1, <1>2, LevelInduction
<1> QED
  BY <1>3 DEF S, N

-----------------------------------------------------------------------------
\* Whole and rest of a division.
LEMMA DivFacts ==
  ASSUME NEW a \in Nat, NEW b \in Nat, b > 0
  PROVE  a \div b \in Nat /\ (a \div b) * b <= a /\ a < (a \div b) * b + b
  OBVIOUS

\* A remainder, also of what is at most one turn out of range.
LEMMA ModFacts ==
  ASSUME NEW m \in Nat, m > 0, NEW x \in Int
  PROVE  /\ x % m \in 0..(m - 1)
         /\ x \in 0..(m - 1) => x % m = x
         /\ m <= x /\ x < 2 * m => x % m = x - m
         /\ -m <= x /\ x < 0 => x % m = x + m
<1>1. x % m \in 0..(m - 1)
  OBVIOUS
<1>2. x \in 0..(m - 1) => x % m = x
  OBVIOUS
<1>3. m <= x /\ x < 2 * m => x % m = x - m
  OBVIOUS
<1>4. -m <= x /\ x < 0 => x % m = x + m
  OBVIOUS
<1> QED
  BY <1>1, <1>2, <1>3, <1>4

\* A slot that is k turns ahead comes after k turns.
LEMMA SlotAhead ==
  ASSUME NEW m \in Nat, NEW k \in Nat, NEW o \in Nat, k < m, o < m
  PROVE  (k + o) % m \in 0..(m - 1) /\ (((k + o) % m) - o) % m = k
<1>1. CASE k + o < m
  BY <1>1, ModFacts
<1>2. CASE k + o >= m
  <2>1. (k + o) % m = k + o - m
    BY <1>2, ModFacts
  <2>2. (k - m) % m = k
    BY ModFacts
  <2>3. k + o - m - o = k - m
    OBVIOUS
  <2> QED
    BY <1>2, <2>1, <2>2, <2>3
<1> QED
  BY <1>1, <1>2

\* What add_timer promises: the slot comes before the trigger tick with all of its turns to go,
\* or, on level 0, in the trigger tick.
Added(off, cur, l, s, trig) ==
  IF l = 0 THEN Placed(off, cur, 0, s, trig)
  ELSE cur + (Turns(off, l, s) + 1) * Wheel!LevelOffsetTick[l] <= trig

\* A level that a distance does not fit: the next one has a slot for it.
LEMMA NotFits ==
  ASSUME NEW l \in 0..(Count - 2), NEW dist \in Nat, ~(Wheel!LevelSlot(l, dist) < MaxTick[l])
  PROVE  Wheel!LevelOffsetTick[l + 1] < dist
<1>1. /\ l \in Wheel!Levels /\ l + 1 \in 1..(Count - 1) /\ MaxTick[l] \in Nat
      /\ Wheel!LevelOffsetTick[l] \in Nat /\ Wheel!LevelOffsetTick[l] > 0
  BY ConstantFacts, LevelOffset
<1>2. Wheel!LevelOffsetTick[l + 1] = Wheel!LevelOffsetTick[l] * MaxTick[l]
  BY <1>1, LevelOffset
<1> DEFINE o == Wheel!LevelOffsetTick[l]
           q == dist \div o
<1>3. q \in Nat /\ q * o <= dist
  BY <1>1, DivFacts
<1>4. MaxTick[l] + 1 <= q
  BY <1>1, <1>3 DEF Wheel!LevelSlot
<1> HIDE DEF o, q
<1>5. o \in Nat /\ o > 0 /\ Wheel!LevelOffsetTick[l + 1] = o * MaxTick[l]
  BY <1>1, <1>2 DEF o
<1>6. PICK j \in Nat : q = MaxTick[l] + 1 + j
  <2>1. q - MaxTick[l] - 1 \in Nat
    BY <1>1, <1>3, <1>4
  <2> QED
    BY <1>1, <1>3, <2>1
<1>7. q * o = o * MaxTick[l] + o + j * o /\ j * o \in Nat
  BY <1>1, <1>5, <1>6
<1>8. o * MaxTick[l] \in Nat
  BY <1>1, <1>5
<1> QED
  BY <1>3, <1>5, <1>7, <1>8

\* add_timer finds a slot that comes in time for a timer that is not past.
LEMMA AddTimerPlaces ==
  ASSUME NEW off \in Offsets, NEW cur \in Nat, NEW trig \in Nat, cur <= trig
  PROVE  \E l \in Wheel!Levels : \E s \in 0..(MaxTick[l] - 1) :
           Wheel!AddPlace(off, cur, trig) = <<l, s>> /\ Added(off, cur, l, s, trig)
<1> DEFINE dist == IF trig - cur <= 0 THEN 1 ELSE trig - cur
           fits == {l \in 0..(Count - 2) : Wheel!LevelSlot(l, dist) < MaxTick[l]}
           level == CHOOSE l \in fits : \A m \in fits : l <= m
<1>1. Wheel!AddPlace(off, cur, trig) =
        IF fits = {} THEN <<Count - 1, 0>>
        ELSE <<level, (Wheel!LevelSlot(level, dist) + off[level]) % MaxTick[level]>>
  BY Zenon DEF Wheel!AddPlace
<1>2. /\ dist \in Nat /\ dist >= 1 /\ cur <= trig
      /\ (dist > 1 => cur + dist = trig) /\ (dist = 1 => trig = cur \/ trig = cur + 1)
  OBVIOUS
<1> HIDE DEF dist
<1>3. CASE fits = {}
  <2>1. Count - 2 \in 0..(Count - 2) /\ Count - 2 + 1 = Count - 1
    BY ConstantFacts
  <2>2. Wheel!LevelOffsetTick[Count - 1] < dist
    BY <1>2, <1>3, <2>1, NotFits
  <2>3. Wheel!LevelOffsetTick[Count - 1] \in Nat /\ Wheel!LevelOffsetTick[Count - 1] >= 1
    BY ConstantFacts, LevelOffset
  <2>4. off[Count - 1] = 0 /\ MaxTick[Count - 1] = 1
    BY ConstantFacts DEF Offsets
  <2>5. Turns(off, Count - 1, 0) = 0
    BY <2>4 DEF Turns
  <2>6. Added(off, cur, Count - 1, 0, trig)
    BY <1>2, <2>2, <2>3, <2>5, ConstantFacts DEF Added
  <2>7. 0 \in 0..(MaxTick[Count - 1] - 1) /\ Count - 1 \in Wheel!Levels
    BY <2>4, ConstantFacts
  <2> QED
    BY Zenon, <1>1, <1>3, <2>6, <2>7
<1>4. CASE fits # {}
  <2>1. level \in fits /\ \A m \in fits : level <= m
    <3>1. fits \subseteq Nat
      BY ConstantFacts
    <3>2. \E l \in fits : \A m \in fits : l <= m
      BY Zenon, <1>4, <3>1, LeastNat
    <3> HIDE DEF fits
    <3> QED
      BY Zenon, <3>2
  <2> DEFINE k == Wheel!LevelSlot(level, dist)
             o == Wheel!LevelOffsetTick[level]
             s == (k + off[level]) % MaxTick[level]
  <2>2. Wheel!AddPlace(off, cur, trig) = <<level, s>>
    BY Zenon, <1>1, <1>4
  <2> HIDE DEF level
  <2>3. level \in 0..(Count - 2) /\ k < MaxTick[level]
    BY <2>1
  <2>4. level > 0 => level - 1 \in 0..(Count - 2) /\ level - 1 \notin fits
    BY <2>1, <2>3, ConstantFacts
  <2>5. level > 0 => o < dist
    <3>1. level > 0 => level - 1 + 1 = level /\ ~(Wheel!LevelSlot(level - 1,
       dist) < MaxTick[level - 1])
      BY <2>3, <2>4, ConstantFacts
    <3> HIDE DEF fits
    <3> QED
      BY <1>2, <2>4, <3>1, NotFits
  <2> HIDE DEF fits
  <2>6. /\ level \in Wheel!Levels /\ MaxTick[level] \in Nat /\ o \in Nat /\ o > 0
        /\ off[level] \in Nat /\ off[level] < MaxTick[level]
    <3>1. level \in Wheel!Levels
      BY <2>3, ConstantFacts
    <3>2. o \in Nat /\ o > 0
      BY <3>1, LevelOffset
    <3> QED
      BY <3>1, <3>2, ConstantFacts DEF Offsets
  <2>7. level = 0 => o = 1
    BY LevelOffset
  <2>8. /\ k \in Int /\ (k + 1) = dist \div o /\ (k + 1) \in Nat
        /\ (k + 1) * o <= dist /\ dist < (k + 1) * o + o
    BY <1>2, <2>6, DivFacts DEF Wheel!LevelSlot
  <2> HIDE DEF o
  <2>9. k \in Nat
    <3>1. o <= dist
      BY <1>2, <2>3, <2>5, <2>6, <2>7, ConstantFacts
    <3> HIDE DEF k
    <3>2. k + 1 # 0
      BY <1>2, <2>6, <2>8, <3>1
    <3> QED
      BY <2>8, <3>2
  <2> HIDE DEF k
  <2>10. s \in 0..(MaxTick[level] - 1) /\ Turns(off, level, s) = k
    BY <2>3, <2>6, <2>9, SlotAhead DEF Turns
  <2> HIDE DEF s
  <2>11. CASE level = 0
    <3>1. k + 1 = dist
      BY <1>2, <2>7, <2>8, <2>9, <2>11
    <3>2. Placed(off, cur, 0, s, trig)
      BY <1>2, <2>9, <2>10, <2>11, <3>1 DEF Placed
    <3>3. Added(off, cur, level, s, trig)
      BY Zenon, <2>11, <3>2 DEF Added
    <3> QED
      BY Zenon, <2>2, <2>6, <2>10, <3>3
  <2>12. CASE level # 0
    <3>1. dist > 1
      BY <1>2, <2>3, <2>5, <2>6, <2>12, ConstantFacts
    <3>2. cur + (k + 1) * o <= trig
      BY <1>2, <2>6, <2>8, <2>9, <3>1
    <3>3. Added(off, cur, level, s, trig)
      BY <2>10, <2>12, <3>2 DEF Added, o
    <3> QED
      BY Zenon, <2>2, <2>6, <2>10, <3>3
  <2> QED
    BY <2>11, <2>12
<1> QED
  BY <1>3, <1>4

-----------------------------------------------------------------------------
Wheels == [offset : Offsets, place : [Timers -> Places]]

\* Places outside the wheel are no slots, and a slot says its level.
LEMMA PlaceFacts ==
  /\ Wheel!Idle \notin Slots /\ Wheel!Due \notin Slots /\ Wheel!Running \notin Slots
  /\ Wheel!Idle # Wheel!Due /\ Wheel!Idle # Wheel!Running /\ Wheel!Due # Wheel!Running
  /\ \A p \in Slots : \E l \in Wheel!Levels : \E s \in 0..(MaxTick[l] - 1) : p = <<l, s>>
  /\ \A l \in Wheel!Levels : \A s \in 0..(MaxTick[l] - 1) : <<l, s>> \in Slots
<1>1. Wheel!Idle # Wheel!Due /\ Wheel!Idle # Wheel!Running /\ Wheel!Due # Wheel!Running
  BY DEF Wheel!Idle, Wheel!Due, Wheel!Running
<1>2. \A p \in Slots : \E l \in Wheel!Levels : \E s \in 0..(MaxTick[l] - 1) : p = <<l, s>>
  BY Zenon DEF Slots
<1>3. \A l \in Wheel!Levels : \A s \in 0..(MaxTick[l] - 1) : <<l, s>> \in Slots
  BY DEF Slots
<1>4. ASSUME NEW l, NEW s
      PROVE  <<l, s>> # Wheel!Idle /\ <<l, s>> # Wheel!Due /\ <<l, s>> # Wheel!Running
  BY DEF Wheel!Idle, Wheel!Due, Wheel!Running
<1> QED
  BY Zenon, <1>1, <1>2, <1>3, <1>4

\* An offset that moves on stays in range.
LEMMA NextOffsetType ==
  ASSUME NEW w \in Wheels, NEW l \in Wheel!Levels
  PROVE  /\ Wheel!NextOffset(w, l) \in Offsets
         /\ Wheel!NextOffset(w, l)[l] = (w.offset[l] + 1) % MaxTick[l]
         /\ \A j \in Wheel!Levels : j # l => Wheel!NextOffset(w, l)[j] = w.offset[j]
<1>1. w.offset \in [Wheel!Levels -> Nat] /\ \A j \in Wheel!Levels : w.offset[j] < MaxTick[j]
  BY DEF Wheels, Offsets
<1>2. MaxTick[l] \in Nat /\ MaxTick[l] > 0
  BY ConstantFacts
<1>3. (w.offset[l] + 1) % MaxTick[l] \in 0..(MaxTick[l] - 1)
  BY <1>1, <1>2, ModFacts
<1>4. /\ Wheel!NextOffset(w, l)[l] = (w.offset[l] + 1) % MaxTick[l]
      /\ \A j \in Wheel!Levels : j # l => Wheel!NextOffset(w, l)[j] = w.offset[j]
      /\ Wheel!NextOffset(w, l) \in [Wheel!Levels -> Nat]
  BY <1>1, <1>3 DEF Wheel!NextOffset
<1>5. \A j \in Wheel!Levels : Wheel!NextOffset(w, l)[j] < MaxTick[j]
  BY <1>1, <1>2, <1>3, <1>4
<1> QED
  BY <1>4, <1>5 DEF Offsets

\* add_timer names a slot of the wheel also for a timer that is past.
LEMMA AddPlaceType ==
  ASSUME NEW off \in Offsets, NEW cur \in Nat, NEW trig \in Nat
  PROVE  Wheel!AddPlace(off, cur, trig) \in Slots
<1>1. ASSUME NEW x \in Nat, cur <= x
      PROVE  Wheel!AddPlace(off, cur, x) \in Slots
  <2>1. PICK l \in Wheel!Levels : \E s \in 0..(MaxTick[l] - 1) :
          Wheel!AddPlace(off, cur, x) = <<l, s>> /\ Added(off, cur, l, s, x)
    BY <1>1, AddTimerPlaces
  <2>2. PICK s \in 0..(MaxTick[l] - 1) : Wheel!AddPlace(off, cur, x) = <<l, s>>
    BY Zenon, <2>1
  <2> QED
    BY Zenon, <2>2, PlaceFacts
<1>2. CASE trig < cur
  <2>1. Wheel!AddPlace(off, cur, trig) = Wheel!AddPlace(off, cur, cur)
    <3>1. trig - cur <= 0 /\ cur - cur <= 0
      BY <1>2
    <3> QED
      BY <3>1 DEF Wheel!AddPlace
  <2> QED
    BY <1>1, <2>1
<1> QED
  BY <1>1, <1>2

\* A turn leaves a wheel.
LEMMA TurnType ==
  ASSUME NEW w \in Wheels, NEW l \in 1..(Count - 1), NEW cur \in Nat,
         trigger \in [Timers -> Nat]
  PROVE  Wheel!Rotate(w, l, cur) \in Wheels /\ Wheel!Turn(w, l, cur) \in Wheels
<1> DEFINE off == Wheel!NextOffset(w, l)
<1>1. l \in Wheel!Levels
  BY ConstantFacts
<1>2. off \in Offsets
  BY <1>1, NextOffsetType
<1> HIDE DEF off
<1>3. w.place \in [Timers -> Places]
  BY DEF Wheels
<1>4. \A t \in Timers : Wheel!AddPlace(off, cur, trigger[t]) \in Places
  BY <1>2, AddPlaceType DEF Places
<1> DEFINE pl == [t \in Timers |-> IF w.place[t] = <<l, w.offset[l]>>
                                  THEN Wheel!AddPlace(off, cur, trigger[t]) ELSE w.place[t]]
<1>5. pl \in [Timers -> Places]
  BY <1>3, <1>4
<1>6. Wheel!Rotate(w, l, cur) = [offset |-> off, place |-> pl]
  BY Zenon DEF Wheel!Rotate, off
<1> HIDE DEF pl
<1>7. Wheel!Rotate(w, l, cur) \in Wheels
  BY <1>2, <1>5, <1>6 DEF Wheels
<1> QED
  BY <1>7 DEF Wheel!Turn

\* A slot that is not the current one is one turn nearer after a turn.
LEMMA TurnNearer ==
  ASSUME NEW m \in Nat, NEW o \in Nat, NEW s \in Nat, o < m, s < m, s # o,
         NEW n, n = (o + 1) % m
  PROVE  /\ (s - o) % m \in Nat /\ (s - o) % m >= 1
         /\ (s - n) % m = ((s - o) % m) - 1
<1>1. CASE o + 1 = m
  <2>1. n = 0 /\ s < o
    BY <1>1, ModFacts
  <2>2. (s - o) % m = s - o + m /\ (s - 0) % m = s
    BY <2>1, ModFacts
  <2> QED
    BY <1>1, <2>1, <2>2
<1>2. CASE o + 1 < m /\ s > o
  <2>1. n = o + 1
    BY <1>2, ModFacts
  <2>2. (s - o) % m = s - o /\ (s - (o + 1)) % m = s - (o + 1)
    BY <1>2, ModFacts
  <2> QED
    BY <1>2, <2>1, <2>2
<1>3. CASE o + 1 < m /\ s < o
  <2>1. n = o + 1
    BY <1>3, ModFacts
  <2>2. (s - o) % m = s - o + m /\ (s - (o + 1)) % m = s - (o + 1) + m
    BY <1>3, ModFacts
  <2> QED
    BY <1>3, <2>1, <2>2
<1> QED
  BY <1>1, <1>2, <1>3

-----------------------------------------------------------------------------
\* What add_timer promises is enough: as long as the offset of the level stands.
LEMMA AddedIsPlaced ==
  ASSUME NEW off \in Offsets, NEW next \in Offsets, NEW cur \in Nat, NEW c \in Nat, c <= cur,
         NEW l \in Wheel!Levels, NEW s \in 0..(MaxTick[l] - 1), NEW trig \in Nat,
         l # 0, next[l] = off[l], Added(off, cur, l, s, trig)
  PROVE  Placed(next, c, l, s, trig)
<1> DEFINE k == Turns(off, l, s)
           o == Wheel!LevelOffsetTick[l]
           u == Until(next)[l]
<1>1. k \in Nat
  <2>1. off[l] \in Nat /\ MaxTick[l] \in Nat /\ MaxTick[l] > 0
    BY ConstantFacts DEF Offsets
  <2>2. (s - off[l]) % MaxTick[l] \in 0..(MaxTick[l] - 1)
    BY <2>1, ModFacts
  <2> QED
    BY <2>1, <2>2 DEF Turns
<1>2. o \in Nat /\ u \in Nat /\ u <= o
  BY LevelOffset, UntilUnfolds, UntilBounds
<1>3. Turns(next, l, s) = k
  BY Zenon DEF Turns
<1>4. cur + (k + 1) * o <= trig
  BY DEF Added
<1> HIDE DEF k, o, u
<1>5. c + u + k * o <= trig
  <2>1. k * o \in Nat /\ (k + 1) * o = k * o + o
    BY <1>1, <1>2
  <2> QED
    BY <1>2, <1>4, <2>1
<1>6. c + u + Turns(next, l, s) * o <= trig
  BY Zenon, <1>3, <1>5
<1> QED
  BY Zenon, <1>6 DEF Placed, u, o

\* A slot that stays, on a level that stands, at most as far from its next turn.
LEMMA PlacedStays ==
  ASSUME NEW off \in Offsets, NEW next \in Offsets, NEW cur \in Nat, NEW c \in Nat,
         NEW l \in Wheel!Levels, NEW s \in 0..(MaxTick[l] - 1), NEW trig \in Nat,
         l # 0, next[l] = off[l], c + Until(next)[l] <= cur + Until(off)[l],
         Placed(off, cur, l, s, trig)
  PROVE  Placed(next, c, l, s, trig)
<1> DEFINE k == Turns(off, l, s)
           o == Wheel!LevelOffsetTick[l]
<1>1. k \in Nat
  <2>1. off[l] \in Nat /\ MaxTick[l] \in Nat /\ MaxTick[l] > 0
    BY ConstantFacts DEF Offsets
  <2>2. (s - off[l]) % MaxTick[l] \in 0..(MaxTick[l] - 1)
    BY <2>1, ModFacts
  <2> QED
    BY <2>1, <2>2 DEF Turns
<1>2. o \in Nat /\ Until(next)[l] \in Nat /\ Until(off)[l] \in Nat
  BY LevelOffset, UntilUnfolds
<1>3. Turns(next, l, s) = k
  BY Zenon DEF Turns
<1>4. cur + Until(off)[l] + k * o <= trig
  BY DEF Placed
<1> HIDE DEF k, o
<1>5. c + Until(next)[l] + k * o <= trig
  <2>1. k * o \in Nat
    BY <1>1, <1>2
  <2> QED
    BY <1>2, <1>4, <2>1
<1>6. c + Until(next)[l] + Turns(next, l, s) * o <= trig
  BY Zenon, <1>3, <1>5
<1> QED
  BY Zenon, <1>6 DEF Placed, o

\* A level that turns brings the slots it does not hand down one turn nearer.
LEMMA PlacedTurns ==
  ASSUME NEW off \in Offsets, NEW next \in Offsets, NEW cur \in Nat,
         NEW l \in Wheel!Levels, NEW s \in 0..(MaxTick[l] - 1), NEW trig \in Nat,
         s # off[l], next[l] = (off[l] + 1) % MaxTick[l], Placed(off, cur, l, s, trig)
  PROVE  Placed(next, cur + 1, l, s, trig)
<1> DEFINE k == Turns(off, l, s)
           j == Turns(next, l, s)
           o == Wheel!LevelOffsetTick[l]
<1>1. off[l] \in Nat /\ MaxTick[l] \in Nat /\ off[l] < MaxTick[l] /\ s \in Nat /\ s < MaxTick[l]
  BY ConstantFacts DEF Offsets
<1>2. k \in Nat /\ k >= 1 /\ j = k - 1
  <2>1. /\ (s - off[l]) % MaxTick[l] \in Nat /\ (s - off[l]) % MaxTick[l] >= 1
        /\ (s - next[l]) % MaxTick[l] = ((s - off[l]) % MaxTick[l]) - 1
    BY <1>1, TurnNearer
  <2>2. k = (s - off[l]) % MaxTick[l] /\ j = (s - next[l]) % MaxTick[l]
    BY Zenon DEF Turns
  <2> HIDE DEF k, j
  <2> QED
    BY <2>1, <2>2
<1>3. o \in Nat /\ Until(next)[l] \in Nat /\ Until(next)[l] <= o /\ Until(off)[l] \in Nat
      /\ 1 <= Until(off)[l]
  BY LevelOffset, UntilUnfolds, UntilBounds
<1>4. CASE l = 0
  <2>1. cur + 1 + k = trig
    BY <1>2, <1>4 DEF Placed
  <2>2. cur + 1 + 1 + j = trig
    BY <1>2, <2>1
  <2> QED
    BY <1>4, <2>2 DEF Placed
<1>5. CASE l # 0
  <2>1. cur + Until(off)[l] + k * o <= trig
    BY <1>5 DEF Placed
  <2> HIDE DEF k, j, o
  <2>2. k * o = j * o + o /\ j * o \in Nat
    BY <1>2, <1>3
  <2>3. cur + 1 + Until(next)[l] + j * o <= trig
    BY <1>2, <1>3, <2>1, <2>2
  <2> QED
    BY Zenon, <1>5, <2>3 DEF Placed, j, o
<1> QED
  BY <1>4, <1>5

-----------------------------------------------------------------------------
\* What a tick has done to level l when the levels up to l are done: the level has turned, or it
\* stands and its next turn is nearer.
Moved(off, l) ==
  \/ off[l] = (offset[l] + 1) % MaxTick[l]
  \/ off[l] = offset[l] /\ Until(off)[l] + 1 <= Until(offset)[l]

\* The wheel w of a tick when the levels up to l are done: their timers are placed for the new
\* tick, those above for the old one, and only the current slot of level 0 is due.
Stage(w, l) ==
  /\ w \in Wheels
  /\ \A j \in Wheel!Levels : j > l => w.offset[j] = offset[j]
  /\ Moved(w.offset, l)
  /\ \A t \in Timers : \A m \in Wheel!Levels : \A s \in 0..(MaxTick[m] - 1) :
       w.place[t] = <<m, s>> =>
         /\ m <= l => Placed(w.offset, curTick + 1, m, s, trigger[t])
         /\ m > l => Placed(offset, curTick, m, s, trigger[t])
  /\ \A t \in Timers :
       /\ w.place[t] \in Slots => place[t] \in Slots
       /\ w.place[t] = Wheel!Due => place[t] = <<0, offset[0]>>
       /\ w.place[t] \notin Slots \cup {Wheel!Due} => w.place[t] = place[t]

\* A level that stands at a slot other than the first has not been the last to turn: the level
\* above it is nearer to its turn.
LEMMA UntilNoTurn ==
  ASSUME offset \in Offsets, NEW off \in Offsets, NEW l \in 1..(Count - 1),
         Moved(off, l - 1), off[l - 1] # 0
  PROVE  Until(off)[l] + 1 <= Until(offset)[l]
<1> DEFINE o == Wheel!LevelOffsetTick[l - 1]
           m == MaxTick[l - 1]
           x == offset[l - 1]
           y == off[l - 1]
<1>1. /\ l - 1 \in Wheel!Levels /\ l \in Wheel!Levels /\ o \in Nat /\ m \in Nat /\ m > 0
      /\ x \in Nat /\ x < m /\ y \in Nat /\ y < m
  BY SMTT(30), ConstantFacts, LevelOffset DEF Offsets
<1>2. /\ Until(off)[l - 1] \in Nat /\ Until(off)[l - 1] <= o
      /\ Until(offset)[l - 1] \in Nat /\ 1 <= Until(offset)[l - 1]
  BY <1>1, UntilUnfolds, UntilBounds
<1>3. /\ Until(off)[l] = Until(off)[l - 1] + (m - 1 - y) * o
      /\ Until(offset)[l] = Until(offset)[l - 1] + (m - 1 - x) * o
  BY UntilUnfolds
<1>4. \/ y = (x + 1) % m
      \/ y = x /\ Until(off)[l - 1] + 1 <= Until(offset)[l - 1]
  BY Zenon DEF Moved
<1>5. y # 0
  OBVIOUS
<1> HIDE DEF o, m, x, y
<1>6. CASE y = (x + 1) % m
  <2>1. y = x + 1
    BY <1>1, <1>5, <1>6, ModFacts
  <2>2. PICK k \in Nat : m - 1 - y = k /\ m - 1 - x = k + 1
    BY <1>1, <2>1
  <2>3. (k + 1) * o = k * o + o /\ k * o \in Nat
    BY <1>1
  <2> QED
    BY <1>1, <1>2, <1>3, <2>2, <2>3
<1>7. CASE y = x /\ Until(off)[l - 1] + 1 <= Until(offset)[l - 1]
  <2>1. (m - 1 - x) * o \in Nat
    BY <1>1
  <2> QED
    BY <1>2, <1>3, <1>7, <2>1
<1> QED
  BY <1>4, <1>6, <1>7

\* The levels below the one that turns keep their timers placed.
LEMMA PlacedBelow ==
  ASSUME NEW off \in Offsets, NEW next \in Offsets, NEW n \in Wheel!Levels,
         \A j \in Wheel!Levels : j < n => next[j] = off[j],
         NEW cur \in Nat, NEW m \in Wheel!Levels, m < n, NEW s, NEW trig,
         Placed(off, cur, m, s, trig)
  PROVE  Placed(next, cur, m, s, trig)
<1>1. m \in 0..n /\ next[m] = off[m]
  BY ConstantFacts
<1>2. Until(next)[m] = Until(off)[m]
  BY Zenon, <1>1, UntilLocal
<1>3. Turns(next, m, s) = Turns(off, m, s)
  BY Zenon, <1>1 DEF Turns
<1> QED
  BY Zenon, <1>2, <1>3 DEF Placed

\* One level of try_uniform that does not turn.
LEMMA StageStands ==
  ASSUME WheelType, NEW w, NEW l \in 1..(Count - 1), Stage(w, l - 1), w.offset[l - 1] # 0
  PROVE  Stage(w, l)
<1>1. /\ w \in Wheels /\ w.offset \in Offsets /\ offset \in Offsets /\ curTick \in Nat
      /\ l \in Wheel!Levels /\ l - 1 \in Wheel!Levels /\ l \in Nat
  BY ConstantFacts DEF Stage, Wheels, WheelType
<1>2. w.offset[l] = offset[l] /\ \A j \in Wheel!Levels : j > l => w.offset[j] = offset[j]
  <2>1. \A j \in Wheel!Levels : j > l - 1 => w.offset[j] = offset[j]
    BY Zenon DEF Stage
  <2>2. l > l - 1 /\ \A j \in Wheel!Levels : j > l => j > l - 1
    BY <1>1, LevelNat
  <2> QED
    BY Zenon, <1>1, <2>1, <2>2
<1>3. Until(w.offset)[l] + 1 <= Until(offset)[l]
  BY <1>1, UntilNoTurn DEF Stage
<1>4. Moved(w.offset, l)
  BY Zenon, <1>2, <1>3 DEF Moved
<1>5. ASSUME NEW t \in Timers, NEW m \in Wheel!Levels, NEW s \in 0..(MaxTick[m] - 1),
             w.place[t] = <<m, s>>
      PROVE  /\ m <= l => Placed(w.offset, curTick + 1, m, s, trigger[t])
             /\ m > l => Placed(offset, curTick, m, s, trigger[t])
  <2>1. /\ m <= l - 1 => Placed(w.offset, curTick + 1, m, s, trigger[t])
        /\ m > l - 1 => Placed(offset, curTick, m, s, trigger[t])
    BY Zenon, <1>5 DEF Stage
  <2>2. ASSUME m = l
        PROVE  Placed(w.offset, curTick + 1, l, s, trigger[t])
    <3>1. Placed(offset, curTick, l, s, trigger[t])
      <4>1. l > l - 1
        BY <1>1
      <4> QED
        BY Zenon, <2>1, <2>2, <4>1
    <3>2. Until(w.offset)[l] \in Nat /\ Until(offset)[l] \in Nat
      BY <1>1, UntilUnfolds
    <3>3. curTick + 1 + Until(w.offset)[l] <= curTick + Until(offset)[l]
      BY <1>1, <1>3, <3>2
    <3>4. trigger[t] \in Nat /\ curTick + 1 \in Nat /\ l # 0 /\ s \in 0..(MaxTick[l] - 1)
      <4>1. trigger[t] \in Nat /\ s \in 0..(MaxTick[l] - 1)
        BY Zenon, <2>2 DEF WheelType
      <4>2. curTick + 1 \in Nat /\ l # 0
        BY <1>1
      <4> QED
        BY Zenon, <4>1, <4>2
    <3> QED
      BY Zenon, <1>1, <1>2, <3>1, <3>3, <3>4, PlacedStays
  <2>3. m \in Nat /\ (m <= l => m <= l - 1 \/ m = l) /\ (m > l => m > l - 1)
    <3>1. m \in Nat
      BY Zenon, LevelNat
    <3> QED
      BY <1>1, <3>1
  <2> QED
    BY Zenon, <2>1, <2>2, <2>3
<1> QED
  BY Zenon, <1>1, <1>2, <1>4, <1>5 DEF Stage

\* One level of try_uniform that turns: its current slot is added again.
LEMMA StageTurns ==
  ASSUME WheelType, PlaceInv, NEW w, NEW l \in 1..(Count - 1), Stage(w, l - 1)
  PROVE  Stage(Wheel!Rotate(w, l, curTick + 1), l)
<1> DEFINE off == Wheel!NextOffset(w, l)
           cur == curTick + 1
           v == Wheel!Rotate(w, l, cur)
<1>1. /\ w \in Wheels /\ w.offset \in Offsets /\ offset \in Offsets /\ curTick \in Nat
      /\ l \in Wheel!Levels /\ l - 1 \in Wheel!Levels /\ l \in Nat /\ l # 0 /\ cur \in Nat
      /\ trigger \in [Timers -> Nat]
  BY ConstantFacts DEF Stage, Wheels, WheelType
<1>2. /\ off \in Offsets /\ off[l] = (w.offset[l] + 1) % MaxTick[l]
      /\ \A j \in Wheel!Levels : j # l => off[j] = w.offset[j]
  BY Zenon, <1>1, NextOffsetType
<1>3. w.offset[l] = offset[l] /\ \A j \in Wheel!Levels : j > l => off[j] = offset[j]
  <2>1. \A j \in Wheel!Levels : j > l - 1 => w.offset[j] = offset[j]
    BY Zenon DEF Stage
  <2>2. l > l - 1 /\ \A j \in Wheel!Levels : j > l => j > l - 1 /\ j # l
    BY <1>1, LevelNat
  <2> QED
    BY Zenon, <1>1, <1>2, <2>1, <2>2
<1>4. v \in Wheels
  BY Zenon, <1>1, TurnType
<1>5. /\ v.offset = off
      /\ \A t \in Timers : v.place[t] = IF w.place[t] = <<l, offset[l]>>
                                        THEN Wheel!AddPlace(off, cur, trigger[t]) ELSE w.place[t]
  BY <1>3 DEF Wheel!Rotate
<1> HIDE DEF off, v
<1>6. Moved(off, l)
  BY Zenon, <1>2, <1>3 DEF Moved
<1>7. ASSUME NEW t \in Timers, w.place[t] = <<l, offset[l]>>
      PROVE  \E m \in Wheel!Levels : \E s \in 0..(MaxTick[m] - 1) :
               v.place[t] = <<m, s>> /\ Added(off, cur, m, s, trigger[t])
  <2>1. offset[l] \in 0..(MaxTick[l] - 1) /\ MaxTick[l] \in Nat /\ offset[l] \in Nat
    <3>1. offset[l] \in Nat /\ offset[l] < MaxTick[l] /\ MaxTick[l] \in Nat
      BY <1>1, ConstantFacts DEF Offsets
    <3> QED
      BY <3>1
  <2>2. Placed(offset, curTick, l, offset[l], trigger[t])
    <3>1. l > l - 1
      BY <1>1
    <3> QED
      BY Zenon, <1>1, <1>7, <2>1, <3>1 DEF Stage
  <2>3. Turns(offset, l, offset[l]) = 0
    BY <2>1, ModFacts DEF Turns
  <2>4. Until(offset)[l] \in Nat /\ Until(offset)[l] >= 1 /\ Wheel!LevelOffsetTick[l] \in Nat
    BY <1>1, UntilUnfolds, UntilBounds, LevelOffset
  <2>5. curTick + Until(offset)[l] + 0 * Wheel!LevelOffsetTick[l] <= trigger[t]
    BY Zenon, <1>1, <2>2, <2>3 DEF Placed
  <2>6. trigger[t] \in Nat /\ cur <= trigger[t]
    BY <1>1, <2>4, <2>5
  <2>7. \E m \in Wheel!Levels : \E s \in 0..(MaxTick[m] - 1) :
          Wheel!AddPlace(off, cur, trigger[t]) = <<m, s>> /\ Added(off, cur, m, s, trigger[t])
    BY <1>1, <1>2, <2>6, AddTimerPlaces
  <2>8. v.place[t] = Wheel!AddPlace(off, cur, trigger[t])
    BY Zenon, <1>5, <1>7
  <2> QED
    BY Zenon, <2>7, <2>8
<1>8. ASSUME NEW t \in Timers, NEW m \in Wheel!Levels, NEW s \in 0..(MaxTick[m] - 1),
             v.place[t] = <<m, s>>
      PROVE  /\ m <= l => Placed(off, cur, m, s, trigger[t])
             /\ m > l => Placed(offset, curTick, m, s, trigger[t])
  <2>0. trigger[t] \in Nat /\ m \in Nat /\ curTick <= cur /\ cur <= cur
    BY <1>1, ConstantFacts
  <2>1. CASE w.place[t] = <<l, offset[l]>>
    <3>1. PICK i \in Wheel!Levels : \E r \in 0..(MaxTick[i] - 1) :
            v.place[t] = <<i, r>> /\ Added(off, cur, i, r, trigger[t])
      BY Zenon, <1>7, <2>1
    <3>2. PICK r \in 0..(MaxTick[i] - 1) :
            v.place[t] = <<i, r>> /\ Added(off, cur, i, r, trigger[t])
      BY Zenon, <3>1
    <3>3. i = m /\ r = s
      BY SMTT(30), <1>8, <3>2
    <3>4. Added(off, cur, m, s, trigger[t])
      BY Zenon, <3>2, <3>3
    <3>5. m = 0 => Placed(off, cur, m, s, trigger[t])
      BY Zenon, <3>4 DEF Added
    <3>6. m # 0 => Placed(off, cur, m, s, trigger[t])
      BY Zenon, <1>1, <1>2, <2>0, <3>4, AddedIsPlaced
    <3>7. m > l => m # 0 /\ offset[m] = off[m]
      BY <1>1, <1>3, <2>0
    <3>8. m > l => Placed(offset, curTick, m, s, trigger[t])
      BY Zenon, <1>1, <1>2, <2>0, <3>4, <3>7, AddedIsPlaced
    <3> QED
      BY Zenon, <3>5, <3>6, <3>8
  <2>2. CASE w.place[t] # <<l, offset[l]>>
    <3>1. w.place[t] = <<m, s>>
      BY Zenon, <1>5, <1>8, <2>2
    <3>2. /\ m <= l - 1 => Placed(w.offset, cur, m, s, trigger[t])
          /\ m > l - 1 => Placed(offset, curTick, m, s, trigger[t])
      BY Zenon, <3>1 DEF Stage
    <3>3. ASSUME m < l
          PROVE  Placed(off, cur, m, s, trigger[t])
      <4>1. \A j \in Wheel!Levels : j < l => off[j] = w.offset[j]
        BY <1>1, <1>2
      <4>2. m <= l - 1
        BY <1>1, <2>0, <3>3
      <4> QED
        BY Zenon, <1>1, <1>2, <3>2, <3>3, <4>1, <4>2, PlacedBelow
    <3>4. ASSUME m = l
          PROVE  Placed(off, cur, m, s, trigger[t])
      <4>1. s # offset[l]
        BY Zenon, <2>2, <3>1, <3>4
      <4>2. Placed(offset, curTick, m, s, trigger[t]) /\ off[m] = (offset[m] + 1) % MaxTick[m]
        BY <1>1, <1>2, <1>3, <3>2, <3>4
      <4> QED
        BY Zenon, <1>1, <1>2, <2>0, <3>4, <4>1, <4>2, PlacedTurns
    <3>5. (m <= l => m < l \/ m = l) /\ (m > l => m > l - 1)
      BY <1>1, <2>0
    <3> QED
      BY Zenon, <3>2, <3>3, <3>4, <3>5
  <2> QED
    BY Zenon, <2>1, <2>2
<1>9. ASSUME NEW t \in Timers
      PROVE  /\ v.place[t] \in Slots => place[t] \in Slots
             /\ v.place[t] = Wheel!Due => place[t] = <<0, offset[0]>>
             /\ v.place[t] \notin Slots \cup {Wheel!Due} => v.place[t] = place[t]
  <2>1. /\ w.place[t] \in Slots => place[t] \in Slots
        /\ w.place[t] = Wheel!Due => place[t] = <<0, offset[0]>>
        /\ w.place[t] \notin Slots \cup {Wheel!Due} => w.place[t] = place[t]
    BY Zenon DEF Stage
  <2>2. CASE w.place[t] = <<l, offset[l]>>
    <3>1. v.place[t] \in Slots
      BY Zenon, <1>7, <2>2, PlaceFacts
    <3>2. w.place[t] \in Slots
      <4>1. offset[l] \in 0..(MaxTick[l] - 1)
        <5>1. offset[l] \in Nat /\ offset[l] < MaxTick[l] /\ MaxTick[l] \in Nat
          BY <1>1, ConstantFacts DEF Offsets
        <5> QED
          BY <5>1
      <4> QED
        BY Zenon, <1>1, <2>2, <4>1, PlaceFacts
    <3> QED
      BY Zenon, <2>1, <3>1, <3>2, PlaceFacts
  <2>3. CASE w.place[t] # <<l, offset[l]>>
    BY Zenon, <1>5, <2>1, <2>3
  <2> QED
    BY Zenon, <2>2, <2>3
<1>10. v.offset = off /\ v.offset \in Offsets
  BY Zenon, <1>2, <1>5
<1>11. Stage(v, l)
  BY Zenon, <1>3, <1>4, <1>6, <1>8, <1>9, <1>10 DEF Stage
<1> QED
  BY Zenon, <1>11 DEF v

\* The tick of level 0: its current slot becomes vDue, the others are one tick nearer.
LEMMA StageDue ==
  ASSUME WheelType, PlaceInv, \A t \in Timers : place[t] \notin {Wheel!Due, Wheel!Running}
  PROVE  /\ Stage(Wheel!TakeDue([offset |-> offset, place |-> place]), 0)
         /\ Wheel!TakeDue([offset |-> offset, place |-> place]).offset[0] =
              (offset[0] + 1) % MaxTick[0]
<1> DEFINE w == [offset |-> offset, place |-> place]
           off == Wheel!NextOffset(w, 0)
           v == Wheel!TakeDue(w)
<1>1. /\ w \in Wheels /\ w.offset = offset /\ w.place = place /\ offset \in Offsets
      /\ place \in [Timers -> Places] /\ curTick \in Nat /\ 0 \in Wheel!Levels
      /\ trigger \in [Timers -> Nat]
  BY ConstantFacts DEF Wheels, WheelType
<1>2. /\ off \in Offsets /\ off[0] = (offset[0] + 1) % MaxTick[0]
      /\ \A j \in Wheel!Levels : j # 0 => off[j] = offset[j]
  <2> HIDE DEF w
  <2> QED
    BY Zenon, <1>1, NextOffsetType
<1>3. /\ v.offset = off
      /\ v.place = [t \in Timers |-> IF place[t] = <<0, offset[0]>> THEN Wheel!Due ELSE place[t]]
  BY DEF Wheel!TakeDue
<1> HIDE DEF w
<1>4. v \in Wheels
  <2>1. [t \in Timers |-> IF place[t] = <<0, offset[0]>> THEN Wheel!Due ELSE place[t]]
          \in [Timers -> Places]
    BY <1>1 DEF Places
  <2>2. v = [offset |-> off,
             place |-> [t \in Timers |->
                         IF place[t] = <<0, offset[0]>> THEN Wheel!Due ELSE place[t]]]
    BY <1>1 DEF Wheel!TakeDue
  <2> HIDE DEF off, v
  <2> QED
    BY <1>2, <2>1, <2>2 DEF Wheels
<1> HIDE DEF off, v
<1>5. Moved(off, 0)
  BY Zenon, <1>2 DEF Moved
<1>6. \A j \in Wheel!Levels : j > 0 => off[j] = offset[j]
  BY <1>2, ConstantFacts
<1>7. offset[0] \in 0..(MaxTick[0] - 1)
  <2>1. offset[0] \in Nat /\ offset[0] < MaxTick[0] /\ MaxTick[0] \in Nat
    BY <1>1, ConstantFacts DEF Offsets
  <2> QED
    BY <2>1
<1>8. ASSUME NEW t \in Timers
      PROVE  v.place[t] = IF place[t] = <<0, offset[0]>> THEN Wheel!Due ELSE place[t]
  BY Zenon, <1>3
<1>9. ASSUME NEW t \in Timers, NEW m \in Wheel!Levels, NEW s \in 0..(MaxTick[m] - 1),
             v.place[t] = <<m, s>>
      PROVE  /\ m <= 0 => Placed(off, curTick + 1, m, s, trigger[t])
             /\ m > 0 => Placed(offset, curTick, m, s, trigger[t])
  <2>1. <<m, s>> # Wheel!Due
    BY Zenon, PlaceFacts
  <2>2. place[t] = <<m, s>> /\ place[t] # <<0, offset[0]>>
    BY Zenon, <1>8, <1>9, <2>1
  <2>3. Placed(offset, curTick, m, s, trigger[t])
    BY Zenon, <2>2 DEF PlaceInv
  <2>4. ASSUME m = 0
        PROVE  Placed(off, curTick + 1, m, s, trigger[t])
    <3>1. s # offset[0] /\ trigger[t] \in Nat
      BY Zenon, <1>1, <2>2, <2>4
    <3>2. s # offset[m] /\ off[m] = (offset[m] + 1) % MaxTick[m]
      BY Zenon, <1>2, <2>4, <3>1
    <3> QED
      BY Zenon, <1>1, <1>2, <2>3, <3>1, <3>2, PlacedTurns
  <2>5. m <= 0 => m = 0
    BY ConstantFacts
  <2> QED
    BY Zenon, <2>3, <2>4, <2>5
<1>10. ASSUME NEW t \in Timers
       PROVE  /\ v.place[t] \in Slots => place[t] \in Slots
              /\ v.place[t] = Wheel!Due => place[t] = <<0, offset[0]>>
              /\ v.place[t] \notin Slots \cup {Wheel!Due} => v.place[t] = place[t]
  <2>1. /\ place[t] # Wheel!Due /\ Wheel!Due \notin Slots
        /\ place[t] = <<0, offset[0]>> => place[t] \in Slots
    BY Zenon, <1>1, <1>7, PlaceFacts
  <2>2. CASE place[t] = <<0, offset[0]>>
    BY Zenon, <1>8, <2>1, <2>2
  <2>3. CASE place[t] # <<0, offset[0]>>
    BY Zenon, <1>8, <2>1, <2>3
  <2> QED
    BY Zenon, <2>2, <2>3
<1>11. Stage(v, 0) /\ v.offset[0] = (offset[0] + 1) % MaxTick[0]
  BY Zenon, <1>2, <1>3, <1>4, <1>5, <1>6, <1>9, <1>10 DEF Stage
<1> QED
  BY Zenon, <1>11 DEF v, w

\* The recursive definition of try_uniform unfolds, and each level keeps the stage.
LEMMA StageUniform ==
  ASSUME WheelType, PlaceInv, NEW w0, Stage(w0, 0)
  PROVE  Stage(Wheel!try_uniform(w0, curTick + 1), Count - 1)
<1> DEFINE N == Count - 1
           cur == curTick + 1
           G == [p \in (1..N) \X Wheels |-> Wheel!Turn(p[2], p[1], cur)]
           E(f) == f = [l \in Wheel!Levels |-> IF l = 0 THEN w0 ELSE Wheel!Turn(f[l - 1], l, cur)]
<1>1. /\ N \in Nat /\ \A l \in 1..N : l \in Wheel!Levels /\ l # 0 /\ l - 1 \in Wheel!Levels
      /\ 0 \in Wheel!Levels /\ Wheel!Levels = 0..N /\ Count - 1 = N
  BY ConstantFacts
<1>2. cur \in Nat /\ trigger \in [Timers -> Nat] /\ w0 \in Wheels /\ curTick + 1 = cur
  BY SMTT(30) DEF WheelType, Stage
<1>3. \A l \in 1..N, x \in Wheels : Wheel!Turn(x, l, cur) \in Wheels
  <2> HIDE DEF cur
  <2> QED
    BY Zenon, <1>2, TurnType
<1> HIDE DEF N, cur
<1>4. IsStep(G, N, Wheels)
  BY <1>3 DEF IsStep
<1>5. \A l \in 1..N, x \in Wheels : G[<<l, x>>] = Wheel!Turn(x, l, cur)
  OBVIOUS
<1> HIDE DEF G
<1>6. PICK f : IsTable(f, N, Wheels, w0, G)
  BY Zenon, <1>1, <1>2, <1>4, LevelRecursion
<1>7. f \in [Wheel!Levels -> Wheels] /\ f[0] = w0 /\ \A l \in 1..N : f[l] = G[<<l, f[l - 1]>>]
  BY Zenon, <1>1, <1>6 DEF IsTable
<1>8. \A l \in 1..N : f[l] = Wheel!Turn(f[l - 1], l, cur)
  BY <1>1, <1>5, <1>7
<1>9. E(f)
  BY <1>1, <1>7, <1>8
<1>10. PICK g : E(g) /\ Wheel!try_uniform(w0, cur) = g[N]
  BY Zenon, <1>1, <1>9 DEF Wheel!try_uniform
<1>11. g[0] = w0 /\ \A l \in 1..N : g[l] = Wheel!Turn(g[l - 1], l, cur)
  BY Zenon, <1>1, <1>10
<1> DEFINE S == {l \in 0..N : Stage(g[l], l)}
<1>12. 0 \in S
  BY Zenon, <1>1, <1>11
<1>13. ASSUME NEW l \in 1..N, l - 1 \in S
       PROVE  l \in S
  <2>1. Stage(g[l - 1], l - 1) /\ l \in 1..(Count - 1)
    BY Zenon, <1>1, <1>13
  <2>2. CASE g[l - 1].offset[l - 1] # 0
    <3>1. g[l] = g[l - 1]
      BY Zenon, <1>11, <2>2 DEF Wheel!Turn
    <3>2. Stage(g[l], l)
      BY Zenon, <2>1, <2>2, <3>1, StageStands
    <3> QED
      BY Zenon, <1>1, <3>2
  <2>3. CASE g[l - 1].offset[l - 1] = 0
    <3>1. g[l] = Wheel!Rotate(g[l - 1], l, cur)
      BY Zenon, <1>11, <2>3 DEF Wheel!Turn
    <3>2. Stage(Wheel!Rotate(g[l - 1], l, curTick + 1), l)
      BY Zenon, <2>1, StageTurns
    <3>3. Stage(g[l], l)
      BY Zenon, <1>2, <3>1, <3>2
    <3> QED
      BY Zenon, <1>1, <3>3
  <2> QED
    BY Zenon, <2>2, <2>3
<1>14. N \in S
  <2>1. N \in 0..N
    BY <1>1
  <2> HIDE DEF S
  <2> QED
    BY Zenon, <1>1, <1>12, <1>13, <2>1, LevelInduction
<1>15. Stage(g[N], N)
  BY Zenon, <1>14
<1> QED
  BY Zenon, <1>1, <1>2, <1>10, <1>15

\* The wheel v that a tick leaves: every timer in it is placed for the new tick.
Ticked(v) ==
  /\ v \in Wheels
  /\ \A t \in Timers : \A m \in Wheel!Levels : \A s \in 0..(MaxTick[m] - 1) :
       v.place[t] = <<m, s>> => Placed(v.offset, curTick + 1, m, s, trigger[t])
  /\ \A t \in Timers :
       /\ v.place[t] \in Slots => place[t] \in Slots
       /\ v.place[t] = Wheel!Due => place[t] = <<0, offset[0]>>
       /\ v.place[t] \notin Slots \cup {Wheel!Due} => v.place[t] = place[t]

\* run_tick leaves every timer in time, whether or not level 0 comes round.
LEMMA TickPlaces ==
  ASSUME WheelType, PlaceInv, \A t \in Timers : place[t] \notin {Wheel!Due, Wheel!Running}
  PROVE  Ticked(Wheel!AfterTick([offset |-> offset, place |-> place], curTick + 1))
<1> DEFINE d == Wheel!TakeDue([offset |-> offset, place |-> place])
           v == Wheel!AfterTick([offset |-> offset, place |-> place], curTick + 1)
<1>1. Stage(d, 0) /\ d.offset[0] = (offset[0] + 1) % MaxTick[0]
  BY Zenon, StageDue
<1>2. v = IF d.offset[0] = 0 THEN Wheel!try_uniform(d, curTick + 1) ELSE d
  BY Zenon DEF Wheel!AfterTick
<1> HIDE DEF d, v
<1>3. CASE d.offset[0] = 0
  <2>1. Stage(v, Count - 1)
    BY Zenon, <1>1, <1>2, <1>3, StageUniform
  <2>2. \A m \in Wheel!Levels : m <= Count - 1
    BY ConstantFacts
  <2> QED
    BY Zenon, <2>1, <2>2 DEF Stage, Ticked, v
<1>4. CASE d.offset[0] # 0
  <2>1. v = d
    BY Zenon, <1>2, <1>4
  <2>2. d \in Wheels /\ d.offset \in Offsets /\ offset \in Offsets /\ curTick \in Nat
    BY <1>1 DEF Stage, Wheels, WheelType
  <2>3. /\ offset[0] \in Nat /\ MaxTick[0] \in Nat /\ MaxTick[0] > 0 /\ offset[0] < MaxTick[0]
    BY <2>2, ConstantFacts DEF Offsets
  <2>4. d.offset[0] = offset[0] + 1
    BY <1>1, <1>4, <2>3, ModFacts
  <2>5. \A j \in Wheel!Levels : j # 0 => d.offset[j] = offset[j] /\ j > 0
    <3>1. \A j \in Wheel!Levels : j # 0 => j > 0
      BY LevelNat
    <3>2. \A j \in Wheel!Levels : j > 0 => d.offset[j] = offset[j]
      BY Zenon, <1>1 DEF Stage
    <3> QED
      BY Zenon, <3>1, <3>2
  <2>6. \A l \in 1..(Count - 1) : Until(d.offset)[l] = Until(offset)[l] - 1
    BY Zenon, <2>2, <2>4, <2>5, UntilTick
  <2>7. ASSUME NEW t \in Timers, NEW m \in Wheel!Levels, NEW s \in 0..(MaxTick[m] - 1),
               d.place[t] = <<m, s>>
        PROVE  Placed(d.offset, curTick + 1, m, s, trigger[t])
    <3>1. /\ m <= 0 => Placed(d.offset, curTick + 1, m, s, trigger[t])
          /\ m > 0 => Placed(offset, curTick, m, s, trigger[t])
      BY Zenon, <1>1, <2>7 DEF Stage
    <3>2. m \in Nat /\ (m # 0 => m \in 1..(Count - 1) /\ m > 0) /\ (m = 0 => m <= 0)
      BY ConstantFacts
    <3>3. ASSUME m # 0
          PROVE  Placed(d.offset, curTick + 1, m, s, trigger[t])
      <4>1. Until(d.offset)[m] \in Nat /\ Until(offset)[m] \in Nat
        BY <2>2, UntilUnfolds
      <4>2. Until(d.offset)[m] = Until(offset)[m] - 1
        BY Zenon, <2>6, <3>2, <3>3
      <4>3. curTick + 1 + Until(d.offset)[m] <= curTick + Until(offset)[m]
        BY <2>2, <4>1, <4>2
      <4>4. trigger[t] \in Nat /\ curTick + 1 \in Nat
        BY <2>2 DEF WheelType
      <4>5. d.offset[m] = offset[m] /\ Placed(offset, curTick, m, s, trigger[t])
        BY Zenon, <2>5, <3>1, <3>2, <3>3
      <4> QED
        BY Zenon, <2>2, <3>3, <4>3, <4>4, <4>5, PlacedStays
    <3> QED
      BY Zenon, <3>1, <3>2, <3>3
  <2>8. Ticked(d)
    BY Zenon, <1>1, <2>7 DEF Stage, Ticked
  <2> QED
    BY Zenon, <2>1, <2>8 DEF v
<1> QED
  BY Zenon, <1>3, <1>4

-----------------------------------------------------------------------------
\* A timer that is placed is not past.
LEMMA PlacedNotPast ==
  ASSUME NEW off \in Offsets, NEW cur \in Nat, NEW l \in Wheel!Levels,
         NEW s \in 0..(MaxTick[l] - 1), NEW trig \in Nat, Placed(off, cur, l, s, trig)
  PROVE  cur <= trig
<1>1. Turns(off, l, s) \in Nat
  <2>1. off[l] \in Nat /\ MaxTick[l] \in Nat /\ MaxTick[l] > 0
    BY ConstantFacts DEF Offsets
  <2>2. (s - off[l]) % MaxTick[l] \in 0..(MaxTick[l] - 1)
    BY <2>1, ModFacts
  <2> QED
    BY <2>1, <2>2 DEF Turns
<1>2. CASE l = 0
  BY <1>1, <1>2 DEF Placed
<1>3. CASE l # 0
  <2>1. Wheel!LevelOffsetTick[l] \in Nat /\ Until(off)[l] \in Nat
    BY LevelOffset, UntilUnfolds
  <2>2. cur + Until(off)[l] + Turns(off, l, s) * Wheel!LevelOffsetTick[l] <= trig
    BY Zenon, <1>3 DEF Placed
  <2> DEFINE x == Turns(off, l, s) * Wheel!LevelOffsetTick[l]
  <2>3. x \in Nat /\ cur + Until(off)[l] + x <= trig
    BY SMTT(30), <1>1, <2>1, <2>2
  <2> HIDE DEF x
  <2> QED
    BY <2>1, <2>3
<1> QED
  BY <1>2, <1>3

\* What is in the wheel is in a slot of it.
LEMMA InSlot ==
  ASSUME WheelType, NEW t \in Timers
  PROVE  Wheel!InWheel(t) <=> place[t] \in Slots
<1>1. place[t] \in Places
  BY Zenon DEF WheelType
<1> QED
  BY Zenon, <1>1, PlaceFacts DEF Wheel!InWheel, Places

\* A timer that a tick takes out of the wheel is due, and not late.
LEMMA TakenIsDue ==
  ASSUME WheelInv, NEW t \in Timers, place[t] = <<0, offset[0]>>
  PROVE  /\ due[t] <= base + TickMs
         /\ trigger[t] <= curTick + 1 /\ curTick <= trigger[t]
<1>1. /\ offset[0] \in Nat /\ MaxTick[0] \in Nat /\ offset[0] < MaxTick[0] /\ 0 \in Wheel!Levels
      /\ curTick \in Nat /\ trigger[t] \in Nat /\ base \in Nat /\ due[t] \in Nat
      /\ TickMs \in Nat
  BY ConstantFacts DEF WheelInv, WheelType, Offsets
<1>2. offset[0] \in 0..(MaxTick[0] - 1)
  BY <1>1
<1>3. Placed(offset, curTick, 0, offset[0], trigger[t])
  BY Zenon, <1>1, <1>2 DEF WheelInv, PlaceInv
<1>4. Turns(offset, 0, offset[0]) = 0
  BY <1>1, ModFacts DEF Turns
<1>5. curTick + 1 = trigger[t] \/ curTick = trigger[t]
  BY <1>1, <1>3, <1>4 DEF Placed
<1>6. Wheel!InWheel(t)
  <2>1. place[t] \in Slots
    BY Zenon, <1>1, <1>2, PlaceFacts
  <2> QED
    BY Zenon, <2>1, InSlot DEF WheelInv
<1> DEFINE x == (trigger[t] - curTick) * TickMs
<1>7. due[t] <= base + x
  BY Zenon, <1>6 DEF WheelInv, DueInv
<1>8. x \in Int /\ x <= TickMs
  <2>1. CASE curTick + 1 = trigger[t]
    <3>1. trigger[t] - curTick = 1
      BY <1>1, <2>1
    <3> QED
      BY <1>1, <3>1
  <2>2. CASE curTick = trigger[t]
    <3>1. trigger[t] - curTick = 0
      BY <1>1, <2>2
    <3> QED
      BY <1>1, <3>1
  <2> QED
    BY Zenon, <1>5, <2>1, <2>2
<1> HIDE DEF x
<1> QED
  BY SMTT(30), <1>1, <1>5, <1>7, <1>8

\* The types of the wheel as single facts.
LEMMA TypeFacts ==
  ASSUME WheelType
  PROVE  /\ now \in Nat /\ now <= MaxNow /\ MaxNow \in Nat /\ base \in Nat /\ curTick \in Nat
         /\ iTicks \in Nat /\ offset \in Offsets /\ place \in [Timers -> Places]
         /\ trigger \in [Timers -> Nat] /\ interval \in [Timers -> Nat] /\ due \in [Timers -> Nat]
  BY WheelAssumption DEF WheelType

\* run_tick keeps the wheel.
LEMMA TickStep == WheelInv /\ Wheel!run_tick => WheelInv'
<1> SUFFICES ASSUME WheelInv, Wheel!run_tick
             PROVE  WheelInv'
  OBVIOUS
<1> DEFINE v == Wheel!AfterTick([offset |-> offset, place |-> place], curTick + 1)
<1>1. WheelType /\ ClockInv /\ PlaceInv /\ DueInv
  BY Zenon DEF WheelInv
<1>2. /\ iTicks > 0 /\ iTicks' = iTicks - 1 /\ base' = base + TickMs /\ curTick' = curTick + 1
      /\ offset' = v.offset /\ place' = v.place
      /\ now' = now /\ trigger' = trigger /\ interval' = interval /\ due' = due
      /\ \A t \in Timers : place[t] \notin {Wheel!Due, Wheel!Running}
  BY DEF Wheel!run_tick
<1>3. Ticked(v)
  BY Zenon, <1>1, <1>2, TickPlaces
<1> HIDE DEF v
<1>4. v.offset \in Offsets /\ v.place \in [Timers -> Places]
  BY <1>3 DEF Ticked, Wheels
<1>5. /\ now \in Nat /\ base \in Nat /\ curTick \in Nat /\ iTicks \in Nat /\ TickMs \in Nat
      /\ trigger \in [Timers -> Nat] /\ due \in [Timers -> Nat]
  BY Zenon, <1>1, TypeFacts, ConstantFacts
<1>6. WheelType'
  <2>1. /\ iTicks' \in Nat /\ base' \in Nat /\ curTick' \in Nat
    BY <1>2, <1>5
  <2> QED
    BY Zenon, <1>1, <1>2, <1>4, <2>1 DEF WheelType
<1>7. ClockInv'
  <2>1. base + iTicks * TickMs <= now
    BY Zenon, <1>1 DEF ClockInv
  <2>2. (iTicks - 1) * TickMs = iTicks * TickMs - TickMs /\ iTicks * TickMs \in Nat
    BY <1>5
  <2>3. base + TickMs + (iTicks - 1) * TickMs <= now
    BY <1>5, <2>1, <2>2
  <2> QED
    BY Zenon, <1>2, <2>3 DEF ClockInv
<1>8. PlaceInv'
  BY Zenon, <1>2, <1>3 DEF Ticked, PlaceInv
<1>9. ASSUME NEW t \in Timers
      PROVE  /\ place'[t] # Wheel!Idle => interval'[t] > 0
             /\ Wheel!InWheel(t)' => due'[t] <= base' + (trigger'[t] - curTick') * TickMs
             /\ place'[t] = Wheel!Due => /\ due'[t] <= base'
                                  /\ trigger'[t] <= curTick' /\ curTick' <= trigger'[t] + 1
  <2>1. /\ v.place[t] \in Slots => place[t] \in Slots
        /\ v.place[t] = Wheel!Due => place[t] = <<0, offset[0]>>
        /\ v.place[t] \notin Slots \cup {Wheel!Due} => v.place[t] = place[t]
    BY Zenon, <1>3 DEF Ticked
  <2>2. /\ place[t] # Wheel!Idle => interval[t] > 0
        /\ Wheel!InWheel(t) => due[t] <= base + (trigger[t] - curTick) * TickMs
    BY Zenon, <1>1 DEF DueInv
  <2>3. Wheel!Idle \notin Slots /\ <<0, offset[0]>> # Wheel!Idle
    BY Zenon, PlaceFacts DEF Wheel!Idle
  <2>4. place'[t] # Wheel!Idle => interval'[t] > 0
    BY Zenon, <1>2, <2>1, <2>2, <2>3
  <2>5. ASSUME Wheel!InWheel(t)'
        PROVE  due'[t] <= base' + (trigger'[t] - curTick') * TickMs
    <3>1. v.place[t] \in Slots
      BY Zenon, <1>2, <1>4, <2>5 DEF Wheel!InWheel, Places
    <3>2. Wheel!InWheel(t)
      BY Zenon, <1>1, <2>1, <3>1, InSlot
    <3>3. due[t] <= base + (trigger[t] - curTick) * TickMs
      BY Zenon, <2>2, <3>2
    <3>4. PICK a \in Int : a = trigger[t] - curTick
      BY <1>5
    <3>5. trigger[t] - (curTick + 1) = a - 1
      BY <1>5, <3>4
    <3>6. a * TickMs \in Int /\ (a - 1) * TickMs = a * TickMs - TickMs
      BY <1>5
    <3>7. due[t] <= base + TickMs + (a - 1) * TickMs
      BY <1>5, <3>3, <3>4, <3>6
    <3> QED
      BY Zenon, <1>2, <3>5, <3>7
  <2>6. ASSUME place'[t] = Wheel!Due
        PROVE  due'[t] <= base' /\ trigger'[t] <= curTick' /\ curTick' <= trigger'[t] + 1
    <3>1. place[t] = <<0, offset[0]>>
      BY Zenon, <1>2, <2>1, <2>6
    <3>2. due[t] <= base + TickMs /\ trigger[t] <= curTick + 1 /\ curTick <= trigger[t]
      BY Zenon, <3>1, TakenIsDue
    <3>3. trigger[t] \in Nat
      BY <1>5
    <3>4. curTick + 1 <= trigger[t] + 1
      BY <1>5, <3>2, <3>3
    <3> QED
      BY Zenon, <1>2, <3>2, <3>4
  <2> QED
    BY Zenon, <2>4, <2>5, <2>6
<1>10. DueInv'
  BY Zenon, <1>9 DEF DueInv
<1> QED
  BY Zenon, <1>6, <1>7, <1>8, <1>10 DEF WheelInv

\* InitData and add_timer keep the wheel, when the ticks cover the interval.
LEMMA ArmStep ==
  ASSUME WheelInv, NEW t \in Timers, NEW ms \in Nat, ms > 0, NEW ticks \in Nat, NEW d \in Nat,
         d <= base + ticks * TickMs, Wheel!Arm(t, ms, ticks), due' = [due EXCEPT ![t] = d],
         UNCHANGED Wheel!clockVars
  PROVE  WheelInv'
<1> DEFINE trig == curTick + ticks
           p == Wheel!AddPlace(offset, curTick, trig)
<1>1. WheelType /\ ClockInv /\ PlaceInv /\ DueInv
  BY Zenon DEF WheelInv
<1>2. now' = now /\ base' = base /\ curTick' = curTick /\ offset' = offset /\ iTicks' = iTicks
  BY DEF Wheel!clockVars
<1>3. /\ now \in Nat /\ base \in Nat /\ curTick \in Nat /\ TickMs \in Nat
      /\ offset \in Offsets /\ place \in [Timers -> Places] /\ interval \in [Timers -> Nat]
      /\ trigger \in [Timers -> Nat] /\ due \in [Timers -> Nat]
  BY Zenon, <1>1, TypeFacts, ConstantFacts
<1>4. trig \in Nat /\ curTick <= trig /\ curTick <= curTick /\ trig - curTick = ticks
  BY <1>3
<1>5. /\ interval' = [interval EXCEPT ![t] = ms] /\ trigger' = [trigger EXCEPT ![t] = trig]
      /\ place' = [place EXCEPT ![t] = p] /\ due' = [due EXCEPT ![t] = d]
  BY Zenon DEF Wheel!Arm
<1> HIDE DEF trig
<1>6. PICK l \in Wheel!Levels : \E s \in 0..(MaxTick[l] - 1) :
        p = <<l, s>> /\ Added(offset, curTick, l, s, trig)
  BY <1>3, <1>4, AddTimerPlaces
<1>7. PICK s \in 0..(MaxTick[l] - 1) : p = <<l, s>> /\ Added(offset, curTick, l, s, trig)
  BY Zenon, <1>6
<1>8. Placed(offset, curTick, l, s, trig)
  <2>1. l = 0 => Placed(offset, curTick, l, s, trig)
    BY Zenon, <1>7 DEF Added
  <2>2. l # 0 => Placed(offset, curTick, l, s, trig)
    BY Zenon, <1>3, <1>4, <1>7, AddedIsPlaced
  <2> QED
    BY Zenon, <2>1, <2>2
<1>9. p \in Slots /\ p \in Places /\ p # Wheel!Due
  BY Zenon, <1>7, PlaceFacts DEF Places
<1> HIDE DEF p
<1>10. /\ interval'[t] = ms /\ trigger'[t] = trig /\ place'[t] = p /\ due'[t] = d
       /\ \A u \in Timers : u # t => /\ interval'[u] = interval[u] /\ trigger'[u] = trigger[u]
                                     /\ place'[u] = place[u] /\ due'[u] = due[u]
  BY <1>3, <1>5
<1>11. WheelType'
  <2>1. /\ interval' \in [Timers -> Nat] /\ trigger' \in [Timers -> Nat]
        /\ place' \in [Timers -> Places] /\ due' \in [Timers -> Nat]
    BY <1>3, <1>4, <1>5, <1>9
  <2> QED
    BY Zenon, <1>1, <1>2, <2>1 DEF WheelType
<1>12. ClockInv'
  BY Zenon, <1>1, <1>2 DEF ClockInv
<1>13. ASSUME NEW u \in Timers, NEW m \in Wheel!Levels, NEW r \in 0..(MaxTick[m] - 1),
              place'[u] = <<m, r>>
       PROVE  Placed(offset, curTick, m, r, trigger'[u])
  <2>1. CASE u = t
    <3>1. m = l /\ r = s
      BY SMTT(30), <1>7, <1>10, <1>13, <2>1
    <3> QED
      BY Zenon, <1>8, <1>10, <2>1, <3>1
  <2>2. CASE u # t
    BY Zenon, <1>1, <1>10, <1>13, <2>2 DEF PlaceInv
  <2> QED
    BY Zenon, <2>1, <2>2
<1>14. PlaceInv'
  BY Zenon, <1>2, <1>13 DEF PlaceInv
<1>15. ASSUME NEW u \in Timers
       PROVE  /\ place'[u] # Wheel!Idle => interval'[u] > 0
              /\ Wheel!InWheel(u)' => due'[u] <= base + (trigger'[u] - curTick) * TickMs
              /\ place'[u] = Wheel!Due => /\ due'[u] <= base
                                   /\ trigger'[u] <= curTick /\ curTick <= trigger'[u] + 1
  <2>1. CASE u = t
    <3>1. d <= base + (trig - curTick) * TickMs
      BY Zenon, <1>4
    <3> QED
      BY Zenon, <1>9, <1>10, <2>1, <3>1
  <2>2. CASE u # t
    BY Zenon, <1>1, <1>10, <2>2 DEF DueInv, Wheel!InWheel
  <2> QED
    BY Zenon, <2>1, <2>2
<1>16. DueInv'
  BY Zenon, <1>2, <1>15 DEF DueInv
<1> QED
  BY Zenon, <1>11, <1>12, <1>14, <1>16 DEF WheelInv

\* milling2tick and TicksFromNow round up.
LEMMA TicksCover ==
  ASSUME NEW ms \in Nat
  PROVE  /\ Wheel!milling2tick(ms) \in Nat /\ ms <= Wheel!milling2tick(ms) * TickMs
         /\ now \in Nat /\ base \in Nat /\ base <= now =>
              Wheel!TicksFromNow(ms) \in Nat /\ now + ms <= base + Wheel!TicksFromNow(ms) * TickMs
<1>1. TickMs \in Nat /\ TickMs > 0
  BY ConstantFacts
<1>2. Wheel!milling2tick(ms) \in Nat /\ ms <= Wheel!milling2tick(ms) * TickMs
  <2> DEFINE q == ms \div TickMs
             r == ms % TickMs
  <2>1. q \in Nat /\ r \in Nat /\ ms = q * TickMs + r /\ r < TickMs
    BY <1>1
  <2>2. Wheel!milling2tick(ms) = q + (IF r > 0 THEN 1 ELSE 0)
    BY DEF Wheel!milling2tick
  <2> HIDE DEF q, r
  <2>3. q * TickMs \in Nat /\ (q + 1) * TickMs = q * TickMs + TickMs
    BY <1>1, <2>1
  <2>4. CASE r > 0
    BY <1>1, <2>1, <2>2, <2>3, <2>4
  <2>5. CASE ~(r > 0)
    BY <1>1, <2>1, <2>2, <2>3, <2>5
  <2> QED
    BY <2>4, <2>5
<1>3. ASSUME now \in Nat, base \in Nat, base <= now
      PROVE  Wheel!TicksFromNow(ms) \in Nat /\ now + ms <= base + Wheel!TicksFromNow(ms) * TickMs
  <2> DEFINE e == IF now - base < 0 THEN 0 ELSE now - base
             n == e + ms + TickMs - 1
             q == n \div TickMs
  <2>1. e = now - base /\ e \in Nat
    BY <1>3
  <2>2. Wheel!TicksFromNow(ms) = IF q < 1 THEN 1 ELSE q
    BY Zenon DEF Wheel!TicksFromNow
  <2> HIDE DEF e
  <2>3. n \in Nat /\ n + 1 = e + ms + TickMs
    BY <1>1, <2>1
  <2> HIDE DEF n
  <2>4. q \in Nat /\ n < q * TickMs + TickMs
    BY Zenon, <1>1, <2>3, DivFacts
  <2> HIDE DEF q
  <2>5. q * TickMs \in Nat
    BY <1>1, <2>4
  <2>6. e + ms <= q * TickMs
    BY <1>1, <2>1, <2>3, <2>4, <2>5
  <2>7. CASE q < 1
    <3>1. q * TickMs = 0 /\ 1 * TickMs = TickMs
      BY <1>1, <2>4, <2>7
    <3>2. Wheel!TicksFromNow(ms) = 1
      BY Zenon, <2>2, <2>7
    <3> QED
      BY <1>1, <1>3, <2>1, <2>6, <3>1, <3>2
  <2>8. CASE ~(q < 1)
    <3>1. Wheel!TicksFromNow(ms) = q
      BY Zenon, <2>2, <2>8
    <3> QED
      BY <1>3, <2>1, <2>4, <2>5, <2>6, <3>1
  <2> QED
    BY <2>7, <2>8
<1> QED
  BY Zenon, <1>2, <1>3

\* Steps that only take a timer out of the wheel, or out of vDue.
LEMMA LeaveStep ==
  ASSUME WheelInv, NEW t \in Timers, NEW p \in {Wheel!Idle, Wheel!Running}, place[t] # Wheel!Idle,
         place' = [place EXCEPT ![t] = p], UNCHANGED <<Wheel!clockVars, trigger, interval, due>>
  PROVE  WheelInv'
<1>1. WheelType /\ ClockInv /\ PlaceInv /\ DueInv
  BY Zenon DEF WheelInv
<1>2. /\ now' = now /\ base' = base /\ curTick' = curTick /\ offset' = offset /\ iTicks' = iTicks
      /\ trigger' = trigger /\ interval' = interval /\ due' = due
  BY DEF Wheel!clockVars
<1>3. place \in [Timers -> Places] /\ p \in Places /\ p # Wheel!Due /\ p \notin Slots
  BY Zenon, <1>1, TypeFacts, PlaceFacts DEF Places
<1>4. /\ place'[t] = p /\ place' \in [Timers -> Places]
      /\ \A u \in Timers : u # t => place'[u] = place[u]
  BY <1>3
<1>5. WheelType'
  BY Zenon, <1>1, <1>2, <1>4 DEF WheelType
<1>6. ClockInv'
  BY Zenon, <1>1, <1>2 DEF ClockInv
<1>7. ASSUME NEW u \in Timers, NEW m \in Wheel!Levels, NEW r \in 0..(MaxTick[m] - 1),
             place'[u] = <<m, r>>
      PROVE  Placed(offset, curTick, m, r, trigger[u])
  <2>1. u # t
    BY Zenon, <1>3, <1>4, <1>7, PlaceFacts
  <2> QED
    BY Zenon, <1>1, <1>4, <1>7, <2>1 DEF PlaceInv
<1>8. PlaceInv'
  BY Zenon, <1>2, <1>7 DEF PlaceInv
<1>9. ASSUME NEW u \in Timers
      PROVE  /\ place'[u] # Wheel!Idle => interval[u] > 0
             /\ Wheel!InWheel(u)' => due[u] <= base + (trigger[u] - curTick) * TickMs
             /\ place'[u] = Wheel!Due => /\ due[u] <= base
                                  /\ trigger[u] <= curTick /\ curTick <= trigger[u] + 1
  <2>1. CASE u = t
    BY Zenon, <1>1, <1>3, <1>4, <2>1 DEF DueInv, Wheel!InWheel
  <2>2. CASE u # t
    BY Zenon, <1>1, <1>4, <2>2 DEF DueInv, Wheel!InWheel
  <2> QED
    BY Zenon, <2>1, <2>2
<1>10. DueInv'
  BY Zenon, <1>2, <1>9 DEF DueInv
<1> QED
  BY Zenon, <1>5, <1>6, <1>8, <1>10 DEF WheelInv

\* WheelInv is an invariant of the wheel: a timer stays in a slot that comes in its trigger
\* tick (add_timer, TimerLevel::RunTick and try_uniform), and its trigger tick covers its
\* interval (TicksFromNow, milling2tick and Update's base).
THEOREM WheelInvariant == WheelSpec => []WheelInv
<1>1. Wheel!Init => WheelInv
  <2> SUFFICES ASSUME Wheel!Init
               PROVE  WheelInv
    OBVIOUS
  <2>1. /\ now = 0 /\ base = 0 /\ curTick = 0 /\ iTicks = 0 /\ offset = [l \in Wheel!Levels |-> 0]
        /\ place = [t \in Timers |-> Wheel!Idle] /\ trigger = [t \in Timers |-> 0]
        /\ interval = [t \in Timers |-> 0] /\ due = [t \in Timers |-> 0]
    BY DEF Wheel!Init
  <2>2. [l \in Wheel!Levels |-> 0] \in Offsets
    BY ConstantFacts DEF Offsets
  <2>3. WheelType
    <3>1. 0 \in 0..MaxNow
      BY WheelAssumption
    <3>2. Wheel!Idle \in Places
      BY DEF Places
    <3> QED
      BY <2>1, <2>2, <3>1, <3>2 DEF WheelType
  <2>4. ClockInv
    BY <2>1, ConstantFacts DEF ClockInv
  <2>5. \A t \in Timers : place[t] = Wheel!Idle
    BY Zenon, <2>1
  <2>6. PlaceInv
    BY Zenon, <2>5, PlaceFacts DEF PlaceInv
  <2>7. DueInv
    BY Zenon, <2>5, PlaceFacts DEF DueInv, Wheel!InWheel
  <2> QED
    BY Zenon, <2>3, <2>4, <2>6, <2>7 DEF WheelInv
<1>2. WheelInv /\ [Wheel!Next]_Wheel!vars => WheelInv'
  <2> SUFFICES ASSUME WheelInv, [Wheel!Next]_Wheel!vars
               PROVE  WheelInv'
    OBVIOUS
  <2>0. WheelType /\ ClockInv /\ PlaceInv /\ DueInv
    BY Zenon DEF WheelInv
  <2>1. /\ now \in Nat /\ now <= MaxNow /\ MaxNow \in Nat /\ base \in Nat /\ curTick \in Nat
        /\ iTicks \in Nat /\ TickMs \in Nat /\ TickMs > 0 /\ interval \in [Timers -> Nat]
    BY Zenon, <2>0, TypeFacts, ConstantFacts
  <2>2. base <= now
    <3>1. iTicks * TickMs \in Nat /\ base + iTicks * TickMs <= now
      BY <2>0, <2>1 DEF ClockInv
    <3> QED
      BY <2>1, <3>1
  <2>3. ASSUME UNCHANGED <<base, curTick, offset, place, trigger, interval, due>>,
               now' \in 0..MaxNow, iTicks' \in Nat, base + iTicks' * TickMs <= now'
        PROVE  WheelInv'
    <3>1. WheelType'
      BY Zenon, <2>0, <2>3 DEF WheelType
    <3>2. ClockInv'
      BY Zenon, <2>3 DEF ClockInv
    <3>3. PlaceInv'
      BY Zenon, <2>0, <2>3 DEF PlaceInv
    <3>4. DueInv'
      BY Zenon, <2>0, <2>3 DEF DueInv, Wheel!InWheel
    <3> QED
      BY Zenon, <3>1, <3>2, <3>3, <3>4 DEF WheelInv
  <2>4. CASE Wheel!Advance
    <3>1. now' = now + 1 /\ now < MaxNow /\ iTicks' = iTicks
          /\ UNCHANGED <<base, curTick, offset, place, trigger, interval, due>>
      BY <2>4 DEF Wheel!Advance
    <3>2. now' \in 0..MaxNow
      BY <2>1, <3>1
    <3>3. base + iTicks' * TickMs <= now'
      <4>1. iTicks * TickMs \in Nat /\ base + iTicks * TickMs <= now
        BY <2>0, <2>1 DEF ClockInv
      <4>2. base + iTicks * TickMs <= now + 1
        BY <2>1, <4>1
      <4> QED
        BY Zenon, <3>1, <4>2
    <3> QED
      BY Zenon, <2>1, <2>3, <3>1, <3>2, <3>3
  <2>5. CASE Wheel!Update
    <3>1. now' = now /\ iTicks' = (now - base) \div TickMs /\ now > base
          /\ UNCHANGED <<base, curTick, offset, place, trigger, interval, due>>
      BY <2>5 DEF Wheel!Update
    <3>2. now - base \in Nat /\ now' \in 0..MaxNow
      BY <2>1, <2>2, <3>1
    <3> DEFINE q == (now - base) \div TickMs
    <3>3. q \in Nat /\ q * TickMs <= now - base
      BY Zenon, <2>1, <3>2, DivFacts
    <3>4. iTicks' = q
      BY Zenon, <3>1
    <3> HIDE DEF q
    <3>5. q * TickMs \in Nat
      BY <2>1, <3>3
    <3>6. base + q * TickMs <= now
      BY <2>1, <3>3, <3>5
    <3>7. iTicks' \in Nat /\ base + iTicks' * TickMs <= now'
      BY Zenon, <3>1, <3>3, <3>4, <3>6
    <3> QED
      BY Zenon, <2>3, <3>1, <3>2, <3>7
  <2>6. CASE Wheel!run_tick
    BY Zenon, <2>6, TickStep
  <2>7. ASSUME NEW t \in Timers, Wheel!OnTimer(t)
        PROVE  WheelInv'
    <3>1. place[t] # Wheel!Idle /\ UNCHANGED <<Wheel!clockVars, trigger, interval, due>>
      BY Zenon, <2>7, PlaceFacts DEF Wheel!OnTimer
    <3>2. \/ place' = [place EXCEPT ![t] = Wheel!Idle]
          \/ place' = [place EXCEPT ![t] = Wheel!Running]
      BY Zenon, <2>7 DEF Wheel!OnTimer
    <3>3. CASE place' = [place EXCEPT ![t] = Wheel!Idle]
      BY Zenon, <3>1, <3>3, LeaveStep
    <3>4. CASE place' = [place EXCEPT ![t] = Wheel!Running]
      BY Zenon, <3>1, <3>4, LeaveStep
    <3> QED
      BY Zenon, <3>2, <3>3, <3>4
  <2>8. ASSUME NEW t \in Timers, Wheel!RemoveTimer(t)
        PROVE  WheelInv'
    <3>1. place[t] # Wheel!Idle /\ place' = [place EXCEPT ![t] = Wheel!Idle]
          /\ UNCHANGED <<Wheel!clockVars, trigger, interval, due>>
      BY Zenon, <2>8 DEF Wheel!RemoveTimer, Wheel!InWheel
    <3> QED
      BY Zenon, <3>1, LeaveStep
  <2>9. ASSUME NEW t \in Timers, Wheel!Renew(t)
        PROVE  WheelInv'
    <3> DEFINE ms == interval[t]
               k == Wheel!milling2tick(ms)
    <3>1. /\ place[t] = Wheel!Running /\ Wheel!Arm(t, ms, k) /\ UNCHANGED Wheel!clockVars
          /\ due' = [due EXCEPT ![t] = base + ms]
      BY Zenon, <2>9 DEF Wheel!Renew
    <3>2. ms \in Nat /\ ms > 0
      BY Zenon, <2>0, <2>1, <3>1, PlaceFacts DEF DueInv
    <3>3. k \in Nat /\ ms <= k * TickMs
      BY Zenon, <3>2, TicksCover
    <3> HIDE DEF ms, k
    <3>4. k * TickMs \in Nat /\ base + ms \in Nat
      BY <2>1, <3>2, <3>3
    <3>5. base + ms <= base + k * TickMs
      BY <2>1, <3>2, <3>3, <3>4
    <3> QED
      BY Zenon, <3>1, <3>2, <3>3, <3>4, <3>5, ArmStep
  <2>10. ASSUME NEW t \in Timers, NEW ms \in Delays, Wheel!AddTimer(t, ms)
         PROVE  WheelInv'
    <3> DEFINE k == Wheel!TicksFromNow(ms)
    <3>1. Wheel!Arm(t, ms, k) /\ UNCHANGED Wheel!clockVars /\ due' = [due EXCEPT ![t] = now + ms]
      BY Zenon, <2>10 DEF Wheel!AddTimer
    <3>2. ms \in Nat /\ ms > 0
      BY WheelAssumption
    <3>3. k \in Nat /\ now + ms <= base + k * TickMs
      BY Zenon, <2>1, <2>2, <3>2, TicksCover
    <3>4. now + ms \in Nat
      BY <2>1, <3>2
    <3> HIDE DEF k
    <3> QED
      BY Zenon, <3>1, <3>2, <3>3, <3>4, ArmStep
  <2>11. CASE UNCHANGED Wheel!vars
    <3>1. UNCHANGED <<now, base, curTick, offset, place, trigger, interval, iTicks, due>>
      BY Zenon, <2>11 DEF Wheel!vars
    <3>2. now' \in 0..MaxNow /\ base + iTicks' * TickMs <= now'
      BY Zenon, <2>0, <3>1 DEF WheelType, ClockInv
    <3> QED
      BY Zenon, <2>1, <2>3, <3>1, <3>2
  <2> QED
    BY Zenon, <2>4, <2>5, <2>6, <2>7, <2>8, <2>9, <2>10, <2>11 DEF Wheel!Next
<1> QED
  BY <1>1, <1>2, PTL DEF WheelSpec, Wheel!Spec

\* No timer fires before its interval has elapsed on the monotonic clock, nor before its trigger
\* tick (Update, TicksFromNow: "向上取整到到期 tick，不会提前触发").
THEOREM TimerNeverEarly == WheelSpec => []NeverEarly
<1>1. WheelInv => NeverEarly
  <2> SUFFICES ASSUME WheelInv, NEW t \in Timers, place[t] = Wheel!Due
               PROVE  now >= due[t] /\ curTick >= trigger[t]
    BY DEF NeverEarly, Wheel!NotEarly
  <2>1. due[t] <= base /\ trigger[t] <= curTick
    BY Zenon DEF WheelInv, DueInv
  <2>2. /\ now \in Nat /\ base \in Nat /\ iTicks \in Nat /\ TickMs \in Nat /\ curTick \in Nat
        /\ due[t] \in Nat /\ trigger[t] \in Nat
    BY TypeFacts, ConstantFacts DEF WheelInv
  <2>3. base + iTicks * TickMs <= now /\ iTicks * TickMs \in Nat
    BY <2>2 DEF WheelInv, ClockInv
  <2> QED
    BY <2>1, <2>2, <2>3
<1> QED
  BY <1>1, WheelInvariant, PTL

\* No timer is passed over: none in the wheel is past its trigger tick, and one that is taken
\* is at most one tick late (try_uniform, add_timer); every offset and place is in range.
THEOREM TimerNeverLate == WheelSpec => []NeverLate
<1>1. WheelInv => NeverLate
  <2> SUFFICES ASSUME WheelInv
               PROVE  Wheel!TypeOK /\ Wheel!NotLate
    BY DEF NeverLate
  <2>0. WheelType /\ ClockInv /\ PlaceInv /\ DueInv
    BY Zenon DEF WheelInv
  <2>1. /\ now \in Nat /\ now <= MaxNow /\ MaxNow \in Nat /\ base \in Nat /\ curTick \in Nat
        /\ iTicks \in Nat /\ TickMs \in Nat /\ offset \in Offsets
        /\ trigger \in [Timers -> Nat]
    BY Zenon, <2>0, TypeFacts, ConstantFacts
  <2>2. base + iTicks * TickMs <= now /\ iTicks * TickMs \in Nat
    BY <2>0, <2>1 DEF ClockInv
  <2>3. now \in 0..MaxNow /\ base \in 0..MaxNow
    BY <2>1, <2>2
  <2>4. \A t \in Timers : Wheel!InWheel(t) =>
          \E l \in Wheel!Levels : \E s \in 0..(MaxTick[l] - 1) : place[t] = <<l, s>>
    BY Zenon, <2>0, InSlot, PlaceFacts
  <2>5. Wheel!TypeOK
    BY Zenon, <2>0, <2>1, <2>3, <2>4 DEF Wheel!TypeOK, WheelType, Offsets
  <2>6. ASSUME NEW t \in Timers, Wheel!InWheel(t)
        PROVE  curTick <= trigger[t]
    <3>1. PICK l \in Wheel!Levels : \E s \in 0..(MaxTick[l] - 1) : place[t] = <<l, s>>
      BY Zenon, <2>4, <2>6
    <3>2. PICK s \in 0..(MaxTick[l] - 1) : place[t] = <<l, s>>
      BY Zenon, <3>1
    <3>3. Placed(offset, curTick, l, s, trigger[t]) /\ trigger[t] \in Nat
      BY Zenon, <2>0, <2>1, <3>2 DEF PlaceInv
    <3> QED
      BY Zenon, <2>1, <3>3, PlacedNotPast
  <2>7. \A t \in Timers : place[t] = Wheel!Due => curTick <= trigger[t] + 1
    BY Zenon, <2>0 DEF DueInv
  <2> QED
    BY Zenon, <2>5, <2>6, <2>7 DEF Wheel!NotLate
<1> QED
  BY <1>1, WheelInvariant, PTL
=============================================================================
