----------------------------- MODULE SessionIo ------------------------------
(***************************************************************************)
(* One TCP session between the threads that use it and the poll thread:    *)
(* the map and the references of SessionManager, the send queue of Session,*)
(* the event mask of Channel, the queue of operations of Poll, and the     *)
(* handlers of TCP_Channel.                                                *)
(*                                                                         *)
(* Whatever the code does under the session's lock is one step.  The lock  *)
(* of the channel is only taken inside it, and the poll thread reads the   *)
(* mask without it: a sender that has changed the mask posts its MOD       *)
(* before it unlocks.  OnSessionClosed and OnDelSession of the subclasses  *)
(* belong to the modules of the clients.  A message is MessageBytes bytes  *)
(* that carry the name of their sender.                                    *)
(***************************************************************************)
EXTENDS Integers, Sequences, FiniteSets

CONSTANTS
  Senders,             \* threads, each with one SendBytesResult
  Closers,             \* threads, each with one CloseSession
  Poll,                \* the name of the poll thread as a sender (a reply from OnDataIn)
  MessageBytes,
  iMaxSendQueueBytes

\* A length is a size_t, and no sender has the name of the channel's reference.
ASSUME SessionIoAssumption == MessageBytes \in Nat /\ "channel" \notin Senders

VARIABLES
  mapped,              \* the session is in mSessionMap
  iStatus, pChannel, stOutputBuffer, iQueuedBytes,     \* Session
  iReferences,         \* who holds a reference to the session
  iEventMask,          \* Channel
  watch,               \* IoWatch: the mask uv polls for, data # NULL, and its life
  g_ops, iRemaining,   \* Poll: the queue, and what DrainOps has still to take from it
  poll,                \* where the poll thread is
  writable,            \* the events of this OnPoll include UV_WRITABLE
  chanOut,             \* stOutputBuffer of the channel
  wire,                \* the bytes the socket has taken
  thread,              \* where a sender or closer is
  accepted,            \* history: the bytes SendResult has said OI_OK for
  deleted              \* OnDelSession has run

sessionVars == <<iStatus, pChannel>>
queueVars == <<stOutputBuffer, iQueuedBytes, accepted>>
eventVars == <<iEventMask, watch>>
opVars == <<g_ops, iRemaining>>
outVars == <<chanOut, wire>>
vars == <<mapped, sessionVars, queueVars, iReferences, eventVars, opVars, poll, writable,
          outVars, thread, deleted>>

READ == "READ"
WRITE == "WRITE"
IsClosed == iStatus # "CONNECTED"

\* AddSession has registered the channel for reading and put the session into the map.
Init ==
  /\ mapped = TRUE
  /\ iStatus = "CONNECTED" /\ pChannel = TRUE /\ iReferences = {"channel"}
  /\ stOutputBuffer = <<>> /\ iQueuedBytes = 0 /\ accepted = <<>>
  /\ iEventMask = {READ} /\ watch = [mask |-> {READ}, data |-> TRUE, state |-> "open"]
  /\ g_ops = <<>> /\ iRemaining = 0
  /\ poll = "idle" /\ writable = FALSE /\ chanOut = <<>> /\ wire = <<>>
  /\ thread = [t \in Senders \cup Closers \cup {Poll} |-> "new"]
  /\ deleted = FALSE

Goto(t, pc) == thread' = [thread EXCEPT ![t] = pc]

-----------------------------------------------------------------------------
(***************************************************************************)
(* The mask of the channel.  On the poll thread uv follows at once; any    *)
(* other thread queues a MOD.                                              *)
(***************************************************************************)
IOEventMod(onLoop, mask) ==
  /\ iEventMask' = mask
  /\ IF onLoop
     THEN /\ watch' = [watch EXCEPT !.mask = IF watch.data THEN mask ELSE @]
          /\ UNCHANGED opVars
     ELSE /\ g_ops' = Append(g_ops, [op |-> "MOD", mask |-> mask])
          /\ UNCHANGED <<watch, iRemaining>>

AllowSend(onLoop) ==
  IF pChannel /\ WRITE \notin iEventMask
  THEN IOEventMod(onLoop, iEventMask \cup {WRITE})
  ELSE UNCHANGED <<eventVars, opVars>>

\* NetSession::Close: the write event makes the poll thread come round and reclaim it.
Close(onLoop) ==
  IF IsClosed THEN UNCHANGED <<sessionVars, eventVars, opVars>>
  ELSE iStatus' = "WILL_CLOSE" /\ UNCHANGED pChannel /\ AllowSend(onLoop)

-----------------------------------------------------------------------------
(***************************************************************************)
(* Senders and closers.                                                    *)
(***************************************************************************)
\* SendBytesResult, under the manager's lock: find the session and hold it.
Find(t) ==
  /\ t \in Senders /\ thread[t] = "new"
  /\ IF mapped
     THEN Goto(t, "found") /\ iReferences' = iReferences \cup {t}
     ELSE Goto(t, "refused") /\ UNCHANGED iReferences
  /\ UNCHANGED <<mapped, sessionVars, queueVars, eventVars, opVars, poll, writable, outVars,
                 deleted>>

\* Session::SendResult.
SendResult(t, onLoop) ==
  IF IsClosed \/ MessageBytes > iMaxSendQueueBytes - iQueuedBytes
  THEN Goto(t, "refused") /\ UNCHANGED <<queueVars, eventVars, opVars>>
  ELSE LET bytes == [i \in 1..MessageBytes |-> t] IN
       /\ stOutputBuffer' = stOutputBuffer \o bytes
       /\ iQueuedBytes' = iQueuedBytes + MessageBytes
       /\ accepted' = accepted \o bytes
       /\ Goto(t, "accepted")
       /\ AllowSend(onLoop)

\* SendBytesResult after the lookup: send, then release the session.
Send(t) ==
  /\ t \in Senders /\ thread[t] = "found"
  /\ SendResult(t, FALSE)
  /\ iReferences' = iReferences \ {t}
  /\ UNCHANGED <<mapped, sessionVars, poll, writable, outVars, deleted>>

\* CloseSession of a worker: out of the map and closed, in one step of the manager's lock.
CloseSession(t) ==
  /\ t \in Closers /\ thread[t] = "new"
  /\ Goto(t, "closed")
  /\ IF mapped
     THEN mapped' = FALSE /\ Close(FALSE)
     ELSE UNCHANGED <<mapped, sessionVars, eventVars, opVars>>
  /\ UNCHANGED <<queueVars, iReferences, poll, writable, outVars, deleted>>

-----------------------------------------------------------------------------
(***************************************************************************)
(* The poll thread: queued operations.                                     *)
(***************************************************************************)
DrainOps ==
  /\ poll = "idle" /\ g_ops # <<>>
  /\ iRemaining' = Len(g_ops) /\ poll' = "drain"
  /\ UNCHANGED <<mapped, sessionVars, queueVars, iReferences, eventVars, g_ops, writable,
                 outVars, thread, deleted>>

\* Mutant: a MOD applies the mask it was queued with.
ModMask_Queued(op) == op.mask

\* The mask that a MOD gives to uv: the channel's mask of this moment.
ModMask(op) == iEventMask

\* A MOD for a watch that was unregistered meanwhile does nothing.
ApplyOp ==
  /\ poll = "drain"
  /\ g_ops' = Tail(g_ops) /\ iRemaining' = iRemaining - 1
  /\ poll' = IF iRemaining = 1 THEN "idle" ELSE "drain"
  /\ watch' =
       IF Head(g_ops).op = "MOD"
       THEN [watch EXCEPT !.mask = IF watch.data THEN ModMask(Head(g_ops)) ELSE @]
       ELSE [watch EXCEPT !.state = "closing"]
  /\ UNCHANGED <<mapped, sessionVars, queueVars, iReferences, iEventMask, writable, outVars,
                 thread, deleted>>

\* uv has closed the handle: the descriptor is closed and the watch freed.
CloseWatch ==
  /\ poll = "idle" /\ watch.state = "closing"
  /\ watch' = [watch EXCEPT !.state = "freed"]
  /\ UNCHANGED <<mapped, sessionVars, queueVars, iReferences, iEventMask, opVars, poll,
                 writable, outVars, thread, deleted>>

-----------------------------------------------------------------------------
(***************************************************************************)
(* The poll thread: an event of the socket.                                *)
(***************************************************************************)
\* An error is reported whatever the mask and leads to DataIn, too.
OnPoll(in, out) ==
  /\ poll = "idle" /\ watch.state = "open" /\ watch.data /\ watch.mask # {}
  /\ in \/ out
  /\ out => WRITE \in watch.mask
  /\ poll' = IF in THEN "in" ELSE "out"
  /\ writable' = out
  /\ UNCHANGED <<mapped, sessionVars, queueVars, iReferences, eventVars, opVars, outVars,
                 thread, deleted>>

AfterIn == IF writable THEN "out" ELSE "try"

\* TCP_Channel::DataIn reads to EAGAIN or to the end: OnDataIn answers, stops the reading,
\* or neither.
DataIn ==
  /\ poll = "in" /\ READ \in watch.mask /\ poll' \in {AfterIn, "eof"}
  /\ \/ thread[Poll] = "new" /\ SendResult(Poll, TRUE)
     \/ /\ ~IsClosed /\ READ \in iEventMask
        /\ IOEventMod(TRUE, iEventMask \ {READ})
        /\ UNCHANGED <<queueVars, thread>>
     \/ UNCHANGED <<queueVars, eventVars, opVars, thread>>
  /\ UNCHANGED <<mapped, sessionVars, iReferences, writable, outVars, deleted>>

\* The session wants to read again (AllowRead, from a callback of the loop).
AllowRead ==
  /\ poll = "idle" /\ pChannel /\ ~IsClosed /\ READ \notin iEventMask
  /\ IOEventMod(TRUE, iEventMask \cup {READ})
  /\ UNCHANGED <<mapped, sessionVars, queueVars, iReferences, poll, writable, outVars, thread,
                 deleted>>

\* PassiveClose under the session's lock, of DataIn at EOF or an error, of DataOut at an error.
PassiveClose ==
  /\ poll \in {"in", "eof", "sending"}
  /\ Close(TRUE)
  /\ poll' = IF poll = "sending" THEN "outclosed" ELSE "inclosed"
  /\ UNCHANGED <<mapped, queueVars, iReferences, writable, outVars, thread, deleted>>

\* The end of PassiveClose: CloseSession of the manager; ActiveClose finds it closed.
PassiveErase ==
  /\ poll \in {"inclosed", "outclosed"}
  /\ mapped' = FALSE
  /\ poll' = IF poll = "inclosed" THEN AfterIn ELSE "try"
  /\ UNCHANGED <<sessionVars, queueVars, iReferences, eventVars, opVars, writable, outVars,
                 thread, deleted>>

\* Mutant: the buffers are swapped though the channel's is not empty.
SwapOutBuff_Always ==
  /\ poll = "out" /\ poll' = "sending"
  /\ chanOut' = stOutputBuffer /\ stOutputBuffer' = <<>>
  /\ UNCHANGED <<mapped, sessionVars, iQueuedBytes, accepted, iReferences, eventVars, opVars,
                 writable, wire, thread, deleted>>

\* TCP_Channel::DataOut: SwapOutBuff.
SwapOutBuff ==
  /\ poll = "out" /\ poll' = "sending"
  /\ chanOut' = chanOut \o stOutputBuffer /\ stOutputBuffer' = <<>>
  /\ UNCHANGED <<mapped, sessionVars, iQueuedBytes, accepted, iReferences, eventVars, opVars,
                 writable, wire, thread, deleted>>

\* The socket takes n bytes; OnBytesSent.
SendSome(n) ==
  /\ poll = "sending" /\ n \in 1..Len(chanOut)
  /\ wire' = wire \o SubSeq(chanOut, 1, n)
  /\ chanOut' = SubSeq(chanOut, n + 1, Len(chanOut))
  /\ iQueuedBytes' = iQueuedBytes - n
  /\ UNCHANGED <<mapped, sessionVars, stOutputBuffer, accepted, iReferences, eventVars, opVars,
                 poll, writable, thread, deleted>>

\* EAGAIN.
WriteFull ==
  /\ poll = "sending" /\ chanOut # <<>> /\ poll' = "try"
  /\ UNCHANGED <<mapped, sessionVars, queueVars, iReferences, eventVars, opVars, writable,
                 outVars, thread, deleted>>

\* Mutant: an empty channel buffer is enough to stop writing.
Drained_ChannelOnly == ~IsClosed /\ WRITE \in iEventMask

\* When SendDrained turns the write event off.
Drained == stOutputBuffer = <<>> /\ ~IsClosed /\ WRITE \in iEventMask

SendDrained ==
  /\ poll = "sending" /\ chanOut = <<>> /\ poll' = "try"
  /\ IF Drained THEN IOEventMod(TRUE, iEventMask \ {WRITE}) ELSE UNCHANGED <<eventVars, opVars>>
  /\ UNCHANGED <<mapped, sessionVars, queueVars, iReferences, writable, outVars, thread, deleted>>

\* NetChannel::TryClose, up to DetachChannel.
TryClose ==
  /\ poll = "try"
  /\ IF IsClosed THEN pChannel' = FALSE /\ poll' = "destroy"
                 ELSE poll' = "idle" /\ UNCHANGED pChannel
  /\ UNCHANGED <<mapped, iStatus, queueVars, iReferences, eventVars, opVars, writable, outVars,
                 thread, deleted>>

\* IOEventUnRegister, then Destroy: DelSession, Release, delete the channel.
Destroy ==
  /\ poll = "destroy" /\ poll' = "idle"
  /\ watch' = [watch EXCEPT !.data = FALSE]
  /\ g_ops' = Append(g_ops, [op |-> "DEL", mask |-> {}])
  /\ deleted' = TRUE /\ iReferences' = iReferences \ {"channel"}
  /\ UNCHANGED <<mapped, sessionVars, queueVars, iEventMask, iRemaining, writable, outVars, thread>>

-----------------------------------------------------------------------------
Callback ==
  \/ DataIn \/ PassiveClose \/ PassiveErase \/ SwapOutBuff \/ WriteFull \/ SendDrained
  \/ TryClose \/ Destroy \/ \E n \in 1..Len(chanOut) : SendSome(n)

Next ==
  \/ \E t \in Senders : Find(t) \/ Send(t)
  \/ \E t \in Closers : CloseSession(t)
  \/ DrainOps \/ ApplyOp \/ CloseWatch \/ AllowRead \/ Callback
  \/ \E in, out \in BOOLEAN : OnPoll(in, out)

Spec == Init /\ [][Next]_vars

\* The loop runs, a writable socket is reported and in the end takes bytes.
FairSpec ==
  /\ Spec
  /\ WF_vars(ApplyOp) /\ WF_vars(Callback)
  /\ SF_vars(DrainOps) /\ SF_vars(\E in \in BOOLEAN : OnPoll(in, TRUE))
  /\ SF_vars(\E n \in 1..Len(chanOut) : SendSome(n))

-----------------------------------------------------------------------------
(***************************************************************************)
(* What a pointer leads to exists: a session in the map or held by a       *)
(* sender, a channel that a session may still touch, the watch of a queued *)
(* operation (oi_net_channel.cpp:21, the assertion of DelSession).         *)
(***************************************************************************)
PointersAlive ==
  /\ mapped => "channel" \in iReferences /\ ~deleted
  /\ pChannel => watch.data
  /\ g_ops # <<>> => watch.state = "open"

(***************************************************************************)
(* Between the socket, the channel and the session no byte is lost,        *)
(* doubled or reordered, and iQueuedBytes counts what is still queued, so  *)
(* that OnBytesSent never takes away more than there is.                   *)
(***************************************************************************)
BytesInOrder ==
  /\ wire \o chanOut \o stOutputBuffer = accepted
  /\ iQueuedBytes = Len(chanOut) + Len(stOutputBuffer)

(***************************************************************************)
(* uv polls for the channel's mask unless a MOD is queued behind it: a MOD *)
(* that lies in the queue while the poll thread changes the mask directly  *)
(* does not bring an old mask back (oi_poll.cpp:184).                      *)
(***************************************************************************)
MaskFollows ==
  watch.data /\ watch.mask # iEventMask => \E i \in DOMAIN g_ops : g_ops[i].op = "MOD"

\* What the queue of Poll and the channels owe each other, together: no operation finds its
\* watch gone, and none leaves uv with an old mask.
PollSound == PointersAlive /\ MaskFollows

(***************************************************************************)
(* A message that SendResult has accepted gets to the socket or the        *)
(* session is closed, and a closed session is reclaimed even when it is    *)
(* idle (oi_session.cpp:96, oi_channel.cpp:23).                            *)
(***************************************************************************)
IoProgress ==
  /\ \A t \in Senders \cup {Poll} :
       thread[t] = "accepted" ~> IsClosed \/ \E i \in DOMAIN wire : wire[i] = t
  /\ IsClosed ~> deleted
=============================================================================
