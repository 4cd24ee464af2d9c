----------------------------- MODULE RedisServer ----------------------------
(***************************************************************************)
(* The Redis proxy (modules/redisserver): the commands of many sessions go *)
(* to one upstream link in order, each takes credit until its reply, and a *)
(* session whose command finds no credit is paused and resumed later.      *)
(*                                                                         *)
(* One thread runs everything; ProcessInput and Resume are loops, and poll *)
(* says where the thread is in them.  A command is its length; one that is *)
(* longer than the limit stands for every input ScanCommand or             *)
(* ChangesConnection rejects.  hiredis is external: it calls OnReply once  *)
(* for each accepted command, in order, with no reply when the link breaks.*)
(***************************************************************************)
EXTENDS Integers, Sequences, Functions

CONSTANTS
  Sessions,
  Lengths,             \* of a command
  m_iMaxPendingBytes, m_iMaxPendingCommands,
  iBudget,             \* commands of a session that OnDataIn takes before it yields
  MaxInput             \* bound: complete commands in an input buffer

VARIABLES
  session,             \* "open", "closed" (out of the map) or "deleted"
  stInputBuffer,       \* the complete commands of a session
  partial,             \* whether the beginning of another follows
  m_bReadPaused,
  vPending, iPendingBytes, vPaused, vReady, bResuming, bResumeArmed,   \* RedisLink
  up, bDialing,        \* pAsyncContext is set; the reconnect timer is armed
  hiredis,             \* the commands hiredis has to call back, in order
  poll                 \* the loops under way

linkVars == <<vPending, iPendingBytes, hiredis>>
pauseVars == <<m_bReadPaused, vPaused, vReady, bResumeArmed>>
vars == <<session, stInputBuffer, partial, linkVars, pauseVars, bResuming, up, bDialing, poll>>

NoOne == "none"
Idle == [at |-> "idle", sid |-> NoOne, budget |-> 0, consumed |-> FALSE,
         remaining |-> 0, progress |-> FALSE]

Init ==
  /\ session = [s \in Sessions |-> "open"] /\ stInputBuffer = [s \in Sessions |-> <<>>]
  /\ partial = [s \in Sessions |-> FALSE] /\ m_bReadPaused = [s \in Sessions |-> FALSE]
  /\ vPending = <<>> /\ iPendingBytes = 0 /\ hiredis = <<>>
  /\ vPaused = {} /\ vReady = <<>> /\ bResuming = FALSE /\ bResumeArmed = FALSE
  /\ up = TRUE /\ bDialing = FALSE /\ poll = Idle

SumBytes(pending) ==
  LET sum[n \in 0..Len(pending)] == IF n = 0 THEN 0 ELSE sum[n - 1] + pending[n].bytes
  IN sum[Len(pending)]

\* What one read brings.
Reads == UNION {[1..n -> Lengths] : n \in 0..MaxInput}

\* ArmResume, with the values its caller leaves: at most half of the credit is taken.
ArmResume(paused, pending, bytes) ==
  bResumeArmed' = (bResumeArmed \/ ( /\ paused # {}
                                     /\ bytes <= m_iMaxPendingBytes \div 2
                                     /\ Len(pending) <= m_iMaxPendingCommands \div 2 ))

-----------------------------------------------------------------------------
(***************************************************************************)
(* ProcessInput.                                                           *)
(***************************************************************************)
OnDataIn(s, more, rest) ==
  /\ poll = Idle /\ session[s] = "open" /\ (more # <<>> \/ (rest /\ ~partial[s]))
  /\ Len(stInputBuffer[s]) + Len(more) <= MaxInput
  /\ stInputBuffer' = [stInputBuffer EXCEPT ![s] = @ \o more]
  /\ partial' = [partial EXCEPT ![s] = rest]
  /\ poll' = IF m_bReadPaused[s] THEN Idle
             ELSE [Idle EXCEPT !.at = "input", !.sid = s, !.budget = iBudget]
  /\ UNCHANGED <<session, linkVars, pauseVars, bResuming, up, bDialing>>

\* A command that is refused: while others wait, or without credit.
Refused(length) ==
  /\ up
  /\ \/ ~bResuming /\ vPaused # {}
     \/ Len(vPending) >= m_iMaxPendingCommands
     \/ length > m_iMaxPendingBytes - iPendingBytes

\* The loop ends: nothing complete is left, or the session is closed.
InputEnds ==
  /\ poll.at = "input" /\ (stInputBuffer[poll.sid] = <<>> \/ session[poll.sid] # "open")
  /\ poll' = IF bResuming THEN [poll EXCEPT !.at = "resumed"] ELSE Idle
  /\ UNCHANGED <<session, stInputBuffer, partial, linkVars, pauseVars, bResuming, up, bDialing>>

\* Pause: the session joins the queue, and the loop ends.
Pause(s) ==
  /\ m_bReadPaused' = [m_bReadPaused EXCEPT ![s] = TRUE]
  /\ vPaused' = vPaused \cup {s}
  /\ vReady' = IF s \in vPaused THEN vReady ELSE Append(vReady, s)
  /\ IF bResuming THEN UNCHANGED bResumeArmed
     ELSE ArmResume(vPaused', vPending', iPendingBytes')

\* The input is not a command the proxy forwards: PassiveClose.
InputRejected ==
  LET s == poll.sid IN
  /\ poll.at = "input" /\ session[s] = "open" /\ stInputBuffer[s] # <<>>
  /\ Head(stInputBuffer[s]) > m_iMaxPendingBytes
  /\ session' = [session EXCEPT ![s] = "closed"]
  /\ UNCHANGED <<stInputBuffer, partial, linkVars, pauseVars, bResuming, up, bDialing, poll>>

\* Issue returns false.
IssueRefused ==
  LET s == poll.sid IN
  /\ poll.at = "input" /\ session[s] = "open" /\ stInputBuffer[s] # <<>>
  /\ Head(stInputBuffer[s]) <= m_iMaxPendingBytes /\ Refused(Head(stInputBuffer[s]))
  /\ UNCHANGED linkVars
  /\ Pause(s)
  /\ poll' = IF bResuming THEN [poll EXCEPT !.at = "resumed"] ELSE Idle
  /\ UNCHANGED <<session, stInputBuffer, partial, bResuming, up, bDialing>>

\* hiredis refuses the command: the credit is given back.
Rollback(s, length) == UNCHANGED <<vPending, iPendingBytes>>

\* Issue takes the command: it is forwarded, refused by hiredis (the session is closed), or
\* answered with an error at once because the link is down; then the budget of the loop.
Issue(taken, sent) ==
  LET s == poll.sid
      length == Head(stInputBuffer[s])
      rest == Tail(stInputBuffer[s])
      yield == poll.budget = 1 /\ (rest # <<>> \/ partial[s]) /\ session'[s] = "open"
      after == [poll EXCEPT !.consumed = @ \/ session'[s] = "open", !.budget = @ - 1]
  IN
  /\ poll.at = "input" /\ session[s] = "open" /\ stInputBuffer[s] # <<>>
  /\ length <= m_iMaxPendingBytes /\ ~Refused(length)
  /\ stInputBuffer' = [stInputBuffer EXCEPT ![s] = rest]
  /\ IF up /\ taken
     THEN /\ vPending' = Append(vPending, [sid |-> s, bytes |-> length])
          /\ iPendingBytes' = iPendingBytes + length
          /\ hiredis' = Append(hiredis, [sid |-> s, bytes |-> length])
     ELSE IF up THEN Rollback(s, length) /\ UNCHANGED hiredis
     ELSE UNCHANGED linkVars
  /\ session' = IF (up /\ taken) \/ (~up /\ sent) THEN session
                ELSE [session EXCEPT ![s] = "closed"]
  /\ IF yield
     THEN Pause(s) /\ poll' = IF bResuming THEN [after EXCEPT !.at = "resumed"] ELSE Idle
     ELSE UNCHANGED pauseVars /\ poll' = after
  /\ UNCHANGED <<partial, bResuming, up, bDialing>>

-----------------------------------------------------------------------------
(***************************************************************************)
(* Resume.                                                                 *)
(***************************************************************************)
Resume ==
  /\ poll = Idle /\ bResumeArmed /\ bResumeArmed' = FALSE /\ bResuming' = TRUE
  /\ poll' = [Idle EXCEPT !.at = "resume", !.remaining = Len(vReady)]
  /\ UNCHANGED <<session, stInputBuffer, partial, linkVars, m_bReadPaused, vPaused, vReady, up,
                 bDialing>>

ResumeOver ==
  \/ poll.remaining = 0 \/ vReady = <<>>
  \/ Len(vPending) >= m_iMaxPendingCommands \/ iPendingBytes >= m_iMaxPendingBytes

\* One session is taken from the queue; one that is open goes on with one command.
ResumeNext ==
  LET s == Head(vReady) IN
  /\ poll.at = "resume" /\ ~ResumeOver
  /\ vReady' = Tail(vReady) /\ vPaused' = vPaused \ {s}
  /\ m_bReadPaused' = [m_bReadPaused EXCEPT ![s] = IF session[s] = "open" THEN FALSE ELSE @]
  /\ poll' = [poll EXCEPT !.remaining = @ - 1, !.sid = s, !.budget = 1, !.consumed = FALSE,
                          !.at = IF session[s] = "open" THEN "input" ELSE "resume"]
  /\ UNCHANGED <<session, stInputBuffer, partial, linkVars, bResumeArmed, bResuming, up, bDialing>>

\* std::erase of a queue.
Erase(queue, s) ==
  LET kept[n \in 0..Len(queue)] ==
        IF n = 0 THEN <<>>
        ELSE IF queue[n] = s THEN kept[n - 1] ELSE Append(kept[n - 1], queue[n])
  IN kept[Len(queue)]

\* Mutant: a session that got nothing goes to the end of the queue.
KeepTurn_Last(s) == Append(Erase(vReady, s), s)

\* A session that got nothing keeps its turn.
KeepTurn(s) == <<s>> \o Erase(vReady, s)

\* ResumeRead has returned.
Resumed ==
  LET s == poll.sid
      stuck == ~poll.consumed /\ s \in vPaused
  IN
  /\ poll.at = "resumed"
  /\ vReady' = IF stuck THEN KeepTurn(s) ELSE vReady
  /\ poll' = [poll EXCEPT !.at = "resume", !.remaining = IF stuck THEN 0 ELSE @,
                          !.progress = @ \/ poll.consumed]
  /\ UNCHANGED <<session, stInputBuffer, partial, linkVars, m_bReadPaused, vPaused, bResumeArmed,
                 bResuming, up, bDialing>>

\* Mutant: only a reply arms the next round.
RearmAfter_Never(progress) == FALSE

\* Whether the end of a round arms the next one.
RearmAfter(progress) == progress

ResumeEnds ==
  /\ poll.at = "resume" /\ ResumeOver /\ poll' = Idle /\ bResuming' = FALSE
  /\ IF RearmAfter(poll.progress) THEN ArmResume(vPaused, vPending, iPendingBytes)
     ELSE UNCHANGED bResumeArmed
  /\ UNCHANGED <<session, stInputBuffer, partial, linkVars, m_bReadPaused, vPaused, vReady, up,
                 bDialing>>

-----------------------------------------------------------------------------
(***************************************************************************)
(* The upstream link, and sessions that end.                               *)
(***************************************************************************)
\* OnReply: credit is given back first; a session that cannot take the reply is closed.
OnReply(sent) ==
  /\ poll = Idle /\ hiredis # <<>> /\ hiredis' = Tail(hiredis)
  /\ vPending' = Tail(vPending) /\ iPendingBytes' = iPendingBytes - Head(vPending).bytes
  /\ ArmResume(vPaused, vPending', iPendingBytes')
  /\ session' = [session EXCEPT ![Head(vPending).sid] =
                  IF sent \/ @ # "open" THEN @ ELSE "closed"]
  /\ UNCHANGED <<stInputBuffer, partial, m_bReadPaused, vPaused, vReady, bResuming, up, bDialing,
                 poll>>

\* The link breaks, or its connect fails: hiredis calls every command back without a reply
\* (OnReply), and OnDisconnect or OnConnect arms the reconnect.
OnDisconnect ==
  /\ poll = Idle /\ up /\ up' = FALSE /\ bDialing' = TRUE
  /\ hiredis' = <<>>
  /\ vPending' = SubSeq(vPending, Len(hiredis) + 1, Len(vPending))
  /\ iPendingBytes' = iPendingBytes - SumBytes(SubSeq(vPending, 1, Len(hiredis)))
  /\ IF hiredis = <<>> THEN UNCHANGED bResumeArmed
     ELSE ArmResume(vPaused, vPending', iPendingBytes')
  /\ UNCHANGED <<session, stInputBuffer, partial, m_bReadPaused, vPaused, vReady, bResuming, poll>>

\* The timer of ArmReconnect: Open, which may arm it again.
Open(ok) ==
  /\ poll = Idle /\ bDialing /\ bDialing' = ~ok /\ up' = ok
  /\ UNCHANGED <<session, stInputBuffer, partial, linkVars, pauseVars, bResuming, poll>>

CloseSession(s) ==
  /\ poll = Idle /\ session[s] = "open" /\ session' = [session EXCEPT ![s] = "closed"]
  /\ UNCHANGED <<stInputBuffer, partial, linkVars, pauseVars, bResuming, up, bDialing, poll>>

\* The session object is gone with its buffer.
OnDelSession(s) ==
  /\ poll = Idle /\ session[s] = "closed" /\ session' = [session EXCEPT ![s] = "deleted"]
  /\ vPaused' = vPaused \ {s} /\ vReady' = Erase(vReady, s)
  /\ stInputBuffer' = [stInputBuffer EXCEPT ![s] = <<>>]
  /\ partial' = [partial EXCEPT ![s] = FALSE]
  /\ m_bReadPaused' = [m_bReadPaused EXCEPT ![s] = FALSE]
  /\ UNCHANGED <<linkVars, bResumeArmed, bResuming, up, bDialing, poll>>

Loops ==
  \/ InputEnds \/ InputRejected \/ IssueRefused
  \/ \E taken, sent \in BOOLEAN : Issue(taken, sent)
  \/ ResumeNext \/ Resumed \/ ResumeEnds

Next ==
  \/ Loops \/ Resume \/ OnDisconnect
  \/ \E s \in Sessions : CloseSession(s) \/ OnDelSession(s)
  \/ \E s \in Sessions, more \in Reads, rest \in BOOLEAN :
       OnDataIn(s, more, rest)
  \/ \E sent \in BOOLEAN : OnReply(sent)
  \/ \E ok \in BOOLEAN : Open(ok)

Spec == Init /\ [][Next]_vars

\* The thread finishes its loops; each of its rounds runs what is posted and looks at the link,
\* whatever else it finds to do, and Redis answers while the link is up.
FairSpec ==
  /\ Spec /\ WF_vars(Loops) /\ SF_vars(Resume) /\ SF_vars(\E sent \in BOOLEAN : OnReply(sent))

-----------------------------------------------------------------------------
(***************************************************************************)
(* Properties.                                                             *)
(***************************************************************************)
\* The accounts of the link are those of hiredis: the n-th command that waits for its reply is
\* the n-th that hiredis will call back, so that a reply goes to the session that asked, and
\* the credit taken is exactly theirs and within the limits (redis_server.cpp:210, 515).
CreditExact ==
  /\ vPending = hiredis /\ iPendingBytes = SumBytes(vPending)
  /\ iPendingBytes <= m_iMaxPendingBytes /\ Len(vPending) <= m_iMaxPendingCommands

\* No session stays paused with nobody to resume it: between two events, if an open session
\* is paused, it is queued, and a round is posted or a reply that will post one is
\* outstanding (redis_server.cpp:407, 429, 483).
PausedIsAttended ==
  poll = Idle =>
    \A s \in Sessions : session[s] = "open" /\ m_bReadPaused[s] =>
      s \in vPaused /\ s \in Range(vReady) /\ (bResumeArmed \/ vPending # <<>>)

\* A session that is paused is resumed: it gets a command through, or all of its input, even
\* if its next command is long and other sessions go on sending short ones
\* (redis_server.cpp:473).
PausedIsResumed ==
  \A s \in Sessions : m_bReadPaused[s] /\ session[s] = "open" ~>
    \/ session[s] # "open"
    \/ poll = Idle /\ ~m_bReadPaused[s]
    \/ poll.sid = s /\ poll.consumed
=============================================================================
