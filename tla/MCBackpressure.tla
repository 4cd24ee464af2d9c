--------------------------- MODULE MCBackpressure ---------------------------
(***************************************************************************)
(* TLC instance of the two services that stop reading from a session when  *)
(* they have no room and must read on later: the Redis proxy and the log   *)
(* server.  They do not interact: a behaviour is one of either, and        *)
(* service says which.                                                     *)
(***************************************************************************)
EXTENDS MCRedisServer, MCLogServer

VARIABLE service

bothVars == <<service, redisVars, logVars>>

InitBoth == service \in {"redis", "log"} /\ P!Init /\ L!Init

RedisNext == service = "redis" /\ P!Next /\ UNCHANGED <<service, logVars>>
LogNext == service = "log" /\ L!Next /\ UNCHANGED <<service, redisVars>>
NextBoth == RedisNext \/ LogNext

\* The fairness of P!FairSpec and of L!FairSpec, each in its own behaviours.
FairnessBoth ==
  /\ WF_redisVars(service = "redis" /\ P!Loops) /\ SF_redisVars(service = "redis" /\ P!Resume)
  /\ SF_redisVars(service = "redis" /\ \E sent \in BOOLEAN : P!OnReply(sent))
  /\ SF_logVars(service = "log" /\ L!Threads) /\ WF_logVars(service = "log" /\ L!Writer)

SpecBoth == InitBoth /\ [][NextBoth]_bothVars /\ FairnessBoth
=============================================================================
