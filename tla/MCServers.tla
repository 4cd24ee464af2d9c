----------------------------- MODULE MCServers ------------------------------
(***************************************************************************)
(* TLC instance of two servers: the server side of RPC and the registry.   *)
(* A behaviour is one of either, and system says which.                    *)
(***************************************************************************)
EXTENDS RpcServer

CONSTANTS Addresses, MaxSid, MaxOutstanding, MaxFaults     \* of RegistryServer

VARIABLES
  system,
  \* RegistryServer
  m_vAlive, m_mBindings, m_vSnapshot, m_bReloading, sids, address, sent, replies, redis,
  failures, lapses

registryVars ==
  <<m_vAlive, m_mBindings, m_vSnapshot, m_bReloading, sids, address, sent, replies, redis,
    failures, lapses>>

R == INSTANCE RegistryServer

\* Of RegistryServer: no address is the value that stands for none.
ASSUME RegistryAssumption == R!None \notin Addresses /\ MaxSid \in Nat

allVars == <<system, vars, registryVars>>

InitAll == system \in {"rpc", "registry"} /\ Init /\ R!Init

RpcNext == system = "rpc" /\ Next /\ UNCHANGED <<system, registryVars>>
RegistryNext == system = "registry" /\ R!Next /\ UNCHANGED <<system, vars>>
NextAll == RpcNext \/ RegistryNext

\* The fairness of R!FairSpec, in its own behaviours.
Fairness ==
  /\ WF_registryVars(system = "registry" /\ R!Execute)
  /\ WF_registryVars(system = "registry" /\ R!GoOn)
  /\ SF_registryVars(system = "registry" /\ R!StartReload)
  /\ WF_registryVars(system = "registry" /\ R!Expire)
  /\ \A n \in R!Sids : SF_registryVars(system = "registry" /\ R!HandleHeartbeat(n))

SpecAll == InitAll /\ [][NextAll]_allVars /\ Fairness

-----------------------------------------------------------------------------
\* RegistryServer: no key is left without anybody to withdraw it (registry_server.cpp:380).
NoOrphanKey == R!NoOrphanKey

\* RegistryServer: the snapshot converges to what is registered (registry_server.cpp:325).
SnapshotConverges == R!SnapshotConverges
=============================================================================
