----------------------------- MODULE MCServices -----------------------------
(***************************************************************************)
(* Small instances, for TLC, of the services around the credential core:   *)
(* the PostgreSQL credential authority, the source witness, the file store,*)
(* the transactor, the HTTP transport of the outbox, the schema gate, the  *)
(* outbox transaction scope, the principal ledger, the HTTP edge, the      *)
(* anomaly engine, the failover transport, the agent cache, the key layout *)
(* and the provisioning rate limiter.                                      *)
(*                                                                         *)
(* They share no state.  The initial state picks the one that runs and the *)
(* others keep their initial states, so one run explores each by itself.   *)
(***************************************************************************)
EXTENDS CredentialAuthority, SourceWitness, FileStore, Transactor, HttpTransport,
        SchemaGate, OutboxScope, PrincipalSession, HttpEdge, Anomaly, Failover, AgentCache,
        KeyLayout, ProvisionLimiter

VARIABLE part

servicesVars == <<part, authorityVars, witnessVars, fileVars, transactorVars, httpVars,
                  gateVars, scopeVars, principalVars, edgeVars, anomalyVars, failoverVars,
                  cacheVars, layoutVars, limiterVars>>

MCLifecycle == {[maxRequests |-> 0, expiresAt |-> Never, usageWarn |-> 1, hotpWarn |-> 1]}
MCOffset    == {-2, 1}
MCLayoutOptions ==
  {[keyLength |-> Unset, minTumblers |-> Unset, maxTumblers |-> Unset],
   [keyLength |-> 36, minTumblers |-> 1, maxTumblers |-> 2],
   [keyLength |-> 45, minTumblers |-> 2, maxTumblers |-> 3],
   [keyLength |-> 44, minTumblers |-> Unset, maxTumblers |-> Unset],
   [keyLength |-> Unset, minTumblers |-> 6, maxTumblers |-> Unset],
   [keyLength |-> 19, minTumblers |-> Unset, maxTumblers |-> Unset],
   [keyLength |-> Unset, minTumblers |-> 3, maxTumblers |-> 2]}

Parts == {"authority", "witness", "file", "transactor", "transport", "schema", "scope",
          "principal", "edge", "admin", "anomaly", "failover", "cache", "layout", "limiter"}

ServicesInit ==
  /\ part \in Parts
  /\ AuthorityInit /\ WitnessInit /\ FileInit /\ TransactorInit /\ HttpInit /\ GateInit
  /\ ScopeInit /\ PrincipalInit /\ EdgeInit /\ AnomalyInit /\ FailoverInit /\ CacheInit
  /\ LayoutInit /\ LimiterInit
  /\ part # "schema" => mark.stamp = "none"
  /\ part # "layout" => asked.keyLength = 19

(* All but the part that runs.                                             *)
Others(p) ==
  /\ part = p /\ UNCHANGED part
  /\ p # "authority" => UNCHANGED authorityVars
  /\ p # "witness" => UNCHANGED witnessVars
  /\ p # "file" => UNCHANGED fileVars
  /\ p # "transactor" => UNCHANGED transactorVars
  /\ p # "transport" => UNCHANGED httpVars
  /\ p # "schema" => UNCHANGED gateVars
  /\ p # "scope" => UNCHANGED scopeVars
  /\ p # "principal" => UNCHANGED principalVars
  /\ p \notin {"edge", "admin"} => UNCHANGED edgeVars
  /\ p # "anomaly" => UNCHANGED anomalyVars
  /\ p # "failover" => UNCHANGED failoverVars
  /\ p # "cache" => UNCHANGED cacheVars
  /\ p # "layout" => UNCHANGED layoutVars
  /\ p # "limiter" => UNCHANGED limiterVars

ServicesNext ==
  \/ Others("authority") /\ AuthorityNext
  \/ Others("witness") /\ WitnessNext
  \/ Others("file") /\ FileNext
  \/ Others("transactor") /\ TransactorNext
  \/ Others("transport") /\ HttpNext
  \/ Others("schema") /\ GateNext
  \/ Others("scope") /\ ScopeNext
  \/ Others("principal") /\ PrincipalNext
  \/ Others("edge") /\ EdgeNext
  \/ Others("admin") /\ AdminNext
  \/ Others("anomaly") /\ AnomalyNext
  \/ Others("failover") /\ FailoverNext
  \/ Others("cache") /\ CacheNext
  \/ Others("layout") /\ LayoutNext
  \/ Others("limiter") /\ LimiterNext

ServicesSpec == ServicesInit /\ [][ServicesNext]_servicesVars

=============================================================================
