------------------------ MODULE RouterStalenessProofs ------------------------
(***************************************************************************)
(* Theorems about the staleness of routing decisions, for any connections, *)
(* hosts, requests and time limits.                                        *)
(***************************************************************************)
EXTENDS RouterStaleness, RouterProofs

\* The list S for the host h is right about the connection c.
Agrees(S, h, c) == c \in S <=> c \in Matching(h)

\* A cache entry is right about what changed longer ago than the entry is old:
\* the list it holds was copied in the same tick in which it was stored.
CacheRight ==
    \A h \in Hosts : host_service_cache[h] # None =>
        \A c \in Conns : since[c] > host_service_cache[h].age =>
            Agrees(host_service_cache[h].services, h, c)

\* A copy about to be stored is right about what has not changed in this tick.
CopyRight ==
    \A r \in Requests : pc[r] = "store" =>
        \A c \in Conns : since[c] > 0 => Agrees(services[r], target_host[r], c)

\* The connection a request is about to be forwarded to.
ChosenRight ==
    \A r \in Requests : pc[r] \in {"pend", "send"} =>
        /\ selected[r] \in Conns
        /\ selected[r] \in registrations \/ since[selected[r]] < CacheTtl

StaleInv ==
    /\ TypeOK
    /\ since \in [Conns -> 0 .. CacheTtl]
    /\ CacheRight /\ CopyRight /\ ListAgreesAfterTtl /\ ChosenRight

-----------------------------------------------------------------------------
\* A connection whose registration did not come or go in a step is seen by the
\* matcher as before, and its time goes on.
LEMMA Unmoved ==
    ASSUME StaleInv, WatchedStep, NEW c \in Conns, since'[c] > 0
    PROVE  /\ since'[c] = since[c]
           /\ c \in registrations <=> c \in registrations'
           /\ \A h : c \in Matching(h) <=> c \in Matching(h)'
<1>1. (c \in registrations) = (c \in registrations')
  BY DEF WatchedStep
<1>2. since'[c] = since[c]
  BY <1>1 DEF WatchedStep
<1> QED
  BY <1>1, <1>2 DEF Matching, MatchesHost

\* Every step but a tick makes the times at most smaller.
LEMMA SinceShrinks ==
    ASSUME StaleInv, WatchedStep
    PROVE  /\ since' \in [Conns -> 0 .. CacheTtl]
           /\ \A c \in Conns : since'[c] <= since[c]
BY RouterAssumption DEF RouterAssumption, StaleInv, WatchedStep

\* What a request's task does to its list, its choice and the cache.
LEMMA ListsMove ==
    ASSUME StaleInv, Step
    PROVE  /\ target_host' = target_host
           /\ \A r \in Requests :
                \/ pc'[r] = pc[r] /\ services'[r] = services[r]
                                  /\ selected'[r] = selected[r]
                \/ pc'[r] \notin {"store", "match", "pend", "send"}
                \/ pc'[r] = "store" /\ services'[r] = Matching(target_host[r])
                \/ /\ pc[r] = "cache" /\ pc'[r] = "match"
                   /\ Fresh(host_service_cache[target_host[r]])
                   /\ services'[r] = host_service_cache[target_host[r]].services
                \/ pc[r] = "store" /\ pc'[r] = "match" /\ services'[r] = services[r]
                \/ /\ pc[r] = "match" /\ pc'[r] = "pend"
                   /\ selected'[r] \in services[r]
                \/ pc[r] = "pend" /\ pc'[r] = "send" /\ selected'[r] = selected[r]
           /\ \A h \in Hosts :
                \/ host_service_cache'[h] = host_service_cache[h]
                \/ \E r \in Requests :
                       /\ pc[r] = "store" /\ target_host[r] = h
                       /\ host_service_cache'[h] = [services |-> services[r], age |-> 0]
<1> USE DEF StaleInv, TypeOK, taskVars, routerVars
<1>1. ASSUME NEW r \in Requests, RequestStep(r)
      PROVE  /\ \A q \in Requests \ {r} : /\ pc'[q] = pc[q] /\ services'[q] = services[q]
                                          /\ selected'[q] = selected[q]
             /\ target_host' = target_host
  BY <1>1 DEF RequestStep, CacheHit, CacheMiss, ReadRegistrations, StoreInCache,
       NotFound, NoHealthyService, SelectHealthyService, InsertPending, Forward,
       ForwardFails, Receive, GiveUp, CleanUp, GoTo, Return
<1>2. ASSUME NEW r \in Requests, Arrive(r) \/ Cancel(r) \/ HandleResponse(r)
      PROVE  /\ \A q \in Requests \ {r} : /\ pc'[q] = pc[q] /\ services'[q] = services[q]
                                          /\ selected'[q] = selected[q]
             /\ \/ pc'[r] = pc[r] /\ services'[r] = services[r] /\ selected'[r] = selected[r]
                \/ pc'[r] \notin {"store", "match", "pend", "send"}
             /\ UNCHANGED <<target_host, host_service_cache>>
  BY <1>2 DEF Arrive, Cancel, HandleResponse, GoTo
<1>3. ASSUME NEW c \in Conns, Accept(c) \/ CloseReceiver(c) \/ RegistryStep(c)
      PROVE  UNCHANGED <<pc, services, selected, target_host, host_service_cache>>
  BY <1>3 DEF Accept, CloseReceiver, RegistryStep
<1>4. ASSUME NEW r \in Requests, RequestStep(r), ~ StoreInCache(r)
      PROVE  host_service_cache' = host_service_cache
  BY <1>4 DEF RequestStep, CacheHit, CacheMiss, ReadRegistrations,
       NotFound, NoHealthyService, SelectHealthyService, InsertPending, Forward,
       ForwardFails, Receive, GiveUp, CleanUp
<1>5. ASSUME NEW r \in Requests, RequestStep(r)
      PROVE  \/ pc'[r] \notin {"store", "match", "pend", "send"}
             \/ pc'[r] = "store" /\ services'[r] = Matching(target_host[r])
             \/ /\ pc[r] = "cache" /\ pc'[r] = "match"
                /\ Fresh(host_service_cache[target_host[r]])
                /\ services'[r] = host_service_cache[target_host[r]].services
             \/ pc[r] = "store" /\ pc'[r] = "match" /\ services'[r] = services[r]
             \/ pc[r] = "match" /\ pc'[r] = "pend" /\ selected'[r] \in services[r]
             \/ pc[r] = "pend" /\ pc'[r] = "send" /\ selected'[r] = selected[r]
  BY <1>5 DEF RequestStep, CacheHit, CacheMiss, ReadRegistrations, StoreInCache,
       NotFound, NoHealthyService, SelectHealthyService, HealthyServices,
       InsertPending, Forward, ForwardFails, Receive, GiveUp, CleanUp, GoTo, Return
<1>6. ASSUME NEW r \in Requests, StoreInCache(r)
      PROVE  \A h \in Hosts :
                \/ host_service_cache'[h] = host_service_cache[h]
                \/ /\ pc[r] = "store" /\ target_host[r] = h
                   /\ host_service_cache'[h] = [services |-> services[r], age |-> 0]
  BY <1>6 DEF StoreInCache
<1>7. CASE \E r \in Requests : RequestStep(r)
  <2> PICK q \in Requests : RequestStep(q)
    BY <1>7
  <2>1. \A h \in Hosts :
           \/ host_service_cache'[h] = host_service_cache[h]
           \/ /\ pc[q] = "store" /\ target_host[q] = h
              /\ host_service_cache'[h] = [services |-> services[q], age |-> 0]
    BY <1>4, <1>6
  <2> QED
    BY <1>1, <1>5, <2>1
<1>8. CASE \E r \in Requests : Arrive(r) \/ Cancel(r) \/ HandleResponse(r)
  BY <1>2, <1>8
<1>9. CASE \E c \in Conns : Accept(c) \/ CloseReceiver(c) \/ RegistryStep(c)
  BY <1>3, <1>9
<1> QED
  BY <1>7, <1>8, <1>9 DEF Step

\* A step of the server keeps the invariant.
LEMMA StepKeeps ==
    ASSUME StaleInv, WatchedStep
    PROVE  StaleInv'
<1> USE RouterAssumption DEF RouterAssumption
<1>1. TypeOK'
  BY NextType DEF StaleInv, WatchedStep, Next
<1>2. since' \in [Conns -> 0 .. CacheTtl]
  BY SinceShrinks
<1>3. Step
  BY DEF WatchedStep
<1>4. CacheRight'
  <2> SUFFICES ASSUME NEW h \in Hosts, host_service_cache'[h] # None,
                      NEW c \in Conns, since'[c] > host_service_cache'[h].age
               PROVE  c \in host_service_cache'[h].services <=> c \in Matching(h)'
    BY DEF CacheRight, Agrees
  <2>1. host_service_cache'[h].age \in Nat /\ since'[c] \in Nat
    BY <1>1, <1>2 DEF TypeOK, CacheEntries
  <2>2. /\ since'[c] = since[c]
        /\ c \in Matching(h) <=> c \in Matching(h)'
    BY <2>1, Unmoved
  <2>3. CASE host_service_cache'[h] = host_service_cache[h]
    BY <2>2, <2>3 DEF StaleInv, CacheRight, Agrees
  <2>4. ASSUME NEW r \in Requests, pc[r] = "store", target_host[r] = h,
               host_service_cache'[h] = [services |-> services[r], age |-> 0]
        PROVE  c \in host_service_cache'[h].services <=> c \in Matching(h)'
    BY <2>1, <2>2, <2>4 DEF StaleInv, CopyRight, Agrees
  <2> QED
    BY <1>3, <2>3, <2>4, ListsMove
<1>5. CopyRight'
  <2> SUFFICES ASSUME NEW r \in Requests, pc'[r] = "store",
                      NEW h, h = target_host[r], h = target_host'[r],
                      NEW c \in Conns, since'[c] > 0
               PROVE  c \in services'[r] <=> c \in Matching(h)'
    BY <1>3, ListsMove DEF CopyRight, Agrees
  <2>1. since'[c] = since[c] /\ (c \in Matching(h) <=> c \in Matching(h)')
    BY Unmoved
  <2>2. \/ pc[r] = "store" /\ services'[r] = services[r]
        \/ services'[r] = Matching(h)
    BY <1>3, ListsMove
  <2> QED
    BY <2>1, <2>2 DEF StaleInv, CopyRight, Agrees
<1>6. ListAgreesAfterTtl'
  <2> SUFFICES ASSUME NEW r \in Requests, pc'[r] = "match",
                      NEW h \in Hosts, h = target_host[r], h = target_host'[r],
                      NEW c \in Conns, since'[c] >= CacheTtl
               PROVE  c \in services'[r] <=> c \in Matching(h)'
    BY <1>1, <1>3, ListsMove DEF TypeOK, ListAgreesAfterTtl
  <2>1. since'[c] > 0
    BY <1>2
  <2>2. since'[c] = since[c] /\ (c \in Matching(h) <=> c \in Matching(h)')
    BY <2>1, Unmoved
  <2>3. CASE pc[r] = "match" /\ services'[r] = services[r]
    BY <2>2, <2>3 DEF StaleInv, ListAgreesAfterTtl
  <2>4. CASE /\ Fresh(host_service_cache[h])
             /\ services'[r] = host_service_cache[h].services
    <3>1. host_service_cache[h] # None /\ host_service_cache[h] \in CacheEntries
      BY <2>4 DEF Fresh, StaleInv, TypeOK
    <3>2. host_service_cache[h].age < CacheTtl /\ host_service_cache[h].age \in Nat
      BY <2>4, <3>1 DEF Fresh, CacheEntries
    <3>3. since[c] > host_service_cache[h].age
      BY <1>2, <2>2, <3>2
    <3> QED
      BY <2>2, <2>4, <3>1, <3>3 DEF StaleInv, CacheRight, Agrees
  <2>5. CASE pc[r] = "store" /\ services'[r] = services[r]
    BY <2>1, <2>2, <2>5 DEF StaleInv, CopyRight, Agrees
  <2> QED
    BY <1>3, <2>3, <2>4, <2>5, ListsMove
<1>7. ChosenRight'
  <2> SUFFICES ASSUME NEW r \in Requests, pc'[r] \in {"pend", "send"}
               PROVE  /\ selected'[r] \in Conns
                      /\ \/ selected'[r] \in registrations'
                         \/ since'[selected'[r]] < CacheTtl
    BY DEF ChosenRight
  <2>1. CASE pc[r] \in {"pend", "send"} /\ selected'[r] = selected[r]
    <3>1. /\ selected[r] \in Conns
          /\ selected[r] \in registrations \/ since[selected[r]] < CacheTtl
      BY <2>1 DEF StaleInv, ChosenRight
    <3>2. CASE since'[selected[r]] > 0
      BY <2>1, <3>1, <3>2, Unmoved
    <3>3. CASE ~ (since'[selected[r]] > 0)
      BY <1>2, <2>1, <3>1, <3>3
    <3> QED
      BY <3>2, <3>3
  <2>2. CASE pc[r] = "match" /\ selected'[r] \in services[r]
    <3> DEFINE c == selected'[r]
    <3>1. c \in Conns
      BY <2>2 DEF StaleInv, TypeOK
    <3>2. CASE since'[c] >= CacheTtl
      <4>1. since'[c] > 0
        BY <1>2, <3>1, <3>2
      <4>2. since[c] >= CacheTtl /\ (c \in registrations <=> c \in registrations')
        BY <3>1, <3>2, <4>1, Unmoved
      <4>3. c \in Matching(target_host[r])
        BY <2>2, <3>1, <4>2 DEF StaleInv, ListAgreesAfterTtl
      <4> QED
        BY <3>1, <4>2, <4>3 DEF Matching
    <3>3. CASE ~ (since'[c] >= CacheTtl)
      BY <1>2, <3>1, <3>3
    <3> QED
      BY <3>2, <3>3
  <2> QED
    BY <1>3, <2>1, <2>2, ListsMove
<1> QED
  BY <1>1, <1>2, <1>4, <1>5, <1>6, <1>7 DEF StaleInv

\* A tick keeps the invariant: no request is between two locks, and what was
\* right about an age is right about the next.
LEMMA TickKeeps ==
    ASSUME StaleInv, WatchedTick
    PROVE  StaleInv'
<1> USE RouterAssumption DEF RouterAssumption
<1>1. TypeOK'
  BY NextType DEF StaleInv, WatchedTick, Next
<1>2. since' \in [Conns -> 0 .. CacheTtl]
  BY DEF StaleInv, WatchedTick, Older
<1>3. UNCHANGED <<pc, registrations>>
  BY DEF WatchedTick, Tick, AgeHeartbeats
<1>4. \A h : Matching(h)' = Matching(h)
  BY <1>3 DEF Matching, MatchesHost
<1>5. \A r \in Requests : pc'[r] \notin {"store", "match", "pend", "send"}
  BY <1>3 DEF WatchedTick, AtRest, Active, Labels
<1>6. CacheRight'
  <2> SUFFICES ASSUME NEW h \in Hosts, host_service_cache'[h] # None,
                      NEW c \in Conns, since'[c] > host_service_cache'[h].age
               PROVE  c \in host_service_cache'[h].services <=> c \in Matching(h)'
    BY DEF CacheRight, Agrees
  <2> DEFINE entry == host_service_cache[h]
  <2>1. entry # None /\ entry \in CacheEntries
        /\ host_service_cache'[h] = [entry EXCEPT !.age = Older(@, CacheTtl)]
    BY DEF WatchedTick, Tick, StaleInv, TypeOK
  <2>2. /\ host_service_cache'[h].services = entry.services
        /\ host_service_cache'[h].age = Older(entry.age, CacheTtl)
        /\ entry.age \in 0 .. CacheTtl
    BY <2>1 DEF CacheEntries
  <2>3. since[c] \in 0 .. CacheTtl /\ since'[c] = Older(since[c], CacheTtl)
    BY DEF StaleInv, WatchedTick
  <2>4. since[c] > entry.age
    BY <2>2, <2>3 DEF Older
  <2> QED
    BY <1>4, <2>1, <2>2, <2>4 DEF StaleInv, CacheRight, Agrees
<1> QED
  BY <1>1, <1>2, <1>5, <1>6
  DEF StaleInv, CopyRight, ListAgreesAfterTtl, ChosenRight

\* The invariant holds in every behaviour.
LEMMA StaleInvariant == StaleSpec => []StaleInv
<1>1. StaleInit => StaleInv
  <2> SUFFICES ASSUME StaleInit
               PROVE  StaleInv
    OBVIOUS
  <2>1. TypeOK
    BY RegistryAssumption, RouterAssumption
    DEF RegistryAssumption, RouterAssumption, StaleInit, Init, RegistryInit, TypeOK,
        RegistryTypeOK, Labels, CacheEntries
  <2> QED
    BY <2>1, RouterAssumption
    DEF RouterAssumption, StaleInit, Init, StaleInv, CacheRight, CopyRight,
        ListAgreesAfterTtl, ChosenRight
<1>2. StaleInv /\ [StaleNext]_staleVars => StaleInv'
  <2> SUFFICES ASSUME StaleInv, [StaleNext]_staleVars
               PROVE  StaleInv'
    OBVIOUS
  <2>1. CASE UNCHANGED staleVars
    BY <2>1 DEF staleVars, vars, taskVars, registryVars, StaleInv, TypeOK,
         RegistryTypeOK, CacheRight, CopyRight, ListAgreesAfterTtl, ChosenRight,
         Agrees, Matching, MatchesHost
  <2> QED
    BY <2>1, StepKeeps, TickKeeps DEF StaleNext
<1> QED
  BY <1>1, <1>2, PTL DEF StaleSpec

\* router.rs:59-91: concurrent cache fills never make the list of services of a
\* request wrong about an agent that neither came nor went within one CacheTtl.
THEOREM DecisionsAgreeAfterTtl == StaleSpec => []ListAgreesAfterTtl
<1>1. StaleInv => ListAgreesAfterTtl
  BY DEF StaleInv
<1> QED
  BY <1>1, StaleInvariant, PTL

\* router.rs:97-127: no request is handed to an agent that left CacheTtl ago.
THEOREM NoLateForward == StaleSpec => NoForwardLongAfterLeaving
<1>1. StaleInv /\ [StaleNext]_staleVars =>
          [\A r \in Requests : Forward(r) =>
               \/ selected[r] \in registrations
               \/ since[selected[r]] < CacheTtl]_staleVars
  BY DEF StaleInv, ChosenRight, Forward
<1> QED
  BY <1>1, StaleInvariant, PTL DEF StaleSpec, NoForwardLongAfterLeaving
=============================================================================
