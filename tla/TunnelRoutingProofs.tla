------------------------- MODULE TunnelRoutingProofs -------------------------
(***************************************************************************)
(* Safety of the choice of a tunnel's agent, for any connections, hosts    *)
(* and tunnels.                                                            *)
(***************************************************************************)
EXTENDS TunnelRouting, TLAPS

-----------------------------------------------------------------------------
(* The inductive invariant *)

\* What the registry holds of a connection, by how far its life has come.  An
\* entry and a registration that are both there came in this order, and the
\* entry goes first.
LifeInRegistry(c) ==
    /\ connections[c] # None <=> life[c] \in {"listing", "listed"}
    /\ c \in registrations => life[c] \in {"listed", "no_connection"}
    /\ life[c] = "listed" => c \in registrations

\* The connection's registration was there at some time.
WasRegistered(c) == life[c] \in {"listed", "no_connection", "no_registration", "gone"}

\* Once the registrations are copied, the copy holds every agent that served all
\* along, and of those it matches each was seen.
CopyInv(t) ==
    /\ \A c \in copied[t] : WasRegistered(c)
    /\ \A c \in steady[t] : c \in copied[t] /\ MatchesHost(c, target_host[t])
    /\ \A c \in copied[t] : MatchesHost(c, target_host[t]) => c \in seen[t]

\* While the request is decided, what served all along still serves.
Request(t) ==
    /\ InProgress(t) => steady[t] \subseteq ServingFor(target_host[t])
    /\ at[t] \in {"connections", "sender"} => CopyInv(t)
    /\ at[t] = "sender" => /\ matched[t] \in MatchHost(copied[t], target_host[t])
                           /\ matched[t] \in live[t]
    /\ at[t] # "done" => outcome[t] = None

Answered(t) ==
    /\ outcome[t] = "started" =>
           /\ matched[t] \in live[t]
           /\ \/ Exact(matched[t], target_host[t])
              \/ \A c \in steady[t] : ~ Exact(c, target_host[t])
    /\ outcome[t] \in Statuses =>
           \A c \in steady[t] : \E d \in seen[t] : Rival(d, c, target_host[t])

RoutingInv ==
    /\ RoutingTypeOK /\ HistoryTypeOK
    /\ \A c \in Conns : LifeInRegistry(c)
    /\ \A t \in Tunnels : Request(t) /\ Answered(t)

-----------------------------------------------------------------------------
(* The connections' lives *)

\* Each step of a connection's life keeps the registry's type and its agreement
\* with the life, and no connection is unregistered without having been registered.
LEMMA LifeStepKeeps ==
    ASSUME RoutingInv, NEW c \in Conns, LifeStep(c)
    PROVE  /\ LifeTypeOK'
           /\ \A d \in Conns : LifeInRegistry(d)' /\ (WasRegistered(d) => WasRegistered(d)')
<1> USE DEF RoutingInv, RoutingTypeOK, LifeTypeOK, RegistryTypeOK, Lives, LifeInRegistry,
            WasRegistered
<1>0. 0 \in Ages /\ None \notin Ages
  BY RegistryAssumption DEF RegistryAssumption, Ages
<1>1. CASE Accept(c)
  BY <1>1 DEF Accept, InsertSender
<1>2. CASE Register(c)
  <2>1. CASE Becomes(c, {"accepted"}, "listing") /\ InsertConnection(c)
    BY <1>0, <2>1 DEF Becomes, InsertConnection
  <2>2. CASE Becomes(c, {"listing"}, "listed") /\ InsertRegistration(c)
    BY <2>2 DEF Becomes, InsertRegistration
  <2> QED
    BY <1>2, <2>1, <2>2 DEF Register
<1>3. CASE Heartbeat(c)
  BY <1>0, <1>3 DEF Heartbeat, UpdateHeartbeat, InsertConnection, lifeVars
<1>4. CASE Remove(c)
  <2>1. CASE Becomes(c, {"accepted", "listed"}, "no_connection") /\ DropConnection(c)
    BY <2>1 DEF Becomes, DropConnection
  <2>2. CASE Becomes(c, {"no_connection"}, "no_registration") /\ DropRegistration(c)
    BY <2>2 DEF Becomes, DropRegistration
  <2>3. CASE Becomes(c, {"no_registration"}, "gone") /\ DropSender(c)
    BY <2>3 DEF Becomes, DropSender
  <2> QED
    BY <1>4, <2>1, <2>2, <2>3 DEF Remove
<1>5. CASE DropReceiver(c)
  BY <1>5 DEF DropReceiver, registryVars
<1> QED
  BY <1>1, <1>2, <1>3, <1>4, <1>5 DEF LifeStep

\* So does every step of the connections and of their clock.
LEMMA LifeNextKeeps ==
    ASSUME RoutingInv, LifeNext
    PROVE  /\ LifeTypeOK'
           /\ \A d \in Conns : LifeInRegistry(d)' /\ (WasRegistered(d) => WasRegistered(d)')
<1>1. CASE LifeTick
  <2> USE DEF RoutingInv, RoutingTypeOK, LifeTypeOK, RegistryTypeOK
  <2>1. connections' \in [Conns -> Ages \cup {None}]
    BY <1>1, RegistryAssumption
    DEF RegistryAssumption, LifeTick, AgeHeartbeats, Older, Ages
  <2>2. ASSUME NEW d \in Conns
        PROVE  connections'[d] # None <=> connections[d] # None
    BY <1>1, <2>2, RegistryAssumption
    DEF RegistryAssumption, LifeTick, AgeHeartbeats, Older, Ages
  <2> QED
    BY <1>1, <2>1, <2>2
    DEF LifeTick, AgeHeartbeats, lifeVars, LifeInRegistry, WasRegistered
<1> QED
  BY <1>1, LifeStepKeeps DEF LifeNext

-----------------------------------------------------------------------------
(* The histories *)

\* In every step of the specification a request's histories of what was once there
\* grow, and its history of what was there all along shrinks to what still is.
LEMMA WatchEffect ==
    ASSUME RoutingInv, Watch, NEW t \in Tunnels,
           target_host' = target_host
    PROVE  /\ InProgress(t)' =>
               /\ seen'[t] = seen[t] \cup Matching(target_host[t])'
               /\ live'[t] = live[t] \cup LiveFor(target_host[t])'
               /\ steady'[t] \subseteq ServingFor(target_host[t])'
               /\ at[t] # "idle" => steady'[t] \subseteq steady[t]
           /\ ~ InProgress(t)' =>
               seen'[t] = seen[t] /\ live'[t] = live[t] /\ steady'[t] = steady[t]
BY DEF Watch

\* A request that stands still keeps its part of the invariant.
LEMMA StandingStill ==
    ASSUME RoutingInv, Watch, NEW t \in Tunnels,
           target_host' = target_host,
           at'[t] = at[t], copied'[t] = copied[t], matched'[t] = matched[t],
           outcome'[t] = outcome[t],
           \A c \in Conns : WasRegistered(c) => WasRegistered(c)'
    PROVE  Request(t)' /\ Answered(t)'
<1> USE DEF RoutingInv, RoutingTypeOK, HistoryTypeOK
<1>1. Request(t) /\ Answered(t) /\ copied[t] \subseteq Conns
  OBVIOUS
<1>2. CASE InProgress(t)
  <2>1. /\ InProgress(t)' /\ at[t] # "idle" /\ at[t] # "done"
        /\ outcome'[t] = None /\ outcome'[t] \notin Statuses \cup {"started"}
    BY <1>1, <1>2, TunnelRoutingAssumption DEF InProgress, Request, TunnelRoutingAssumption
  <2>2. /\ seen[t] \subseteq seen'[t] /\ live[t] \subseteq live'[t]
        /\ steady'[t] \subseteq steady[t]
        /\ steady'[t] \subseteq ServingFor(target_host[t])'
    BY <2>1, WatchEffect
  <2>3. CopyInv(t) => CopyInv(t)'
    BY <1>1, <2>2 DEF CopyInv, MatchesHost
  <2> QED
    BY <1>1, <2>1, <2>2, <2>3
    DEF Request, Answered, MatchHost, Exact, MatchesHost
<1>3. CASE ~ InProgress(t)
  <2>1. /\ ~ InProgress(t)' /\ at'[t] \in {"idle", "done"}
    BY <1>3 DEF InProgress
  <2>2. seen'[t] = seen[t] /\ live'[t] = live[t] /\ steady'[t] = steady[t]
    BY <2>1, WatchEffect
  <2> QED
    BY <1>1, <2>1, <2>2 DEF Request, Answered, Exact, Rival
<1> QED
  BY <1>2, <1>3

-----------------------------------------------------------------------------
(* A request's own steps *)

\* While a request's task runs its step, registry and connections stand still.
LEMMA AtRest ==
    ASSUME NEW t \in Tunnels, TunnelStep(t)
    PROVE  /\ UNCHANGED <<connections, registrations, connection_senders, life, receiver>>
           /\ target_host' = target_host
BY DEF TunnelStep, Arrive, CopyRegistrations, ChooseAgent, SendInit, registryVars, lifeVars

LEMMA ArriveKeeps ==
    ASSUME RoutingInv, Watch, NEW t \in Tunnels, Arrive(t)
    PROVE  Request(t)' /\ Answered(t)'
<1> USE DEF RoutingInv, RoutingTypeOK, Arrive, Goes
<1>1. InProgress(t)' /\ at'[t] = "registrations" /\ outcome'[t] = None
  BY DEF InProgress, Request
<1>2. steady'[t] \subseteq ServingFor(target_host[t])'
  BY <1>1, WatchEffect
<1> QED
  BY <1>1, <1>2, TunnelRoutingAssumption DEF TunnelRoutingAssumption, Request, Answered

LEMMA CopyKeeps ==
    ASSUME RoutingInv, Watch, NEW t \in Tunnels, CopyRegistrations(t)
    PROVE  Request(t)' /\ Answered(t)'
<1> USE DEF RoutingInv, RoutingTypeOK, LifeTypeOK, RegistryTypeOK, CopyRegistrations, Goes
<1>1. /\ InProgress(t)' /\ at'[t] = "connections" /\ outcome'[t] = None
      /\ copied'[t] = registrations /\ registrations' = registrations
  BY DEF InProgress, Request, registryVars
<1>2. /\ steady'[t] \subseteq ServingFor(target_host[t])'
      /\ Matching(target_host[t])' \subseteq seen'[t]
  BY <1>1, WatchEffect
<1>3. target_host' = target_host /\ life' = life
  BY DEF lifeVars
<1>4. CopyInv(t)'
  BY <1>1, <1>2, <1>3
  DEF CopyInv, ServingFor, LiveFor, Matching, MatchesHost, WasRegistered, LifeInRegistry
<1> QED
  BY <1>1, <1>2, <1>3, <1>4, TunnelRoutingAssumption
  DEF TunnelRoutingAssumption, Request, Answered

\* Whatever is matched in the copy was seen, and stands before or beside any other
\* agent the copy holds for the host.
LEMMA MatchIsRival ==
    ASSUME NEW t \in Tunnels, CopyInv(t), NEW c \in MatchHost(copied[t], target_host[t])
    PROVE  /\ c \in copied[t] /\ MatchesHost(c, target_host[t]) /\ c \in seen[t]
           /\ \A d \in steady[t] : d # c => Rival(c, d, target_host[t])
           /\ Exact(c, target_host[t]) \/ \A d \in steady[t] : ~ Exact(d, target_host[t])
BY DEF CopyInv, MatchHost, Rival, Exact, MatchesHost

LEMMA ChooseKeeps ==
    ASSUME RoutingInv, Watch, NEW t \in Tunnels, ChooseAgent(t)
    PROVE  Request(t)' /\ Answered(t)'
<1> USE DEF RoutingInv, RoutingTypeOK, Goes, Ends
<1>1. /\ at[t] = "connections" /\ CopyInv(t) /\ outcome[t] = None
      /\ steady[t] \subseteq ServingFor(target_host[t])
      /\ copied' = copied
      /\ UNCHANGED <<connections, registrations, connection_senders, life, receiver>>
      /\ target_host' = target_host
  BY DEF ChooseAgent, Request, InProgress, registryVars, lifeVars
<1>2. CASE at'[t] = "done"
  <2>1. seen'[t] = seen[t] /\ live'[t] = live[t] /\ steady'[t] = steady[t]
    BY <1>1, <1>2, WatchEffect DEF InProgress
  <2>2. Request(t)' /\ outcome'[t] \in {"404", "503"}
    BY <1>2, <1>1 DEF ChooseAgent, Request, InProgress
  <2>3. CASE MatchHost(copied[t], target_host[t]) = {}
    <3>1. steady[t] = {}
      BY <1>1, <2>3 DEF MatchHost, CopyInv, Exact, MatchesHost
    <3> QED
      BY <2>1, <2>2, <3>1 DEF Answered
  <2>4. CASE MatchHost(copied[t], target_host[t]) # {}
    <3>1. PICK c \in MatchHost(copied[t], target_host[t]) : ~ Healthy(c)
      BY <1>2, <2>4 DEF ChooseAgent
    <3>2. c \notin steady[t]
      BY <1>1, <3>1 DEF ServingFor, LiveFor
    <3>3. \A d \in steady[t] : Rival(c, d, target_host[t]) /\ c \in seen[t]
      BY <1>1, <3>1, <3>2, MatchIsRival
    <3> QED
      BY <1>1, <2>1, <2>2, <3>3 DEF Answered, Rival, Exact, Statuses
  <2> QED
    BY <2>3, <2>4
<1>3. CASE at'[t] # "done"
  <2>1. PICK c \in MatchHost(copied[t], target_host[t]) :
            /\ matched' = [matched EXCEPT ![t] = c]
            /\ Healthy(c) /\ at' = [at EXCEPT ![t] = "sender"] /\ outcome' = outcome
    BY <1>3 DEF ChooseAgent
  <2>2. /\ InProgress(t)' /\ at'[t] = "sender" /\ outcome'[t] = None /\ matched'[t] = c
    BY <1>1, <2>1 DEF InProgress
  <2>3. /\ seen[t] \subseteq seen'[t]
        /\ LiveFor(target_host[t])' \subseteq live'[t]
        /\ steady'[t] \subseteq steady[t]
        /\ steady'[t] \subseteq ServingFor(target_host[t])'
    BY <1>1, <2>2, WatchEffect
  <2>4. c \in copied[t] /\ c \in Conns /\ MatchesHost(c, target_host[t])
    BY <1>1, MatchIsRival
  <2>5. c \in registrations
    BY <1>1, <2>1, <2>4 DEF CopyInv, WasRegistered, LifeInRegistry, Healthy
  <2>6. c \in LiveFor(target_host[t])'
    BY <1>1, <2>1, <2>4, <2>5 DEF LiveFor, Matching, Healthy, MatchesHost
  <2>7. CopyInv(t)'
    BY <1>1, <2>3 DEF CopyInv, WasRegistered, MatchesHost
  <2>8. c \in MatchHost(copied'[t], target_host'[t])
    BY <1>1
  <2> QED
    BY <1>1, <2>2, <2>3, <2>6, <2>7, <2>8, TunnelRoutingAssumption
    DEF TunnelRoutingAssumption, Request, Answered, MatchHost, Exact, MatchesHost
<1> QED
  BY <1>2, <1>3

LEMMA SendKeeps ==
    ASSUME RoutingInv, Watch, NEW t \in Tunnels, SendInit(t)
    PROVE  Request(t)' /\ Answered(t)'
<1> USE DEF RoutingInv, RoutingTypeOK, Goes, Ends
<1>1. /\ at[t] = "sender" /\ at'[t] = "done" /\ CopyInv(t)
      /\ steady[t] \subseteq ServingFor(target_host[t])
      /\ matched[t] \in MatchHost(copied[t], target_host[t]) /\ matched[t] \in live[t]
      /\ target_host' = target_host /\ matched' = matched
      /\ \/ CanSend(matched[t]) /\ outcome'[t] = "started"
         \/ ~ CanSend(matched[t]) /\ outcome'[t] = "502"
  BY DEF SendInit, Request, InProgress
<1>2. seen'[t] = seen[t] /\ live'[t] = live[t] /\ steady'[t] = steady[t]
  BY <1>1, WatchEffect DEF InProgress
<1>3. /\ matched[t] \in seen[t]
      /\ \A d \in steady[t] : d # matched[t] => Rival(matched[t], d, target_host[t])
      /\ \/ Exact(matched[t], target_host[t])
         \/ \A d \in steady[t] : ~ Exact(d, target_host[t])
  BY <1>1, MatchIsRival
<1>4. ~ CanSend(matched[t]) => matched[t] \notin steady[t]
  BY <1>1 DEF ServingFor
<1> QED
  BY <1>1, <1>2, <1>3, <1>4 DEF Request, Answered, InProgress, Statuses, Rival, Exact

-----------------------------------------------------------------------------
(* The invariant *)

LEMMA RequestStepType ==
    ASSUME RoutingInv, NEW t \in Tunnels, TunnelStep(t)
    PROVE  RoutingTypeOK'
<1> USE DEF RoutingInv, RoutingTypeOK, LifeTypeOK, RegistryTypeOK, Goes, Ends, Statuses
<1>1. LifeTypeOK'
  BY AtRest
<1>2. CASE Arrive(t)
  BY <1>1, <1>2 DEF Arrive
<1>3. CASE CopyRegistrations(t)
  BY <1>1, <1>3 DEF CopyRegistrations
<1>4. CASE ChooseAgent(t)
  <2>1. MatchHost(copied[t], target_host[t]) \subseteq Conns
    BY DEF MatchHost
  <2> QED
    BY <1>1, <1>4, <2>1 DEF ChooseAgent
<1>5. CASE SendInit(t)
  BY <1>1, <1>5 DEF SendInit
<1> QED
  BY <1>2, <1>3, <1>4, <1>5 DEF TunnelStep

LEMMA HistoryStepType ==
    ASSUME RoutingInv, Watch, RoutingTypeOK'
    PROVE  HistoryTypeOK'
BY DEF RoutingInv, HistoryTypeOK, Watch, RoutingTypeOK, LifeTypeOK, RegistryTypeOK,
       Matching, LiveFor, ServingFor

LEMMA InitInv == Init => RoutingInv
BY TunnelRoutingAssumption, RegistryAssumption
DEF TunnelRoutingAssumption, RegistryAssumption, Init, LifeInit, RegistryInit, RoutingInv,
    RoutingTypeOK, HistoryTypeOK, LifeTypeOK, RegistryTypeOK, Lives, LifeInRegistry, Request,
    Answered, InProgress

LEMMA NextInv ==
    ASSUME RoutingInv, Next
    PROVE  RoutingInv'
<1>1. ASSUME NEW t \in Tunnels, TunnelStep(t), Watch
      PROVE  RoutingInv'
  <2>1. RoutingTypeOK' /\ HistoryTypeOK'
    BY <1>1, RequestStepType, HistoryStepType
  <2>2. UNCHANGED <<connections, registrations, connection_senders, life, receiver>>
    BY <1>1, AtRest
  <2>3. \A c \in Conns : LifeInRegistry(c)' /\ (WasRegistered(c) => WasRegistered(c)')
    BY <2>2 DEF RoutingInv, LifeInRegistry, WasRegistered
  <2>4. Request(t)' /\ Answered(t)'
    BY <1>1, ArriveKeeps, CopyKeeps, ChooseKeeps, SendKeeps DEF TunnelStep
  <2>5. ASSUME NEW u \in Tunnels, u # t
        PROVE  Request(u)' /\ Answered(u)'
    <3>1. /\ at'[u] = at[u] /\ copied'[u] = copied[u] /\ matched'[u] = matched[u]
          /\ outcome'[u] = outcome[u] /\ target_host' = target_host
      BY <1>1, <2>5
      DEF RoutingInv, RoutingTypeOK, TunnelStep, Arrive, CopyRegistrations, ChooseAgent,
          SendInit, Goes, Ends
    <3> QED
      BY <1>1, <2>3, <3>1, StandingStill
  <2> QED
    BY <2>1, <2>3, <2>4, <2>5 DEF RoutingInv
<1>2. ASSUME LifeNext, UNCHANGED requestVars, Watch
      PROVE  RoutingInv'
  <2>1. /\ LifeTypeOK'
        /\ \A c \in Conns : LifeInRegistry(c)' /\ (WasRegistered(c) => WasRegistered(c)')
    BY <1>2, LifeNextKeeps
  <2>2. RoutingTypeOK' /\ HistoryTypeOK'
    BY <1>2, <2>1, HistoryStepType DEF RoutingInv, RoutingTypeOK, requestVars
  <2>3. \A u \in Tunnels : Request(u)' /\ Answered(u)'
    BY <1>2, <2>1, StandingStill DEF requestVars
  <2> QED
    BY <2>1, <2>2, <2>3 DEF RoutingInv
<1> QED
  BY <1>1, <1>2 DEF Next

LEMMA StutterInv ==
    ASSUME RoutingInv, UNCHANGED tunnelVars
    PROVE  RoutingInv'
BY DEF RoutingInv, RoutingTypeOK, HistoryTypeOK, LifeTypeOK, RegistryTypeOK, LifeInRegistry,
       Request, Answered, CopyInv, WasRegistered, InProgress, ServingFor, LiveFor, Matching,
       MatchesHost, MatchHost, Exact, Healthy, CanSend, Rival, tunnelVars, registryVars,
       lifeVars, requestVars

LEMMA Invariant == Spec => []RoutingInv
<1>1. RoutingInv /\ [Next]_tunnelVars => RoutingInv'
  BY NextInv, StutterInv
<1> QED
  BY <1>1, InitInv, PTL DEF Spec

\* start_ws_tunnel_from_alb, next to any life of the connections, keeps its
\* variables and the registry's in their types.
THEOREM TypeCorrect == Spec => []TunnelTypeOK
<1>1. RoutingInv => TunnelTypeOK
  BY DEF RoutingInv, TunnelTypeOK
<1> QED
  BY <1>1, Invariant, PTL

\* ws_proxy.rs:112-199: the two maps are copied one after the other without a
\* common lock, and yet an agent that is sent a tunnel's init was registered and
\* healthy at one moment of the request, for any number of connections.
THEOREM TunnelStartsWithLiveAgent == Spec => []StartedWithLiveAgent
<1>1. RoutingInv => StartedWithLiveAgent
  BY DEF RoutingInv, Answered, StartedWithLiveAgent
<1> QED
  BY <1>1, Invariant, PTL

\* ws_proxy.rs:136-199: a browser is refused only if no agent for its host serves
\* all along, or another was registered for the host that is matched instead.
THEOREM TunnelRefusedOnlyWithRival == Spec => []SoleAgentServed
<1>1. RoutingInv => SoleAgentServed
  BY DEF RoutingInv, Answered, SoleAgentServed
<1> QED
  BY <1>1, Invariant, PTL

\* routing.rs:9-22: an agent that has the host by name and serves all along goes
\* before any wildcard.
THEOREM TunnelPrefersName == Spec => []NameBeforeWildcard
<1>1. RoutingInv => NameBeforeWildcard
  BY DEF RoutingInv, Answered, NameBeforeWildcard
<1> QED
  BY <1>1, Invariant, PTL
==============================================================================
