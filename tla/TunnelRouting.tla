---------------------------- MODULE TunnelRouting ----------------------------
(***************************************************************************)
(* How start_ws_tunnel_from_alb (server/ws_proxy.rs:112-199) chooses the   *)
(* agent of a websocket tunnel, next to the connections' lives: it does    *)
(* not ask the router, but copies both maps of the registry, takes the one *)
(* match match_host_to_service gives, and refuses the browser when that    *)
(* one is not healthy or cannot be reached.  WsTunnel models what follows. *)
(***************************************************************************)
EXTENDS ConnectionLife

CONSTANTS Tunnels  \* session ids (a fresh UUID per upgrade request)

VARIABLES
    at,           \* per tunnel: where its request is
    target_host,  \* the host it asks for, from the start
    copied,       \* its copy of the registrations
    matched,      \* the agent matched_service names, or None
    outcome,      \* "started" (the init is sent), a status, or None
    seen,         \* history: agents registered for the host since it began
    live,         \* history: agents that were at one moment also healthy
    steady        \* history: agents that were both, and reachable, all along

requestVars == <<at, target_host, copied, matched, outcome>>
tunnelVars == <<registryVars, lifeVars, requestVars, seen, live, steady>>

Statuses == {"404", "503", "502"}

ASSUME TunnelRoutingAssumption == None \notin Statuses \cup {"started"}

RoutingTypeOK ==
    /\ LifeTypeOK
    /\ at \in [Tunnels -> {"idle", "registrations", "connections", "sender", "done"}]
    /\ target_host \in [Tunnels -> Hosts]
    /\ copied \in [Tunnels -> SUBSET Conns]
    /\ matched \in [Tunnels -> Conns \cup {None}]
    /\ outcome \in [Tunnels -> Statuses \cup {"started", None}]
HistoryTypeOK ==
    /\ seen \in [Tunnels -> SUBSET Conns]
    /\ live \in [Tunnels -> SUBSET Conns]
    /\ steady \in [Tunnels -> SUBSET Conns]

TunnelTypeOK == RoutingTypeOK /\ HistoryTypeOK

Init ==
    /\ LifeInit
    /\ at = [t \in Tunnels |-> "idle"]
    /\ target_host \in [Tunnels -> Hosts]
    /\ copied = [t \in Tunnels |-> {}]
    /\ matched = [t \in Tunnels |-> None]
    /\ outcome = [t \in Tunnels |-> None]
    /\ seen = [t \in Tunnels |-> {}]
    /\ live = [t \in Tunnels |-> {}]
    /\ steady = [t \in Tunnels |-> {}]

-----------------------------------------------------------------------------
(* The request *)

Exact(c, h) == HostOf[c] = h

\* Mutant: a wildcard is as good as the name itself.
MatchHostAnyhow(found, h) == {c \in found : MatchesHost(c, h)}

\* match_host_to_service on the values of a hash map, whose order is arbitrary:
\* any exact match, or any wildcard match when there is no exact one.
MatchHost(found, h) ==
    LET exact == {c \in found : Exact(c, h)} IN
    IF exact # {} THEN exact ELSE {c \in found : MatchesHost(c, h)}

Goes(t, from, to) == at[t] = from /\ at' = [at EXCEPT ![t] = to]

Ends(t, from, result) ==
    /\ Goes(t, from, "done")
    /\ outcome' = [outcome EXCEPT ![t] = result]

\* The upgrade request of a browser arrives.
Arrive(t) ==
    /\ Goes(t, "idle", "registrations")
    /\ UNCHANGED <<registryVars, lifeVars, target_host, copied, matched, outcome>>

CopyRegistrations(t) ==
    /\ Goes(t, "registrations", "connections")
    /\ copied' = [copied EXCEPT ![t] = registrations]
    /\ UNCHANGED <<registryVars, lifeVars, target_host, matched, outcome>>

\* Mutant: health is not looked at.
ChooseAnyAgent(t) ==
    /\ \/ /\ MatchHost(copied[t], target_host[t]) = {}
          /\ Ends(t, "connections", "404")
          /\ UNCHANGED matched
       \/ \E c \in MatchHost(copied[t], target_host[t]) :
              /\ matched' = [matched EXCEPT ![t] = c]
              /\ Goes(t, "connections", "sender") /\ UNCHANGED outcome
    /\ UNCHANGED <<registryVars, lifeVars, target_host, copied>>

\* The connections are copied; without waiting in between, the copies are
\* matched and the match's health is looked at.
ChooseAgent(t) ==
    /\ \/ /\ MatchHost(copied[t], target_host[t]) = {}
          /\ Ends(t, "connections", "404")
          /\ UNCHANGED matched
       \/ \E c \in MatchHost(copied[t], target_host[t]) :
              /\ matched' = [matched EXCEPT ![t] = c]
              /\ \/ ~ Healthy(c) /\ Ends(t, "connections", "503")
                 \/ Healthy(c) /\ Goes(t, "connections", "sender") /\ UNCHANGED outcome
    /\ UNCHANGED <<registryVars, lifeVars, target_host, copied>>

\* The agent's sender is fetched, and the init message is sent.
SendInit(t) ==
    /\ \/ CanSend(matched[t]) /\ Ends(t, "sender", "started")
       \/ ~ CanSend(matched[t]) /\ Ends(t, "sender", "502")
    /\ UNCHANGED <<registryVars, lifeVars, target_host, copied, matched>>

TunnelStep(t) == Arrive(t) \/ CopyRegistrations(t) \/ ChooseAgent(t) \/ SendInit(t)

-----------------------------------------------------------------------------
InProgress(t) == at[t] \notin {"idle", "done"}

\* The agents that a request for h should find, were it decided at once.
LiveFor(h) == {c \in Matching(h) : Healthy(c)}
ServingFor(h) == {c \in LiveFor(h) : CanSend(c)}

\* What the histories remember of the request's time, its first state included.
Watch ==
    /\ seen' = [t \in Tunnels |->
           IF InProgress(t)' THEN seen[t] \cup Matching(target_host[t])' ELSE seen[t]]
    /\ live' = [t \in Tunnels |->
           IF InProgress(t)' THEN live[t] \cup LiveFor(target_host[t])' ELSE live[t]]
    /\ steady' = [t \in Tunnels |->
           IF InProgress(t)'
           THEN (IF at[t] = "idle" THEN Conns ELSE steady[t])
                    \cap ServingFor(target_host[t])'
           ELSE steady[t]]

Next ==
    /\ \/ \E t \in Tunnels : TunnelStep(t)
       \/ LifeNext /\ UNCHANGED requestVars
    /\ Watch

Spec == Init /\ [][Next]_tunnelVars

-----------------------------------------------------------------------------
(* Properties *)

\* ws_proxy.rs:112-154 copies the registrations before the connections, without
\* a common lock.  All the same, an agent that is sent a tunnel's init was, at
\* one moment of the request, registered for the host and healthy.
StartedWithLiveAgent ==
    \A t \in Tunnels : outcome[t] = "started" => matched[t] \in live[t]

\* An agent that would be matched before c or as well.
Rival(d, c, h) == d # c /\ (Exact(d, h) \/ ~ Exact(c, h))

\* ws_proxy.rs:136-199: a browser is not refused while an agent for its host
\* serves all along, unless another agent was registered for the same host in
\* that time, as exactly or more exactly.
SoleAgentServed ==
    \A t \in Tunnels : outcome[t] \in Statuses =>
        \A c \in steady[t] : \E d \in seen[t] : Rival(d, c, target_host[t])

\* routing.rs:9-22: a tunnel goes to an agent that has the host by a wildcard
\* only if no agent that has it by name was registered, healthy and reachable all
\* along.
NameBeforeWildcard ==
    \A t \in Tunnels : outcome[t] = "started" =>
        \/ Exact(matched[t], target_host[t])
        \/ \A c \in steady[t] : ~ Exact(c, target_host[t])
=============================================================================
