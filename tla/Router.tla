------------------------------- MODULE Router -------------------------------
(***************************************************************************)
(* DefaultRouter (mesh/src/server/router.rs): how an HTTP request from the *)
(* load balancer finds an agent, is forwarded over the agent's websocket,  *)
(* and is answered: by the agent's response, or with 404, 503 or 504.      *)
(*                                                                         *)
(* Every request is a task of its own.  route_request is cut where it      *)
(* takes a lock or awaits, so that requests, the agents' registrations and *)
(* the agents' responses interleave as they do on the runtime.  The        *)
(* registry's environment (connections opened, registered, cleaned up) is  *)
(* its single critical sections in any order the server can take them.     *)
(***************************************************************************)
EXTENDS Registry

CONSTANTS
    Requests,        \* request ids (a fresh UUID per ALB request)
    RequestTimeout,  \* ticks a forwarded request waits for its response
    CacheTtl         \* ticks a host's cache entry is used

ASSUME RouterAssumption ==
    /\ RequestTimeout \in Nat \ {0}
    /\ CacheTtl \in Nat \ {0}

Outcomes == {"response", "404", "503", "504"}

ASSUME NoneAssumption == None \notin Outcomes

VARIABLES
    host_service_cache, \* per host: [services, age] or None
    pending_requests,   \* keys of the map of oneshot senders
    receiver,           \* per connection: the end its websocket writer reads
    pc,                 \* where a request's route_request is
    target_host,        \* the host a request asks for, from the start
    services,           \* a request's list of matching services
    selected,           \* the connection a request is to be forwarded to
    timer,              \* ticks left of a waiting request's timeout
    slot,               \* the oneshot channel: "empty" or "full"
    forwarded,          \* "no", "held" by an agent, or "answered" by it
    outcome             \* what route_request returns: see Outcomes

taskVars == <<pc, target_host, services, selected, timer, slot, outcome>>
vars == <<registryVars, host_service_cache, pending_requests, receiver,
          forwarded, taskVars>>

Labels == {"idle", "cache", "read", "store", "match", "pend", "send", "wait",
           "cleanup", "done", "cancelled"}
\* The request is in progress.
Active == Labels \ {"idle", "done", "cancelled"}
CacheEntries == [services : SUBSET Conns, age : 0 .. CacheTtl]

TypeOK ==
    /\ RegistryTypeOK
    /\ host_service_cache \in [Hosts -> CacheEntries \cup {None}]
    /\ pending_requests \subseteq Requests
    /\ receiver \in [Conns -> {"none", "open", "dropped"}]
    /\ pc \in [Requests -> Labels]
    /\ target_host \in [Requests -> Hosts]
    /\ services \in [Requests -> SUBSET Conns]
    /\ selected \in [Requests -> Conns \cup {None}]
    /\ timer \in [Requests -> 0 .. RequestTimeout]
    /\ slot \in [Requests -> {"empty", "full"}]
    /\ forwarded \in [Requests -> {"no", "held", "answered"}]
    /\ outcome \in [Requests -> Outcomes \cup {None}]

Init ==
    /\ RegistryInit
    /\ host_service_cache = [h \in Hosts |-> None]
    /\ pending_requests = {}
    /\ receiver = [c \in Conns |-> "none"]
    /\ pc = [r \in Requests |-> "idle"]
    /\ target_host \in [Requests -> Hosts]
    /\ services = [r \in Requests |-> {}]
    /\ selected = [r \in Requests |-> None]
    /\ timer = [r \in Requests |-> 0]
    /\ slot = [r \in Requests |-> "empty"]
    /\ forwarded = [r \in Requests |-> "no"]
    /\ outcome = [r \in Requests |-> None]

-----------------------------------------------------------------------------
(* find_matching_services *)

\* Mutant: the age of an entry is not looked at.
FreshForever(entry) == entry # None

Fresh(entry) == entry # None /\ entry.age < CacheTtl

GoTo(r, label) == pc' = [pc EXCEPT ![r] = label]

\* A request reaches the router.
Arrive(r) ==
    /\ pc[r] = "idle"
    /\ GoTo(r, "cache")
    /\ UNCHANGED <<registryVars, host_service_cache, pending_requests, receiver,
                   target_host, services, selected, timer, slot, forwarded,
                   outcome>>

\* A fresh entry is used even when its list is empty.
CacheHit(r) ==
    LET entry == host_service_cache[target_host[r]] IN
    /\ pc[r] = "cache"
    /\ Fresh(entry)
    /\ services' = [services EXCEPT ![r] = entry.services]
    /\ GoTo(r, "match")
    /\ UNCHANGED <<registryVars, host_service_cache, pending_requests, receiver,
                   target_host, selected, timer, slot, forwarded, outcome>>

CacheMiss(r) ==
    /\ pc[r] = "cache"
    /\ ~ Fresh(host_service_cache[target_host[r]])
    /\ GoTo(r, "read")
    /\ UNCHANGED <<registryVars, host_service_cache, pending_requests, receiver,
                   target_host, services, selected, timer, slot, forwarded,
                   outcome>>

\* Mutant: what the expired entry listed is kept.
ReadAndMerge(r) ==
    LET entry == host_service_cache[target_host[r]] IN
    /\ pc[r] = "read"
    /\ services' = [services EXCEPT ![r] = Matching(target_host[r]) \cup
                       (IF entry = None THEN {} ELSE entry.services)]
    /\ GoTo(r, "store")
    /\ UNCHANGED <<registryVars, host_service_cache, pending_requests, receiver,
                   target_host, selected, timer, slot, forwarded, outcome>>

\* The snapshot is taken under the registry's lock, which is then released...
ReadRegistrations(r) ==
    /\ pc[r] = "read"
    /\ services' = [services EXCEPT ![r] = Matching(target_host[r])]
    /\ GoTo(r, "store")
    /\ UNCHANGED <<registryVars, host_service_cache, pending_requests, receiver,
                   target_host, selected, timer, slot, forwarded, outcome>>

\* ... and cached later with the time of the write, over what is there.
StoreInCache(r) ==
    /\ pc[r] = "store"
    /\ host_service_cache' =
           [host_service_cache EXCEPT
               ![target_host[r]] = [services |-> services[r], age |-> 0]]
    /\ GoTo(r, "match")
    /\ UNCHANGED <<registryVars, pending_requests, receiver, target_host,
                   services, selected, timer, slot, forwarded, outcome>>

-----------------------------------------------------------------------------
(* route_request: selection, and the two answers that need no agent *)

HealthyServices(r) == {c \in services[r] : Healthy(c)}

\* The task returns result: what it held is gone, an entry in
\* pending_requests is not.
Return(r, result) ==
    /\ GoTo(r, "done")
    /\ outcome' = [outcome EXCEPT ![r] = result]
    /\ services' = [services EXCEPT ![r] = {}]

NotFound(r) ==
    /\ pc[r] = "match"
    /\ services[r] = {}
    /\ Return(r, "404")
    /\ UNCHANGED <<registryVars, host_service_cache, pending_requests, receiver,
                   target_host, selected, timer, slot, forwarded>>

NoHealthyService(r) ==
    /\ pc[r] = "match"
    /\ services[r] # {}
    /\ HealthyServices(r) = {}
    /\ Return(r, "503")
    /\ UNCHANGED <<registryVars, host_service_cache, pending_requests, receiver,
                   target_host, selected, timer, slot, forwarded>>

\* The list comes from a HashMap, in any order: any healthy one may be first.
SelectHealthyService(r) ==
    /\ pc[r] = "match"
    /\ \E c \in HealthyServices(r) : selected' = [selected EXCEPT ![r] = c]
    /\ services' = [services EXCEPT ![r] = {}]
    /\ GoTo(r, "pend")
    /\ UNCHANGED <<registryVars, host_service_cache, pending_requests, receiver,
                   target_host, timer, slot, forwarded, outcome>>

-----------------------------------------------------------------------------
(* forward_request *)

InsertPending(r) ==
    /\ pc[r] = "pend"
    /\ pending_requests' = pending_requests \cup {r}
    /\ GoTo(r, "send")
    /\ UNCHANGED <<registryVars, host_service_cache, receiver, target_host,
                   services, selected, timer, slot, forwarded, outcome>>

\* An unbounded sender fails only when its receiver is gone.
CanSend(c) == c \in connection_senders /\ receiver[c] = "open"

\* The sender is cloned under the registry's lock and used right after: what
\* others do in between cannot be told from doing it before or after both.
Forward(r) ==
    /\ pc[r] = "send"
    /\ CanSend(selected[r])
    /\ forwarded' = [forwarded EXCEPT ![r] = "held"]
    /\ selected' = [selected EXCEPT ![r] = None]
    /\ timer' = [timer EXCEPT ![r] = RequestTimeout]
    /\ GoTo(r, "wait")
    /\ UNCHANGED <<registryVars, host_service_cache, pending_requests, receiver,
                   target_host, services, slot, outcome>>

ForwardFails(r) ==
    /\ pc[r] = "send"
    /\ ~ CanSend(selected[r])
    /\ outcome' = [outcome EXCEPT ![r] = "503"]
    /\ selected' = [selected EXCEPT ![r] = None]
    /\ GoTo(r, "cleanup")
    /\ UNCHANGED <<registryVars, host_service_cache, pending_requests, receiver,
                   target_host, services, timer, slot, forwarded>>

-----------------------------------------------------------------------------
(* wait_for_response *)

\* Mutant: the response is awaited without a timeout.
PolledWithoutTimeout(r) ==
    IF slot[r] = "full" THEN "response"
    ELSE IF r \notin pending_requests THEN "closed"
    ELSE "pending"

\* What polling timeout(request_timeout, response_rx) gives: the channel is
\* polled before the timer, and it is closed when its sender was dropped unsent.
Polled(r) ==
    IF slot[r] = "full" THEN "response"
    ELSE IF r \notin pending_requests THEN "closed"
    ELSE IF timer[r] = 0 THEN "elapsed"
    ELSE "pending"

Receive(r) ==
    /\ pc[r] = "wait"
    /\ Polled(r) = "response"
    /\ Return(r, "response")
    /\ timer' = [timer EXCEPT ![r] = 0]
    /\ UNCHANGED <<registryVars, host_service_cache, pending_requests, receiver,
                   target_host, selected, slot, forwarded>>

\* Mutant: a timeout is answered like any other error.
GiveUpAs503(r) ==
    /\ pc[r] = "wait"
    /\ Polled(r) \in {"closed", "elapsed"}
    /\ outcome' = [outcome EXCEPT ![r] = "503"]
    /\ timer' = [timer EXCEPT ![r] = 0]
    /\ GoTo(r, "cleanup")
    /\ UNCHANGED <<registryVars, host_service_cache, pending_requests, receiver,
                   target_host, services, selected, slot, forwarded>>

\* Mutant: after a timeout the request is routed again.
GiveUpAndRetry(r) ==
    /\ pc[r] = "wait"
    /\ Polled(r) \in {"closed", "elapsed"}
    /\ GoTo(r, "cache")
    /\ UNCHANGED <<registryVars, host_service_cache, pending_requests, receiver,
                   target_host, services, selected, timer, slot, forwarded,
                   outcome>>

\* Time is up (504), or the channel closed (503): the receiver is dropped
\* here, the pending request is removed under its lock later.
GiveUp(r) ==
    /\ pc[r] = "wait"
    /\ Polled(r) \in {"closed", "elapsed"}
    /\ outcome' = [outcome EXCEPT
                      ![r] = IF Polled(r) = "elapsed" THEN "504" ELSE "503"]
    /\ timer' = [timer EXCEPT ![r] = 0]
    /\ GoTo(r, "cleanup")
    /\ UNCHANGED <<registryVars, host_service_cache, pending_requests, receiver,
                   target_host, services, selected, slot, forwarded>>

\* Mutant: the pending request is left in the map.
ReturnWithoutCleanUp(r) ==
    /\ pc[r] = "cleanup"
    /\ GoTo(r, "done")
    /\ UNCHANGED <<registryVars, host_service_cache, pending_requests, receiver,
                   target_host, services, selected, timer, slot, forwarded,
                   outcome>>

\* The removal of the pending request that every failure path ends with.
CleanUp(r) ==
    /\ pc[r] = "cleanup"
    /\ pending_requests' = pending_requests \ {r}
    /\ GoTo(r, "done")
    /\ UNCHANGED <<registryVars, host_service_cache, receiver, target_host,
                   services, selected, timer, slot, forwarded, outcome>>

-----------------------------------------------------------------------------
(* What happens to a request from outside. *)

\* The ALB client goes away: hyper drops the handler's future wherever it
\* awaits.  Nothing it did is undone.
Cancel(r) ==
    /\ pc[r] \in Active
    /\ GoTo(r, "cancelled")
    /\ outcome' = [outcome EXCEPT ![r] = None]
    /\ services' = [services EXCEPT ![r] = {}]
    /\ selected' = [selected EXCEPT ![r] = None]
    /\ timer' = [timer EXCEPT ![r] = 0]
    /\ UNCHANGED <<registryVars, host_service_cache, pending_requests, receiver,
                   target_host, slot, forwarded>>

\* Mutant: the oneshot sender is removed and dropped without sending.
DropResponse(r) ==
    /\ forwarded[r] = "held"
    /\ forwarded' = [forwarded EXCEPT ![r] = "answered"]
    /\ pending_requests' = pending_requests \ {r}
    /\ UNCHANGED <<registryVars, host_service_cache, receiver, taskVars>>

\* handle_response: an agent answers what was forwarded to it, once.  The
\* message reaches the task only if its receiver is still there.
HandleResponse(r) ==
    /\ forwarded[r] = "held"
    /\ forwarded' = [forwarded EXCEPT ![r] = "answered"]
    /\ pending_requests' = pending_requests \ {r}
    /\ slot' = [slot EXCEPT ![r] =
                   IF r \in pending_requests /\ pc[r] = "wait" THEN "full" ELSE @]
    /\ UNCHANGED <<registryVars, host_service_cache, receiver, pc, target_host,
                   services, selected, timer, outcome>>

-----------------------------------------------------------------------------
(* The rest of the server, as the router sees it: see AgentConnection. *)

routerVars == <<host_service_cache, pending_requests, forwarded, taskVars>>

\* handle_websocket_stream begins: register_connection.
Accept(c) ==
    /\ receiver[c] = "none"
    /\ receiver' = [receiver EXCEPT ![c] = "open"]
    /\ InsertSender(c)
    /\ UNCHANGED routerVars

\* The websocket's writer ends.
CloseReceiver(c) ==
    /\ receiver[c] = "open"
    /\ receiver' = [receiver EXCEPT ![c] = "dropped"]
    /\ UNCHANGED <<registryVars, routerVars>>

\* The critical sections of register_service, update_heartbeat,
\* deregister_service and remove_connection.
RegistryStep(c) ==
    /\ receiver[c] # "none"
    /\ \/ InsertConnection(c)
       \/ InsertRegistration(c)
       \/ UpdateHeartbeat(c)
       \/ DropConnection(c)
       \/ DropRegistration(c)
       \/ DropSender(c)
    /\ UNCHANGED <<receiver, routerVars>>

Tick ==
    /\ AgeHeartbeats
    /\ host_service_cache' = [h \in Hosts |->
           LET entry == host_service_cache[h] IN
           IF entry = None THEN None
           ELSE [entry EXCEPT !.age = Older(@, CacheTtl)]]
    /\ timer' = [r \in Requests |-> IF timer[r] > 0 THEN timer[r] - 1 ELSE 0]
    /\ UNCHANGED <<pending_requests, receiver, pc, target_host, services,
                   selected, slot, forwarded, outcome>>

-----------------------------------------------------------------------------
RequestStep(r) ==
    \/ CacheHit(r) \/ CacheMiss(r) \/ ReadRegistrations(r) \/ StoreInCache(r)
    \/ NotFound(r) \/ NoHealthyService(r) \/ SelectHealthyService(r)
    \/ InsertPending(r) \/ Forward(r) \/ ForwardFails(r)
    \/ Receive(r) \/ GiveUp(r) \/ CleanUp(r)

\* Every step but the clock's.
Step ==
    \/ \E r \in Requests :
           Arrive(r) \/ RequestStep(r) \/ Cancel(r) \/ HandleResponse(r)
    \/ \E c \in Conns : Accept(c) \/ CloseReceiver(c) \/ RegistryStep(c)

Next == Step \/ Tick

\* The runtime polls every task that can make progress, and time passes.
\* Nothing is assumed of the agents: a response may never come.
Fairness ==
    /\ \A r \in Requests : WF_vars(RequestStep(r))
    /\ WF_vars(Tick)

SafeSpec == Init /\ [][Next]_vars
Spec == SafeSpec /\ Fairness

-----------------------------------------------------------------------------
(* Properties *)

\* A pending entry always has an owner that will remove it, or an ALB client
\* that went away.  forward_request and wait_for_response (router.rs:118-176)
\* insert, look up, send, wait and remove under different lock acquisitions;
\* no interleaving with a response may leave an entry behind a returned request.
PendingOwned ==
    \A r \in pending_requests : pc[r] \in {"send", "wait", "cleanup", "cancelled"}

\* A request that waits never finds its channel closed (the branch at
\* router.rs:161), since only handle_response removes the entry of a waiting
\* request, and once its agent has answered, the answer is in the channel.  An
\* answer that reached the channel is what the request returns, also when the
\* timeout elapses next to it, unless the client goes away.  An answer that comes
\* between the timeout and the removal of the entry finds the entry but no
\* receiver: it is dropped, and the request returns 504.
ReplyNotLost ==
    \A r \in Requests :
        /\ pc[r] = "wait" =>
               /\ Polled(r) # "closed"
               /\ forwarded[r] = "answered" => Polled(r) = "response"
        /\ slot[r] = "full" =>
               \/ pc[r] \in {"wait", "cancelled"}
               \/ pc[r] = "done" /\ outcome[r] = "response"

\* A request answered 404 or 503 was never handed to an agent, whatever the
\* cache, the health check and the sender lookup saw (router.rs:203-269): the
\* load balancer may retry it without running it twice.
RejectedNeverForwarded ==
    \A r \in Requests : outcome[r] \in {"404", "503"} => forwarded[r] = "no"

\* Every request is answered or abandoned by its client, whether or not the
\* agent ever answers and whatever happens to its connection.
EveryRequestAnswered ==
    \A r \in Requests : pc[r] \in Active ~> pc[r] \in {"done", "cancelled"}

-----------------------------------------------------------------------------
(* Refinement *)

\* An answer decided on is given when the task returns, after its clean-up.
statusBar == [r \in Requests |->
    IF pc[r] \in Active THEN "open"
    ELSE IF pc[r] = "done" THEN "closed"
    ELSE IF pc[r] = "cancelled" THEN "dropped" ELSE "idle"]
answerBar == [r \in Requests |-> IF pc[r] = "done" THEN outcome[r] ELSE None]

RR == INSTANCE RequestReply
          WITH status <- statusBar, agent <- forwarded, answer <- answerBar

\* The router implements RequestReply: at most one hand-over and one answer per
\* request, and each answer means what RequestReply says it means.
ImplementsRequestReply == RR!Spec
=============================================================================
