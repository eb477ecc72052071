# Formal models of Anywhere Mesh

Anywhere Mesh lets services behind NAT receive traffic from an AWS load balancer
(ALB): an *agent* beside the service (`src/mesh/src/client`) keeps a websocket open to
the mesh *server* (`src/mesh/src/server`), registers a host name on it, and answers
the HTTP requests and websocket tunnels the server sends down to it.  This directory
holds TLA+ models of that protocol and of the server's shared state, TLC
configurations that check them on small instances, and TLAPS proofs of the main safety
properties for every value of the constants.

File names below are relative to `src/mesh/src/`.

## 1. The system

| Component | State | Operations | Talks to |
|---|---|---|---|
| Registry (`server/registry.rs`, `common/routing.rs`) | three maps, each with a lock of its own: connections (last heartbeat), registrations (host), senders | register/remove connection, register/deregister service, heartbeat, copies for the router, host matching, health selection | everything on the server |
| Router (`server/router.rs`) | host cache (list, time), pending map (request id to oneshot sender) | `route_request` (one task per HTTP request), `handle_response` | registry; the agent's sender |
| Agent connection, server side (`server/service.rs`, `server/dispatcher.rs`) | per connection: reading task, writing task, mpsc queue | accept, read and dispatch, write, `select!` and clean up | registry, router, agent |
| Agent (`client/client_impl.rs`, `client/proxy/mod.rs`) | the loop of one connection; per session a heartbeat task and a health monitor, with a channel each | connect, authenticate, register, heartbeat, answer requests, poll, reconnect | server, local service |
| Websocket tunnels (`server/ws_proxy.rs`, `client/proxy/ws.rs`) | session and waiter maps on the server, session map on the agent; three tasks at each end | choice of the agent, init, acknowledge, data, close, clean-up | registry, agent connection |
| Authentication (`server/auth.rs`) | allowed role patterns | STS call, pattern match | dispatcher |
| ALB, health and upgrade handlers (`server/handlers`) | none | HTTP in and out | router, tunnels |
| Processes, configuration, infrastructure, samples | none of the protocol | | |

Everything runs on tokio.  Each HTTP request, each direction of each connection and
each direction of each tunnel is a task.  They share the maps, which are locked one
at a time and never across an await on the network, and they send to each other
through unbounded channels whose errors are mostly ignored.

**What is hard.**  (i) Operations that take several locks (`remove_connection`,
`register_service`, a request's way through cache, registry, pending map and sender)
interleave with each other.  (ii) The router decides from copies, and from a cache up
to 30 seconds old; a tunnel decides from two copies made one after the other.  (iii) A
response, a timeout, a failed send and a client that goes away race for one pending
entry.  (iv) `tokio::select!` at the end of a connection detaches the task that has not
finished; it handles messages next to the removal and after it.  (v) A tunnel has two
websockets, four pumping tasks, two maps and one shared connection in between; any of
them may fail at any moment, and closes cross.  (vi) Connections break silently, or with
messages in flight; servers are drained, stop and vanish; what the agent's session
spawned may outlive it.  (vii) Heartbeats pass through a task, a busy loop and the
network before a wall clock that may be set judges them.

**What makes each component correct.**  Registry: what is removed stays removed, and
nobody sees half of a registration that cannot be used.  Router: every request ends,
with at most one hand-over to an agent and one answer that means what it says; no
response is lost to a race; no pending entry outlives its request; decisions are
stale by a bounded time.  Connection: the handshake, the registration and heartbeats
stay in order; a broken connection is cleaned up entirely.  Agent: it comes back to a
live server whatever happened, follows a roll, and its tasks end.  Heartbeats: an agent
that serves is healthy, one that vanished is not for long.  Tunnel: the agent is a live
one for the host; frames arrive in order and completely before the close; a close ends
both ends.  Authentication: nobody is accepted whom no pattern stands for.

`PROJECT.json` lists the hazards line by line with the properties that cover them.

## 2. Modules

| Module | Models | Notes |
|---|---|---|
| `Registry` | the three maps, one action per critical section; host matching; health by age | |
| `RequestReply` | abstract: what the router promises a client about one request | |
| `Router` | `DefaultRouter`, cut wherever it takes a lock or awaits; cancellation; time | extends `Registry`, implements `RequestReply` |
| `RouterStaleness` | `Router` with the time since each registration came or went, and a clock that does not move during the server's own work | history variable `since` |
| `ConnectionLife` | abstract: what a connection does to the registry, in which order, and when its queue is read | extends `Registry` |
| `AgentConnection` | one connection from both ends: agent, wire, both server tasks, clean-up | extends `Registry`, implements `ConnectionLife` |
| `TunnelRouting` | how a tunnel's agent is chosen, next to the connections' lives | extends `ConnectionLife` |
| `WsTunnel` | one tunnel from the init on: browser, server, agent, application | |
| `MeshClient` | the agent across its connections: reconnect loop, session tasks, server instances that roll | |
| `Heartbeats` | time between an agent's heartbeats and the server's window | |
| `Authentication` | the STS call's outcomes and the role-pattern matcher, iteration by iteration | |
| `RouterProofs`, `RouterStalenessProofs`, `AgentConnectionProofs`, `MeshClientProofs`, `HeartbeatsProofs`, `AuthenticationProofs`, `TunnelRoutingProofs`, `WsTunnelProofs` | TLAPS proofs | |
| `MC*` | instances for TLC | |

**How they fit together.**  `AgentConnection` is checked and proved to implement
`ConnectionLife`, for any number of connections.  `TunnelRouting` runs next to
`ConnectionLife`, so what it shows holds next to the real connections.  The router's
surroundings (`Router!Accept`, `CloseReceiver`, `RegistryStep`) allow every step of
`ConnectionLife` and more, so what `Router` shows holds there too.  `MeshClient` and
`Heartbeats` take up the agent where `AgentConnection` leaves it: the first with what
happens across connections, the second with the time that passes within one.

### How state and actions correspond to the code

*Registry.*  `connections[c]` is the age of the last heartbeat in ticks (or `None`),
`registrations` and `connection_senders` are the key sets of the other maps.  A
connection id is a fresh UUID, so a member of `Conns` is used once.  Host strings are
names; a wildcard is a name with the set `Covers[w]` of hosts that end with its
suffix, which is all `match_host_to_service` can tell apart.  The router asks it about
one registration at a time; `TunnelRouting!MatchHost` is its answer on a whole map.

*Router.*  `pc[r]` is the point in `route_request`: `cache` (read lock on the cache),
`read` (copy of the registrations), `store` (write lock on the cache), `match`,
`pend` (insert into the pending map), `send`, `wait`, `cleanup`.  `slot` is the oneshot
channel; its sender is dropped when the entry leaves `pending_requests`.  `Polled` is
what `tokio::time::timeout` gives: the channel is polled before the timer.  The look-up
of the sender and the send that follows it are one step (`Forward`): no other task can
tell them from that.  The list of services comes out of a hash map, so the first
healthy instance is any healthy instance.  `Cancel` is hyper dropping the handler
when its client goes away; nothing runs then, so the pending entry stays: the code
never removes it if the agent does not answer, which the models show and
`PendingOwned` allows.

*AgentConnection.*  `stream[c]` is the place in `handle_websocket_stream`
(`rm_connection`, `rm_registration`, `rm_sender` are the three locks of
`remove_connection`); `incoming[c]` is what the reading task does: `read`, or the
message it is handling, or the reply it is about to send; `outgoing[c]` the writing
task with its queue `outbox[c]`; `up` and `down` are the bytes in flight; `agent[c]` is
the place in `connect_and_handle`; `sock[c]` the TCP connection.  `ConnectionLost` cuts
both directions at any point; `SilentDeath` stops the agent without a word.  The
answer of the authentication is a choice.  Left out: `ServiceDeregistration`, which no
agent in the repository sends (its critical sections are in `Router!RegistryStep`).  Tunnels
keep clones of the connection's sender (`held`, `TunnelSends`, `TunnelEnds`): the writing task
ends only when the last of them is dropped, and since a tunnel waits for its acknowledgement
and for its browser without a timeout, that may be never.  The refinement mapping reads a connection's `life` off `stream` and `incoming`
(`LifeOf`) and its `receiver` off `outgoing` (`ReceiverOf`).

*TunnelRouting.*  `at[t]` is the place in `start_ws_tunnel_from_alb`: before the copy of
the registrations, before that of the connections, before the sender is fetched.  The
match and the look at its health use the copies without waiting in between, and are one
step with the second copy.  `seen`, `live` and `steady` are histories of what the agents
were during the request.

*WsTunnel.*  `tunnel` is the place in `start_ws_tunnel_from_alb` and then in the task it
spawns; `albReader` and `albWriter` are its two inner tasks, `reader` and `writer` those
of the agent; `init` is `handle_init`, which holds the agent's loop.  `far`, `sent`,
`inbound` and `got` describe the two real websockets with numbered data frames.  The
far ends close, drop and answer a close when they like, or never: a close that was written
to an end is in its `got`, and `FarCloses` is a step of its own without fairness.  Ping and
pong frames carry nothing and are left out.  Session ids are fresh, so one session is
enough.

*MeshClient.*  `loop` is the place in `run` and `connect_and_handle` (`upgrade` is the wait of
`connect_async` for the answer to TLS and the upgrade, `call` the wait for the local service).  A session is a slot with its heartbeat task (`heartbeat[s]`) and its
monitor (`monitor[s]`, `seen[s]` is `last_instance`; `hung` is a poll that is never
answered).  `Break` is an exit that reaches the two `abort()`s, `ReturnError` one through `?`.
`roll` and `queued` are the watch channel and the heartbeats' channel of the current session.
`sock` tells apart what a socket can do to the loop: it is `silent` when the peer vanished and
`unacked` once something was written to it, which TCP gives up on.  `HealthPath` does what
`websocket_to_http_health_url` does to the path.  Server instances are started in order, as
deployments do, drained by the load balancer, and stop or vanish when they like.

*Heartbeats.*  `next` is the interval's timer, `queued` the channel, `busy` how long the loop is
held by local calls, `flight` and `due` the messages on their way, `age` the wall clock less
`last_heartbeat`, which is negative after the clock was set back.

*Authentication.*  `pattern`, `part` and `at` are the loops' variables; `at` is the offset of
`arn_remaining`.  A pattern is the list of parts that `split('*')` gives, an ARN a
sequence of characters.

## 3. Runs

All runs use two workers and end within a minute or so.

| Run | Instance | Shows |
|---|---|---|
| `router_safety` | 2 requests, 2 agents; symmetric | `PendingOwned`, `ReplyNotLost`, `RejectedNeverForwarded`, types |
| `router_promise` | 2 requests, 1 agent | `Router` implements `RequestReply`; every request ends |
| `cache_staleness` | 2 requests, 1 agent with a wildcard | decisions are at most one TTL old |
| `agent_connection` | 1 connection, 3 messages up, 2 down | clean-up, order of registration, liveness, `ConnectionLife`; tunnels may keep the sender for ever |
| `tunnel_routing` | 1 tunnel, 2 agents by name and 1 by wildcard | the agent was live; a sole agent is not refused; names first |
| `ws_tunnel` | 2 frames each way | order, completeness, clean-up, liveness when a close is answered |
| `mesh_client` | 2 instances, 1 reset, endpoint without a path | the agent serves again, follows a roll, its tasks end |
| `heartbeats` | interval 3, window 12, loop held up to 6, delay up to 2, clock set by up to 4 | healthy while serving, dropped when vanished |
| `authentication` | ARNs up to 4 of 2 letters; every pattern of up to 3 parts of up to 2 letters, and every pair of up to 2 parts of 1 | sound; refuses wrongly in one kind of case only |
| `doc_ws_drop`, `doc_tasks`, `doc_health_url` | as small as shows the point | comments that the code does not keep |

**Bounds.**  Two requests are enough for every race the router has: requests share only
the cache (two writers race) and each pending entry belongs to one request.  A TTL of one or two ticks and
a timeout of one make fresh and expired, waiting and elapsed both reachable;
larger ones only repeat states.  Ages stop at the value from which nothing changes.
`InFlight` and `Backlog` in `AgentConnection` bound how far the agent's and the router's
free-running senders are ahead; the handshake needs three messages up.  `Frames` bounds
the data of a tunnel's ends; two frames are what reordering needs.  Tunnels share nothing
before the init, so one is enough; three agents make a match exact or not and unique or
not.  Two instances are a roll; `MaxResets` adds one exit through `?` to those that the
instances' ends cause, so four slots hold all the tasks that can be left behind at
once.  In `heartbeats` the longest silence is 11 ticks and the window 12, so both sides of
the window are reached, as is a clock set in either direction; `Horizon` is where clocks
stop being told apart, beyond everything the properties compare.  Short ARNs over two
letters contain every way in which parts overlap, repeat and miss.  The proofs hold for
every value of these bounds.

**Fairness.**  Weak fairness of every task that can make progress, which is what the
runtime gives, and of the clock.  Nothing is assumed of agents (`router_promise` holds
with agents that never answer), browsers, applications or the network.  The fairness of
the reading task in `AgentConnection` includes the STS call, which has no timeout: two of
its liveness properties assume that STS answers.  `MeshClient` assumes strong fairness of
three branches: `tokio::select!` polls its branches in random order, so the roll's signal
and a queued heartbeat are not passed over for ever by requests that keep coming; and an
agent that authenticates again and again is accepted one day.  It assumes, too, that the
local service answers, that the signing of the STS url returns, that an instance that runs answers the upgrade, and that TCP gives up on
data that is never acknowledged, and nothing of polls, of a silent socket that nobody writes to, or of the deployment.
`RouterStaleness` assumes that a tick is long against the server's work between two
locks; without it a task could sleep for ever between reading the registrations and
storing them, and no bound on staleness would hold.  `Heartbeats` has its assumptions as bounds:
`MaxBusy` (the local service has no timeout) and `MaxDelay`; `ServingAgentHealthy` holds if
interval, busy time and delay add up to less than the window.

`CHECK_DEADLOCK FALSE` is set where the modelled system may stop: a connection or a
tunnel that has ended is never used again, a request is routed once, and an agent may wait for
ever for an answer of a server that vanished.

**Where code and words differ, by a run:**

* `doc_ws_drop`: "Notify agent that ALB side closed" happens only after `join!` of both
  directions, one of which ends only by a failed write or by the agent's own close.
* `doc_tasks`: "Stop the heartbeat and health monitor tasks" is reached by `break` only.  A
  session that ends through `?` leaves its monitor polling every 10 seconds until the server's
  instance changes; each such session adds one.
* `doc_health_url`: "Trim any path and append /health" compares the first slash, the one in
  `://`, with 7: the path stays, the monitor polls `<path>/health`, and never learns an
  instance.

**Where the properties of passing runs have exceptions that words do not have:**

* `RefusedOnlyWhenAmbiguous`: "supports * wildcards" (`server/auth.rs:56`), but `*a` refuses
  `aa`: the text behind the last `*` is taken where it is found first.
* `SoleAgentServed`: a browser is refused although a healthy agent serves its host, if the
  match taken from the hash map is another one that is not healthy (`server/ws_proxy.rs:136`).
* `NoForwardLongAfterLeaving`, `ListAgreesAfterTtl`: a cached list, empty ones too, is used for 30
  seconds, so a healthy registered agent may be answered for with 404 or 503.
* `DrainedInstanceLeft`: the monitor's baseline is its own first answer (`client_impl.rs:412`).
  An agent that connected just before a roll, and whose first poll reached the new
  instance, stays on the drained one.
* `ServesAgain`: an agent that waits for a server that vanished to answer the upgrade
  (`client_impl.rs:292`) or the authentication (`:329`) waits for ever: neither wait has a
  timeout.  No other wait of the loop is
  without an end under the assumptions above, to which belongs that the signing of the STS
  url returns.
* `DeadConnectionCleaned`: the writing task of a connection that was removed stays as long as a
  tunnel keeps its clone of the sender (`server/service.rs:140`, `server/ws_proxy.rs:192`,
  `:223`, `:244`).  A tunnel whose agent was lost before it acknowledged (`:235`), or whose
  browser never ends (`:334`), keeps it for ever.
* `ClosingEndsTunnel`: a browser or an application that was sent a close and never answers keeps the
  task that reads from it, and on the server `join!` with it (`server/ws_proxy.rs:246`,
  `client/proxy/ws.rs:93`).
* `ReplyNotLost`: an answer that comes after the timeout and before the pending entry is removed
  finds the entry, but no receiver; it is dropped, and the request returns 504.
* `MonitorLearnsInstance`: holds for an endpoint without a path, as `mesh_client` has it; with a path
  it fails, which is `doc_health_url`.
* `FramesInOrder`, `ClosingEndsTunnel`: the init is sent before session and waiter are stored, so an
  early acknowledgement is dropped and the tunnel waits for ever, of which no property says
  anything: `ClosingEndsTunnel` begins with an open tunnel.  First frames and an early
  close can be lost in the same window.
* `ServingAgentHealthy`: heartbeats have "a separate task" (`client_impl.rs:432`), but are written
  by the loop that waits for the local service, hence `MaxBusy` in the bound.

Two more need no behaviour to show: the comment at `common/routing.rs:31` says 30 seconds where
the code compares with 60, and `--request-timeout` is only logged (`server/service.rs:67`).

## 4. Proofs

Everything is proved for any sets of requests, connections and hosts, any ARNs and patterns, and
any bounds, from the named assumptions of the modules only (time windows and bounds are
natural or positive numbers; `None` is none of the other values, for which
`TunnelRoutingAssumption` has the statuses and the outcome "started"; `HeartbeatsAssumption`
puts the horizon beyond the window and the longest silence).

* **`RouterProofs`**: `TypeCorrect`, `PendingAlwaysOwned`, `RepliesNeverLost`,
  `RejectionsAreSafe`.  The properties are not inductive: that a waiting request's channel
  cannot be closed needs to know that a waiting request is in the pending map or has its
  answer in the channel, which needs to know what each `pc` implies for `forwarded`,
  `slot` and `timer`.  `RepliesNeverLost` says more than that of a waiting request: an answer in the
  channel is what the request returns.  `IInv` says this per request; the lemma for a step treats the
  request that moves, the one that is answered, and leaves the others alone.
  `Refinement` is `SafeSpec => ImplementsRequestReply`: the initial states map to
  initial ones, and every step of `Router` to a step of `RequestReply` or to a stutter, under
  the mapping `statusBar`, `answerBar` and with `IInv` of both states.
* **`RouterStalenessProofs`**: `DecisionsAgreeAfterTtl`, `NoLateForward`.  `StaleInv` says of a
  cached list that it is right about every registration that has stood for longer than
  the entry's age (`CacheRight`), of a copy not yet stored that it is right about what has
  not changed in this tick (`CopyRight`), and of a chosen agent that it is registered or
  left recently (`ChosenRight`).  Concurrent fills overwrite each other within one tick,
  for which `CopyRight` accounts.
* **`AgentConnectionProofs`**: `ConnectionsRemoved`, `SendersOutliveRegistrations`,
  `HeartbeatsKnown`, `TypeCorrect`.  That a detached reading task cannot put a removed
  connection back is a fact about the whole conversation: a registration can only be
  read when the writer has nothing to write and the agent has not closed, so the stream
  is still in `select!`.  The invariant therefore says, per connection, in which of three
  phases its messages are (`Handshake`: the authentication or its reply is the only
  message anywhere; `Registering`: the registration is first in what is in flight and
  nothing goes down; `Serving`: heartbeats, responses, requests, the acknowledgement),
  how far removal is (`Removal`), and when tasks may have ended (`Tasks`).  The proof has
  one lemma per group of actions; `OthersUntouched` reduces a step to its own connection.
  It rests on the agent waiting for the authentication's reply before it registers: the
  mutant that does not wait breaks `CleanupComplete`.
  `ConnectionImplementsLife` is `SafeSpec => ImplementsConnectionLife`, by the same
  invariant.  Most steps are stutters (`Unseen`); the others change the life of one connection.
* **`MeshClientProofs`**: `MeshTypeCorrect`, `ChannelsAlwaysLast`.  The type invariant contains that
  the loop has a session exactly from the upgrade's answer to its end.  `SessionInv` adds that a session
  that authenticates has no task yet; a signalled roll is the only reason for a session
  without its monitor.
* **`HeartbeatsProofs`**: `ServingAgentsHealthy`, `VanishedAgentsDropped`, `HeartbeatsTypeCorrect`.  The
  time since the server heard of the agent, plus what is still to be waited for
  (`ToNextHeard`: the delay, or the busy loop and the delay, or all three), never exceeds
  the longest silence; a step only moves the wait from one of the three to the next.
* **`AuthenticationProofs`**: `AcceptanceSound`, `RefusalExact`, `AuthTypeCorrect`.  The greedy loop
  keeps two facts: the parts taken so far lie on the ARN one after the other (`Placed`), and
  wherever all parts of the pattern could lie, the next one does not begin before `at`
  (`Leftmost`).  The first gives soundness; by the second, a part that is missed is missed by
  every placing, and a refusal at the end finds the last part twice.  No induction over the
  data is needed: the loop's steps are the induction.
* **`TunnelRoutingProofs`**: `TunnelStartsWithLiveAgent`, `TunnelRefusedOnlyWithRival`,
  `TunnelPrefersName`, `TypeCorrect`.  The two maps are read one after the other without a
  common lock, so each read may be outdated when the next is made.  `RoutingInv` says what
  the registry holds of a connection by how far its life has come (`LifeInRegistry`: an entry
  is made before the registration and goes before it, which is why an agent copied from the
  registrations and then found in the connections was in both at the second read), and of a
  copy that it has every agent that served all along and that each of its matches was seen
  (`CopyInv`).  The lives are those of `ConnectionLife`, which `AgentConnection` is proved to
  implement.
* **`WsTunnelProofs`**: `TunnelKeepsOrder`, `TunnelClosesLast`, `TunnelLeavesNoOrphan`,
  `TypeCorrect`.  `FramesInOrder` speaks of what an end received; a step appends to that from a
  queue, which is filled from another, so the invariant has to follow the frames over the
  whole path: each queue goes on where the one behind it ends (`ToApp`, `ToBrowser`).  Where a
  queue ends is not in the state once its frames are gone, so the invariant says that there
  are numbers m and n of frames that have left the queues, and towards the browser a number k
  of frames that came before the session was stored, for which this holds; the
  acknowledgement, which travels with the frames, takes no number (`Place`).  Where frames are
  lost (the link is down, a session is forgotten, a writer has ended) the chain breaks, and
  beyond such a place nothing is passed on any more.  The close has the number after the
  last frame that its end sent (`CloseToApp`, `CloseToBrowser`); `ClosesInv` says where closes
  can be, that only the server's `join!` sends a second one, and that once one was written to
  an end its queue is empty and its session forgotten, so that nothing is written behind it,
  although that end may stay open for ever; `CloseOnItsWay` is
  `NoOrphanSession` from the moment the browser's reader is done.  There is one lemma per
  action and part, over general lemmas on appending to and taking from an ordered queue.

Every invariant and every action property that a passing run checks is stated by a theorem.
Only model-checked: the temporal properties under fairness (`~>`), which the prover cannot
express, and the disagreements with the documentation (section 3).

## 5. Not modelled

HTTP conversion, headers and bodies, the metrics body, the signing of the STS url, start-up,
configuration, infrastructure and samples: they keep no state that others see.  Of the modelled
components: `deregister_service`, for which no agent sends a message (the router's proofs
allow its steps); tunnels that are open while their agent reconnects, of which the code
promises nothing: both ends wait for messages of a connection that is gone.

## 6. What is left

1. The choice of the agent, the tunnel and its connection in one model: `WsTunnel` has the
   loss of the connection as a step of its own (`LinkLost`) in place of `AgentConnection`.
2. The proofs of the tunnel begin after the choice of the agent, and those of the choice end
   there: a model of both would need one proof that the init message is the first of the
   connection's frames for this tunnel.
