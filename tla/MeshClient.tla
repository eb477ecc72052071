----------------------------- MODULE MeshClient -----------------------------
(***************************************************************************)
(* The agent across its connections (client/client_impl.rs): run connects, *)
(* serves, sleeps and connects again; connect_and_handle spawns for every  *)
(* session a task that queues heartbeats and one that polls the server's   *)
(* /health for its instance id and signals a server roll through a watch   *)
(* channel.                                                                *)
(*                                                                         *)
(* A session ends in one of two ways.  A break aborts both tasks; a ? (a   *)
(* read error, a response that cannot be written) returns at once, and the *)
(* tasks are left to find out.  A session is a slot that is used again     *)
(* when both of its tasks have ended.                                      *)
(*                                                                         *)
(* Around the agent are the server's instances behind their load balancer: *)
(* a new one is added, an old one is drained, any may stop or vanish.      *)
(***************************************************************************)
EXTENDS Naturals

CONSTANTS
    Endpoint,    \* the ingress endpoint: [scheme, path]
    Instances,   \* bound: server instances 1 .. Instances, started in this order
    MaxResets,   \* bound: connections reset by the network
    None

\* An exit through ? needs an instance that stops or a reset, so that one slot
\* more than these is always free.
Slots == 1 .. Instances + MaxResets + 1
Servers == 1 .. Instances

ASSUME MeshClientAssumption ==
    /\ Instances \in Nat \ {0}
    /\ MaxResets \in Nat
    /\ Endpoint \in [scheme : {"ws", "wss"}, path : {"", "/", "/path"}]
    /\ None \notin Nat

VARIABLES
    started,    \* how many instances have been started
    running,    \* those that hold their connections open
    targets,    \* those the load balancer sends polls and new connections to
    resets,     \* how many connections the network has reset
    loop,       \* where run and connect_and_handle are
    cur,        \* the session of the loop, or None
    peer,       \* the instance it is connected to, or None
    sock,       \* its socket: see Socks
    roll,       \* its watch channel: "no", or "yes" once a roll was signalled
    queued,     \* "yes" when a heartbeat waits in its channel
    monitor,    \* per session: its health monitor, "none", "run" or "hung"
    seen,       \* the monitor's last_instance
    heartbeat   \* per session: its heartbeat task, "none" or "run"

serverVars == <<started, running, targets, resets>>
loopVars == <<loop, cur, peer, sock, roll, queued>>
taskVars == <<monitor, seen, heartbeat>>
meshVars == <<serverVars, loopVars, taskVars>>

\* A socket is silent when its peer has vanished; unacked when, besides, data
\* written to it waits for an acknowledgement that TCP gives up on one day.
Socks == {"none", "open", "closed", "reset", "silent", "unacked"}

MeshTypeOK ==
    /\ started \in Servers
    /\ running \subseteq 1 .. started
    /\ targets \subseteq running
    /\ resets \in 0 .. MaxResets
    /\ loop \in {"connect", "upgrade", "auth", "serve", "call", "sleep"}
    /\ IF loop \in {"connect", "upgrade", "sleep"} THEN cur = None ELSE cur \in Slots
    /\ peer \in Servers \cup {None}
    /\ sock \in Socks
    /\ roll \in {"no", "yes"}
    /\ queued \in {"no", "yes"}
    /\ monitor \in [Slots -> {"none", "run", "hung"}]
    /\ seen \in [Slots -> Servers \cup {None}]
    /\ heartbeat \in [Slots -> {"none", "run"}]

Init ==
    /\ started = 1 /\ running = {1} /\ targets = {1} /\ resets = 0
    /\ loop = "connect"
    /\ cur = None /\ peer = None /\ sock = "none"
    /\ roll = "no" /\ queued = "no"
    /\ monitor = [s \in Slots |-> "none"]
    /\ seen = [s \in Slots |-> None]
    /\ heartbeat = [s \in Slots |-> "none"]

-----------------------------------------------------------------------------
(* websocket_to_http_health_url *)

\* Where the first '/' of the http url is: the second character of "://".
FirstSlash(scheme) == IF scheme = "wss" THEN 6 ELSE 5

\* Mutant: the path is kept, as for a url that does not end with '/'.
HealthPathAppended(endpoint) == "/path/health"

\* The path of the health url.  find gives the first '/', which is never
\* beyond 7, so that what follows the authority is kept.
HealthPath(endpoint) ==
    IF FirstSlash(endpoint.scheme) > 7 \/ endpoint.path \in {"", "/"}
    THEN "/health" ELSE "/path/health"

\* handle_websocket_or_health_request answers /health with its instance id, and
\* any other GET without an upgrade with 400 and a text.
AnswersWithInstance(path) == path = "/health"

-----------------------------------------------------------------------------
(* The server's instances *)

\* A deployment or a restart: the load balancer knows the new instance.
StartInstance ==
    /\ started < Instances
    /\ started' = started + 1
    /\ running' = running \cup {started'}
    /\ targets' = targets \cup {started'}
    /\ UNCHANGED <<resets, loopVars, taskVars>>

\* The old instance gets no new connections; those it has stay open.
Drain(i) ==
    /\ i \in targets
    /\ started \in targets \ {i}
    /\ targets' = targets \ {i}
    /\ UNCHANGED <<started, running, resets, loopVars, taskVars>>

\* The instance is gone, and ends is what becomes of a socket to it.
Gone(i, ends) ==
    /\ i \in running
    /\ running' = running \ {i}
    /\ targets' = targets \ {i}
    /\ sock' = IF peer = i /\ sock = "open" THEN ends ELSE sock
    /\ UNCHANGED <<started, resets, loop, cur, peer, roll, queued>>

\* The process ends: its connections are closed or reset.
StopInstance(i) ==
    /\ \E ends \in {"closed", "reset"} : Gone(i, ends)
    /\ UNCHANGED taskVars

\* Its host is gone without a word.  A poll it had received, and a message it
\* had acknowledged, are waited for in vain.
VanishInstance(i) ==
    /\ \E ends \in {"silent", "unacked"} : Gone(i, ends)
    /\ \E polls \in SUBSET {s \in Slots : monitor[s] = "run" /\ i \in targets} :
           monitor' = [s \in Slots |-> IF s \in polls THEN "hung" ELSE monitor[s]]
    /\ UNCHANGED <<seen, heartbeat>>

ResetConnection ==
    /\ resets < MaxResets
    /\ sock = "open"
    /\ resets' = resets + 1
    /\ sock' = "reset"
    /\ UNCHANGED <<started, running, targets, loop, cur, peer, roll, queued, taskVars>>

\* TCP gives up after its retransmissions.
TcpTimeout ==
    /\ sock = "unacked"
    /\ sock' = "reset"
    /\ UNCHANGED <<serverVars, loop, cur, peer, roll, queued, taskVars>>

-----------------------------------------------------------------------------
(* run, and connect_and_handle up to the registration *)

Free == {s \in Slots : monitor[s] = "none" /\ heartbeat[s] = "none"}

Sleep ==
    /\ loop = "sleep"
    /\ loop' = "connect"
    /\ UNCHANGED <<serverVars, cur, peer, sock, roll, queued, taskVars>>

\* connect_async fails: the load balancer has nobody to lead to.
ConnectFails ==
    /\ loop = "connect"
    /\ targets = {}
    /\ loop' = "sleep"
    /\ UNCHANGED <<serverVars, cur, peer, sock, roll, queued, taskVars>>

\* connect_async has a TCP connection to a target and begins TLS and upgrade.
Connect ==
    /\ loop = "connect"
    /\ loop' = "upgrade"
    /\ peer' \in targets
    /\ sock' = "open"
    /\ UNCHANGED <<serverVars, cur, roll, queued, taskVars>>

\* The instance answers the upgrade, and the IAM message is sent.
Upgraded ==
    /\ loop = "upgrade"
    /\ sock = "open"
    /\ loop' = "auth"
    /\ Free # {}
    /\ cur' = CHOOSE s \in Free : TRUE
    /\ UNCHANGED <<serverVars, peer, sock, roll, queued, taskVars>>

\* The auth reply is a success: registration and first heartbeat are sent, the
\* channels made and both tasks spawned.
Authenticated ==
    /\ loop = "auth"
    /\ sock = "open"
    /\ loop' = "serve"
    /\ monitor' = [monitor EXCEPT ![cur] = "run"]
    /\ heartbeat' = [heartbeat EXCEPT ![cur] = "run"]
    /\ UNCHANGED <<serverVars, cur, peer, sock, roll, queued, seen>>

\* The function returns: its socket and its channels' receivers are dropped.
Leave ==
    /\ loop' = "sleep"
    /\ cur' = None /\ peer' = None /\ sock' = "none"
    /\ roll' = "no" /\ queued' = "no"

\* The connection ends before the upgrade's answer.  connect_async has no timeout
\* either, and waits on a silent socket for ever.
UpgradeFails ==
    /\ loop = "upgrade"
    /\ sock \in {"closed", "reset"}
    /\ Leave
    /\ UNCHANGED <<serverVars, taskVars>>

\* Mutant: a read error during authentication is ignored like a pong.
AuthFailsUnlessError ==
    /\ loop = "auth"
    /\ sock \in {"open", "closed"}
    /\ Leave
    /\ UNCHANGED <<serverVars, taskVars>>

\* Mutant: the refused session is kept.
AuthFailsAndStays ==
    /\ loop = "auth"
    /\ sock \in {"open", "closed", "reset"}
    /\ loop' = "sleep"
    /\ UNCHANGED <<serverVars, cur, peer, sock, roll, queued, taskVars>>

\* The reply is a refusal, or the connection ends before it.  A silent socket is
\* waited on for ever: nothing is written, and there is no timeout.
AuthFails ==
    /\ loop = "auth"
    /\ sock \in {"open", "closed", "reset"}
    /\ Leave
    /\ UNCHANGED <<serverVars, taskVars>>

-----------------------------------------------------------------------------
(* The loop of connect_and_handle *)

\* break: both tasks are aborted.
Break ==
    /\ Leave
    /\ monitor' = [monitor EXCEPT ![cur] = "none"]
    /\ seen' = [seen EXCEPT ![cur] = None]
    /\ heartbeat' = [heartbeat EXCEPT ![cur] = "none"]

\* ?: nothing more is done.
ReturnError == Leave /\ UNCHANGED taskVars

\* What is written reaches the peer, or the kernel only.
WriteFails == sock \in {"closed", "reset"}
Write ==
    /\ ~ WriteFails
    /\ sock' = IF sock = "silent" THEN "unacked" ELSE sock

\* A request or a tunnel's init: the loop waits for the local service.
TakeRequest ==
    /\ loop = "serve"
    /\ sock = "open"
    /\ loop' = "call"
    /\ UNCHANGED <<serverVars, cur, peer, sock, roll, queued, taskVars>>

\* The local service has answered, or failed, which is a response as well.
Respond ==
    /\ loop = "call"
    /\ \/ /\ Write
          /\ loop' = "serve"
          /\ UNCHANGED <<cur, peer, roll, queued, taskVars>>
       \/ WriteFails /\ ReturnError
    /\ UNCHANGED serverVars

\* A close frame or the end of the stream.
ReadClose ==
    /\ loop = "serve"
    /\ sock = "closed"
    /\ Break
    /\ UNCHANGED serverVars

ReadError ==
    /\ loop = "serve"
    /\ sock = "reset"
    /\ ReturnError
    /\ UNCHANGED serverVars

SendHeartbeat ==
    /\ loop = "serve"
    /\ queued = "yes"
    /\ \/ /\ Write
          /\ queued' = "no"
          /\ UNCHANGED <<loop, cur, peer, roll, taskVars>>
       \/ WriteFails /\ Break
    /\ UNCHANGED serverVars

\* reconnect_rx.changed()
ServerRolled ==
    /\ loop = "serve"
    /\ roll = "yes"
    /\ Break
    /\ UNCHANGED serverVars

-----------------------------------------------------------------------------
(* The tasks of a session *)

\* Mutant: the result of the send is ignored.
HeartbeatTickAlways(s) ==
    /\ heartbeat[s] = "run"
    /\ queued' = IF cur = s THEN "yes" ELSE queued
    /\ UNCHANGED <<serverVars, loop, cur, peer, sock, roll, taskVars>>

\* Every 15 seconds; sending fails when the loop has dropped its receiver.
HeartbeatTick(s) ==
    /\ heartbeat[s] = "run"
    /\ \/ cur = s /\ queued' = "yes" /\ UNCHANGED heartbeat
       \/ cur # s /\ heartbeat' = [heartbeat EXCEPT ![s] = "none"] /\ UNCHANGED queued
    /\ UNCHANGED <<serverVars, loop, cur, peer, sock, roll, monitor, seen>>

\* Mutant: every answer becomes the last instance.
PollForgetful(s) ==
    /\ monitor[s] = "run"
    /\ AnswersWithInstance(HealthPath(Endpoint))
    /\ \E i \in targets : seen' = [seen EXCEPT ![s] = i]
    /\ UNCHANGED <<serverVars, loopVars, monitor, heartbeat>>

\* Mutant: the monitor ends without a signal.
PollWithoutSignal(s) ==
    /\ monitor[s] = "run"
    /\ AnswersWithInstance(HealthPath(Endpoint))
    /\ \E i \in targets :
           \/ /\ seen[s] = None
              /\ seen' = [seen EXCEPT ![s] = i]
              /\ UNCHANGED monitor
           \/ /\ seen[s] \notin {None, i}
              /\ monitor' = [monitor EXCEPT ![s] = "none"]
              /\ seen' = [seen EXCEPT ![s] = None]
    /\ UNCHANGED <<serverVars, loopVars, heartbeat>>

\* Every 10 seconds.  An error, an answer that is not JSON and the instance
\* seen last change nothing; the first instance is noted, and another one is
\* signalled to the loop, if it is still there, and the task ends.
Poll(s) ==
    /\ monitor[s] = "run"
    /\ AnswersWithInstance(HealthPath(Endpoint))
    /\ \E i \in targets :
           \/ /\ seen[s] = None
              /\ seen' = [seen EXCEPT ![s] = i]
              /\ UNCHANGED <<monitor, roll>>
           \/ /\ seen[s] \notin {None, i}
              /\ roll' = IF cur = s THEN "yes" ELSE roll
              /\ monitor' = [monitor EXCEPT ![s] = "none"]
              /\ seen' = [seen EXCEPT ![s] = None]
    /\ UNCHANGED <<serverVars, loop, cur, peer, sock, queued, heartbeat>>

-----------------------------------------------------------------------------
LoopStep ==
    \/ Sleep \/ ConnectFails \/ Connect \/ Upgraded \/ UpgradeFails
    \/ Respond \/ ReadClose \/ ReadError \/ SendHeartbeat \/ ServerRolled

ServersStep ==
    \/ StartInstance
    \/ \E i \in Servers : Drain(i) \/ StopInstance(i) \/ VanishInstance(i)

Next ==
    \/ ServersStep \/ ResetConnection \/ TcpTimeout
    \/ LoopStep \/ Authenticated \/ AuthFails \/ TakeRequest
    \/ \E s \in Slots : HeartbeatTick(s) \/ Poll(s)

\* The tasks run when they can, select! polls its branches in random order, and
\* the local service answers, for there is no timeout on it, as there is none on
\* the signing of the STS url.  An instance that runs answers the upgrade, and an
\* agent that authenticates again and again is accepted one day.
Fairness ==
    /\ WF_meshVars(LoopStep)
    /\ SF_meshVars(ServerRolled)
    /\ SF_meshVars(SendHeartbeat)
    /\ SF_meshVars(Authenticated)
    /\ WF_meshVars(AuthFails)
    /\ WF_meshVars(TcpTimeout)
    /\ \A s \in Slots : WF_meshVars(HeartbeatTick(s)) /\ WF_meshVars(Poll(s))

SafeSpec == Init /\ [][Next]_meshVars
Spec == SafeSpec /\ Fairness

-----------------------------------------------------------------------------
(* Properties *)

\* client_impl.rs:489-497: a session that is served has its heartbeat task, and
\* its monitor ends only after its signal.  So neither channel is ever found
\* closed: recv() would end the session, and changed() would fail at every turn
\* of the loop from then on.
ChannelsLast ==
    loop \in {"serve", "call"} =>
        /\ heartbeat[cur] = "run"
        /\ monitor[cur] \in {"run", "hung"} \/ roll = "yes"

\* client_impl.rs:383-451: when a session is over, its heartbeat task finds out
\* and ends, also when the session ended without aborting it.
HeartbeatTaskEnds ==
    \A s \in Slots : heartbeat[s] = "run" /\ cur # s ~> heartbeat[s] = "none"

\* client_impl.rs:396-430: a monitor that knows an instance which the load
\* balancer does not lead to any more does not run on, be it the monitor of the
\* session or one that was left behind, unless its poll is never answered, or
\* nobody is there to poll.
MonitorSeesRoll ==
    \A s \in Slots :
        monitor[s] = "run" /\ seen[s] \notin targets \cup {None}
            ~> monitor[s] # "run" \/ targets = {}

\* client_impl.rs:496-502: an agent whose monitor knew the instance the agent is
\* connected to leaves it after it was drained: requests go to another instance
\* now, on which the agent is not registered.
DrainedInstanceLeft ==
    \A s \in Slots :
        /\ cur = s /\ loop = "serve"
        /\ seen[s] = peer /\ peer \notin targets
        ~> cur # s \/ monitor[s] = "hung" \/ targets = {}

\* client_impl.rs:393-422: the monitor of a session learns which instance there
\* is.  It does when the endpoint has no path, and does not when it has one.
MonitorLearnsInstance ==
    \A s \in Slots :
        cur = s /\ loop = "serve"
            ~> cur # s \/ seen[s] # None \/ monitor[s] = "hung" \/ targets = {}

\* client_impl.rs:273-359: whatever happened to connections and instances, when
\* a single instance stays the agent comes to be served by it for ever.  The
\* exception is an agent that waits for an instance that vanished to answer the
\* upgrade (:292) or the authentication (:329): neither wait has a timeout, and
\* nothing else ends it.
StuckConnecting == loop \in {"upgrade", "auth"} /\ sock = "silent"
ServesAgain ==
    \A i \in Servers :
        <>[](running = {i} /\ targets = {i}) =>
            <>[](loop \in {"serve", "call"} /\ peer = i) \/ <>[]StuckConnecting

-----------------------------------------------------------------------------
(* What a comment of the code says *)

\* client_impl.rs:519: "Stop the heartbeat and health monitor tasks".
TasksStopped ==
    \A s \in Slots : monitor[s] = "run" /\ cur # s ~> monitor[s] # "run"
=============================================================================
