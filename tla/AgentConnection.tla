--------------------------- MODULE AgentConnection ---------------------------
(***************************************************************************)
(* One agent's websocket, from both of its ends.                           *)
(*                                                                         *)
(* The server's end is handle_websocket_stream (server/service.rs): it     *)
(* stores the connection's sender, spawns a task that handles incoming     *)
(* messages and one that writes outgoing ones, waits for either to finish, *)
(* and removes the connection from the registry.  The task that did not    *)
(* finish is not aborted: it runs on, next to the removal and after it.    *)
(*                                                                         *)
(* The agent's end is connect_and_handle (client/client_impl.rs):          *)
(* authenticate, wait for the reply, register, heartbeat, serve requests.  *)
(*                                                                         *)
(* Between them is a TCP connection: in order, without duplicates, and     *)
(* able to lose what is in flight when it breaks.  A connection is used by *)
(* one stream of the server only, so each is independent of the others.    *)
(***************************************************************************)
EXTENDS Registry, Sequences

CONSTANTS
    InFlight,   \* bound: heartbeats and responses in flight to the server
    Backlog     \* bound: messages on their way to the agent when one more is forwarded

ASSUME AgentConnectionAssumption ==
    /\ InFlight \in Nat \ {0}
    /\ Backlog \in Nat \ {0}

VARIABLES
    stream,     \* per connection: where handle_websocket_stream is
    incoming,   \* where its reading task is
    outgoing,   \* "none", "run" or "done": its writing task
    outbox,     \* its mpsc queue
    up, down,   \* what is in flight to the server, and to the agent
    agent,      \* where connect_and_handle is
    sock,       \* "up", "fin" (closed by the agent) or "lost"
    published,  \* the registration was in the registry for others to copy
    held        \* the connections whose sender a tunnel keeps a clone of

streamVars == <<stream, incoming, outgoing, outbox>>
wireVars == <<up, down, agent, sock>>
connVars == <<registryVars, streamVars, wireVars, published, held>>

UpMessages == {"auth", "register", "heartbeat", "response"}
DownMessages == {"auth_ok", "auth_fail", "ack", "request", "frame"}

TypeOK ==
    /\ RegistryTypeOK
    /\ stream \in [Conns -> {"none", "select", "rm_connection",
                             "rm_registration", "rm_sender", "ended"}]
    /\ incoming \in [Conns -> UpMessages \cup DownMessages \cup
                              {"none", "read", "register_service", "done"}]
    /\ outgoing \in [Conns -> {"none", "run", "done"}]
    /\ outbox \in [Conns -> Seq(DownMessages)]
    /\ up \in [Conns -> Seq(UpMessages)]
    /\ down \in [Conns -> Seq(DownMessages)]
    /\ agent \in [Conns -> {"none", "auth", "serve", "gone"}]
    /\ sock \in [Conns -> {"up", "fin", "lost"}]
    /\ published \subseteq Conns
    /\ held \subseteq Conns

Init ==
    /\ RegistryInit
    /\ stream = [c \in Conns |-> "none"]
    /\ incoming = [c \in Conns |-> "none"]
    /\ outgoing = [c \in Conns |-> "none"]
    /\ outbox = [c \in Conns |-> <<>>]
    /\ up = [c \in Conns |-> <<>>]
    /\ down = [c \in Conns |-> <<>>]
    /\ agent = [c \in Conns |-> "none"]
    /\ sock = [c \in Conns |-> "up"]
    /\ published = {}
    /\ held = {}

-----------------------------------------------------------------------------
(* The agent *)

\* What is written to a broken connection is lost.
SendUp(c, msgs) ==
    up' = IF sock[c] = "up" THEN [up EXCEPT ![c] = @ \o msgs] ELSE up

AgentGoesTo(c, where) == agent' = [agent EXCEPT ![c] = where]

\* Mutant: the agent does not wait for the authentication's reply.
ConnectPipelined(c) ==
    /\ agent[c] = "none"
    /\ AgentGoesTo(c, "auth")
    /\ SendUp(c, <<"auth", "register", "heartbeat">>)
    /\ UNCHANGED <<registryVars, streamVars, down, sock, published, held>>

\* The upgrade succeeded; the agent sends its identity and waits.
Connect(c) ==
    /\ agent[c] = "none"
    /\ AgentGoesTo(c, "auth")
    /\ SendUp(c, <<"auth">>)
    /\ UNCHANGED <<registryVars, streamVars, down, sock, published, held>>

TakeDown(c, msgs) ==
    /\ down[c] # <<>>
    /\ Head(down[c]) \in msgs
    /\ down' = [down EXCEPT ![c] = Tail(@)]

\* Mutant: the first heartbeat is sent before the registration.
HeartbeatFirst(c) ==
    /\ agent[c] = "auth"
    /\ TakeDown(c, {"auth_ok"})
    /\ SendUp(c, <<"heartbeat", "register">>)
    /\ AgentGoesTo(c, "serve")
    /\ UNCHANGED <<registryVars, streamVars, sock, published, held>>

\* One registration per connection, and a heartbeat right after it.
Authenticated(c) ==
    /\ agent[c] = "auth"
    /\ TakeDown(c, {"auth_ok"})
    /\ SendUp(c, <<"register", "heartbeat">>)
    /\ AgentGoesTo(c, "serve")
    /\ UNCHANGED <<registryVars, streamVars, sock, published, held>>

Refused(c) ==
    /\ agent[c] = "auth"
    /\ TakeDown(c, {"auth_fail"})
    /\ AgentGoesTo(c, "gone")
    /\ sock' = [sock EXCEPT ![c] = IF @ = "up" THEN "fin" ELSE @]
    /\ UNCHANGED <<registryVars, streamVars, up, published, held>>

\* Every 15 seconds, when the agent's loop is free.
SendHeartbeat(c) ==
    /\ agent[c] = "serve"
    /\ Len(up[c]) < InFlight
    /\ SendUp(c, <<"heartbeat">>)
    /\ UNCHANGED <<registryVars, streamVars, down, agent, sock, published, held>>

\* handle_ingress_message answers each request before the next is read; the
\* registration's acknowledgement is only logged, and a tunnel's message is
\* queued for its session (WsTunnel).
HandleIngressMessage(c) ==
    /\ agent[c] = "serve"
    /\ TakeDown(c, {"ack", "request", "frame"})
    /\ IF Head(down[c]) = "request"
       THEN Len(up[c]) < InFlight /\ SendUp(c, <<"response">>)
       ELSE UNCHANGED up
    /\ UNCHANGED <<registryVars, streamVars, agent, sock, published, held>>

\* The loop ends (server roll, failed send, end of stream) or the process stops.
Leave(c) ==
    /\ agent[c] \in {"auth", "serve"}
    /\ AgentGoesTo(c, "gone")
    /\ sock' = [sock EXCEPT ![c] = IF @ = "up" THEN "fin" ELSE @]
    /\ UNCHANGED <<registryVars, streamVars, up, down, published, held>>

-----------------------------------------------------------------------------
(* The network *)

\* The connection is reset: either end may still read a part of what was sent.
ConnectionLost(c) ==
    /\ agent[c] # "none"
    /\ sock[c] # "lost"
    /\ sock' = [sock EXCEPT ![c] = "lost"]
    /\ \E n \in 0 .. Len(up[c]) : up' = [up EXCEPT ![c] = SubSeq(@, 1, n)]
    /\ \E n \in 0 .. Len(down[c]) : down' = [down EXCEPT ![c] = SubSeq(@, 1, n)]
    /\ UNCHANGED <<registryVars, streamVars, agent, published, held>>

\* The agent's host disappears without a word: the socket stays up.
SilentDeath(c) ==
    /\ agent[c] \in {"auth", "serve"}
    /\ sock[c] = "up"
    /\ AgentGoesTo(c, "gone")
    /\ UNCHANGED <<registryVars, streamVars, up, down, sock, published, held>>

-----------------------------------------------------------------------------
(* handle_websocket_stream *)

StreamGoesTo(c, where) == stream' = [stream EXCEPT ![c] = where]

\* register_connection, then both tasks are spawned.
HandleWebsocketStream(c) ==
    /\ agent[c] # "none"
    /\ stream[c] = "none"
    /\ InsertSender(c)
    /\ StreamGoesTo(c, "select")
    /\ incoming' = [incoming EXCEPT ![c] = "read"]
    /\ outgoing' = [outgoing EXCEPT ![c] = "run"]
    /\ UNCHANGED <<outbox, wireVars, published, held>>

\* Mutant: join! in the place of select!.
BothTasksEnded(c) ==
    /\ stream[c] = "select"
    /\ incoming[c] = "done" /\ outgoing[c] = "done"
    /\ StreamGoesTo(c, "rm_connection")
    /\ UNCHANGED <<registryVars, incoming, outgoing, outbox, wireVars, published, held>>

\* select!: the first task to finish ends the wait; the other is detached.
EitherTaskEnded(c) ==
    /\ stream[c] = "select"
    /\ incoming[c] = "done" \/ outgoing[c] = "done"
    /\ StreamGoesTo(c, "rm_connection")
    /\ UNCHANGED <<registryVars, incoming, outgoing, outbox, wireVars, published, held>>

\* Mutant: the sender is removed first.
RemoveSenderFirst(c) ==
    /\ \/ stream[c] = "rm_connection" /\ DropSender(c)
                                      /\ StreamGoesTo(c, "rm_registration")
       \/ stream[c] = "rm_registration" /\ DropRegistration(c)
                                        /\ StreamGoesTo(c, "rm_sender")
       \/ stream[c] = "rm_sender" /\ DropConnection(c)
                                  /\ StreamGoesTo(c, "ended")
    /\ UNCHANGED <<incoming, outgoing, outbox, wireVars, published, held>>

\* remove_connection takes the registry's three locks one after the other.
RemoveConnection(c) ==
    /\ \/ stream[c] = "rm_connection" /\ DropConnection(c)
                                      /\ StreamGoesTo(c, "rm_registration")
       \/ stream[c] = "rm_registration" /\ DropRegistration(c)
                                        /\ StreamGoesTo(c, "rm_sender")
       \/ stream[c] = "rm_sender" /\ DropSender(c)
                                  /\ StreamGoesTo(c, "ended")
    /\ UNCHANGED <<incoming, outgoing, outbox, wireVars, published, held>>

-----------------------------------------------------------------------------
(* The reading task: handle_websocket_message and the dispatcher.  While it *)
(* works on a message, incoming holds that message, or the reply it sends.  *)

IncomingGoesTo(c, where) == incoming' = [incoming EXCEPT ![c] = where]

ReadMessage(c) ==
    /\ incoming[c] = "read"
    /\ up[c] # <<>>
    /\ IncomingGoesTo(c, Head(up[c]))
    /\ up' = [up EXCEPT ![c] = Tail(@)]
    /\ UNCHANGED <<registryVars, stream, outgoing, outbox, down, agent, sock,
                   published, held>>

\* A close frame, the end of the stream or an error ends the task.
EndOfStream(c) ==
    /\ incoming[c] = "read"
    /\ up[c] = <<>>
    /\ sock[c] # "up"
    /\ IncomingGoesTo(c, "done")
    /\ UNCHANGED <<registryVars, stream, outgoing, outbox, wireVars, published, held>>

\* Mutant: a refusal is not sent to the agent.
RefuseSilently(c) ==
    /\ incoming[c] = "auth"
    /\ \E next \in {"auth_ok", "read"} : IncomingGoesTo(c, next)
    /\ UNCHANGED <<registryVars, stream, outgoing, outbox, wireVars, published, held>>

\* handle_iam_auth: the answer of STS and of the role patterns is either.
HandleIamAuth(c) ==
    /\ incoming[c] = "auth"
    /\ \E reply \in {"auth_ok", "auth_fail"} : IncomingGoesTo(c, reply)
    /\ UNCHANGED <<registryVars, stream, outgoing, outbox, wireVars, published, held>>

\* register_service: first the connection's entry, then the registration.
HandleServiceRegistration(c) ==
    /\ \/ /\ incoming[c] = "register"
          /\ InsertConnection(c)
          /\ IncomingGoesTo(c, "register_service")
          /\ UNCHANGED published
       \/ /\ incoming[c] = "register_service"
          /\ InsertRegistration(c)
          /\ IncomingGoesTo(c, "ack")
          /\ published' = published \cup {c}
    /\ UNCHANGED <<stream, outgoing, outbox, wireVars, held>>

HandleHeartbeat(c) ==
    /\ incoming[c] = "heartbeat"
    /\ UpdateHeartbeat(c) \/ (connections[c] = None /\ UNCHANGED registryVars)
    /\ IncomingGoesTo(c, "read")
    /\ UNCHANGED <<stream, outgoing, outbox, wireVars, published, held>>

\* The router's part of it is Router!HandleResponse.
HandleProxyResponse(c) ==
    /\ incoming[c] = "response"
    /\ IncomingGoesTo(c, "read")
    /\ UNCHANGED <<registryVars, stream, outgoing, outbox, wireVars, published, held>>

\* A message can be queued while the sender is stored and the writer lives.
CanSend(c) == c \in connection_senders /\ outgoing[c] = "run"

\* send_response: an error is logged and the task goes on.
SendResponse(c) ==
    /\ incoming[c] \in {"auth_ok", "auth_fail", "ack"}
    /\ outbox' = IF CanSend(c) THEN [outbox EXCEPT ![c] = Append(@, incoming[c])]
                               ELSE outbox
    /\ IncomingGoesTo(c, "read")
    /\ UNCHANGED <<registryVars, stream, outgoing, wireVars, published, held>>

-----------------------------------------------------------------------------
(* The writing task *)

\* Writing to a broken connection may succeed (the kernel takes it) or fail.
WriteMessage(c) ==
    /\ outgoing[c] = "run"
    /\ outbox[c] # <<>>
    /\ \/ /\ down' = IF sock[c] = "up" THEN [down EXCEPT ![c] = Append(@, Head(outbox[c]))]
                                       ELSE down
          /\ outbox' = [outbox EXCEPT ![c] = Tail(@)]
          /\ UNCHANGED outgoing
       \/ /\ sock[c] # "up"
          /\ outgoing' = [outgoing EXCEPT ![c] = "done"]
          /\ outbox' = [outbox EXCEPT ![c] = <<>>]
          /\ UNCHANGED down
    /\ UNCHANGED <<registryVars, stream, incoming, up, agent, sock, published, held>>

\* recv gives None once the queue is empty and every sender is dropped: the
\* stored one and a tunnel's clones of it.
SendersGone(c) ==
    /\ outgoing[c] = "run"
    /\ outbox[c] = <<>>
    /\ c \notin connection_senders /\ c \notin held
    /\ outgoing' = [outgoing EXCEPT ![c] = "done"]
    /\ UNCHANGED <<registryVars, stream, incoming, outbox, wireVars, published, held>>

\* A router task, with a list of services that may be old, forwards a request:
\* Router!Forward.
ForwardRequest(c) ==
    /\ c \in published
    /\ CanSend(c)
    /\ Len(outbox[c]) + Len(down[c]) < Backlog
    /\ outbox' = [outbox EXCEPT ![c] = Append(@, "request")]
    /\ UNCHANGED <<registryVars, stream, incoming, outgoing, wireVars, published, held>>

\* A tunnel sends its init, for which it takes a clone of the stored sender, or
\* a later message through the clone it has, which works although the connection
\* is removed: proxy_websocket and its two tasks.
TunnelSends(c) ==
    /\ c \in published
    /\ c \in held \/ c \in connection_senders
    /\ outgoing[c] = "run"
    /\ Len(outbox[c]) + Len(down[c]) < Backlog
    /\ outbox' = [outbox EXCEPT ![c] = Append(@, "frame")]
    /\ held' = held \cup {c}
    /\ UNCHANGED <<registryVars, stream, incoming, outgoing, wireVars, published>>

\* A tunnel returns and drops its clones.  Nothing bounds when: it waits for the
\* agent's acknowledgement, and for the browser to end, without a timeout.
TunnelEnds(c) ==
    /\ c \in held
    /\ held' = held \ {c}
    /\ UNCHANGED <<registryVars, streamVars, wireVars, published>>

-----------------------------------------------------------------------------
ServerStep(c) ==
    \/ EitherTaskEnded(c) \/ RemoveConnection(c)
IncomingStep(c) ==
    \/ ReadMessage(c) \/ EndOfStream(c) \/ HandleIamAuth(c)
    \/ HandleServiceRegistration(c) \/ HandleHeartbeat(c)
    \/ HandleProxyResponse(c) \/ SendResponse(c)
OutgoingStep(c) == WriteMessage(c) \/ SendersGone(c)
TunnelStep(c) == TunnelSends(c) \/ TunnelEnds(c)
AgentStep(c) ==
    \/ Authenticated(c) \/ Refused(c) \/ HandleIngressMessage(c)

Next ==
    \E c \in Conns :
        \/ HandleWebsocketStream(c) \/ ServerStep(c)
        \/ IncomingStep(c) \/ OutgoingStep(c)
        \/ ForwardRequest(c) \/ TunnelStep(c)
        \/ Connect(c) \/ AgentStep(c) \/ SendHeartbeat(c) \/ Leave(c)
        \/ ConnectionLost(c) \/ SilentDeath(c)

\* The runtime runs every task that can make progress.  The reading task's
\* fairness includes the STS call of HandleIamAuth, which has no timeout: the
\* liveness properties assume that STS answers.  Nothing makes a tunnel end.
Fairness ==
    \A c \in Conns :
        /\ WF_connVars(HandleWebsocketStream(c))
        /\ WF_connVars(ServerStep(c))
        /\ WF_connVars(IncomingStep(c))
        /\ WF_connVars(OutgoingStep(c))
        /\ WF_connVars(AgentStep(c))

SafeSpec == Init /\ [][Next]_connVars
Spec == SafeSpec /\ Fairness

-----------------------------------------------------------------------------
(* Properties *)

\* registry.rs:21, service.rs:162: once the stream has ended, no map holds
\* anything of the connection, now or later, although a reading task that was
\* not aborted (service.rs:157-160) may still be handling messages.
CleanupComplete ==
    \A c \in Conns : stream[c] = "ended" =>
        /\ connections[c] = None
        /\ c \notin registrations
        /\ c \notin connection_senders

\* Whoever copies the registrations finds only connections whose sender is
\* stored, at every point of registering and removing (registry.rs:81-135).
RegisteredHasSender == registrations \subseteq connection_senders

\* A heartbeat is not refused as one of an unknown connection (registry.rs:155)
\* unless the connection is being removed: registering and the heartbeats sent
\* right behind it never overtake each other.
HeartbeatKnown ==
    \A c \in Conns : stream[c] = "select" /\ incoming[c] = "heartbeat" =>
        connections[c] # None /\ c \in registrations

\* A connection that is closed or reset is removed from the registry, and both
\* of its tasks end; the writing task (service.rs:140) does not if a tunnel
\* keeps its clone of the sender for ever, which nothing prevents.
DeadConnectionCleaned ==
    \A c \in Conns : agent[c] # "none" /\ sock[c] # "up" ~>
        /\ stream[c] = "ended"
        /\ incoming[c] = "done"
        /\ outgoing[c] = "done" \/ [](c \in held)

\* An agent that connects ends up registered, unless it leaves, is refused, or
\* loses its connection.
AgentRegistered ==
    \A c \in Conns : agent[c] = "auth" ~>
        c \in registrations \/ agent[c] = "gone" \/ sock[c] = "lost"

-----------------------------------------------------------------------------
(* What the rest of the server may rely on *)

LifeOf(c) ==
    CASE stream[c] = "none" -> "none"
      [] stream[c] \in {"select", "rm_connection"} ->
             IF incoming[c] = "register_service" THEN "listing"
             ELSE IF c \in published THEN "listed" ELSE "accepted"
      [] stream[c] = "rm_registration" -> "no_connection"
      [] stream[c] = "rm_sender" -> "no_registration"
      [] stream[c] = "ended" -> "gone"

ReceiverOf(c) ==
    CASE outgoing[c] = "none" -> "none"
      [] outgoing[c] = "run" -> "open"
      [] outgoing[c] = "done" -> "dropped"

lifeBar == [c \in Conns |-> LifeOf(c)]
receiverBar == [c \in Conns |-> ReceiverOf(c)]

Life == INSTANCE ConnectionLife WITH life <- lifeBar, receiver <- receiverBar

\* registry.rs:70-165 as service.rs:97-169 and dispatcher.rs:65-120 call it: a
\* connection is listed at most once, its entry first, and removed once, its
\* entry first and its sender last; nothing that a reading task does which
\* outlives the removal comes in between, or afterwards.
ImplementsConnectionLife == Life!LifeSpec
=============================================================================
