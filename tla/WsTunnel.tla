------------------------------- MODULE WsTunnel -------------------------------
(***************************************************************************)
(* One websocket tunnelled from a browser, behind the ALB, to the          *)
(* application beside an agent:                                            *)
(*                                                                         *)
(*   browser <-> server (ws_proxy.rs) <-> agent (proxy/ws.rs) <-> app      *)
(*                                                                         *)
(* The two ends are real websockets.  Between server and agent the tunnel's *)
(* messages travel on the agent's own connection, in order both ways, next *)
(* to everything AgentConnection describes.  Each tunnel has a fresh       *)
(* session id, by which every map is keyed, so one tunnel is modelled.     *)
(***************************************************************************)
EXTENDS Naturals, Sequences, SequencesExt

CONSTANT Frames     \* bound: data frames that each end sends

ASSUME WsTunnelAssumption == Frames \in Nat

VARIABLES
    \* the server
    tunnel,         \* where start_ws_tunnel_from_alb, or the task it spawns, is
    ws_sessions,    \* the session is in the server's map
    ws_init_waiters,
    ack,            \* what the waiter's oneshot channel holds
    albOut,         \* the session's queue of frames for the browser
    albReader,      \* the task alb_to_agent: "none", "run" or "done"
    albWriter,      \* the task agent_to_alb
    \* the agent
    init,           \* where handle_init is: "none", "connect", "spawned", "over"
    sessions,       \* the session is in the agent's map
    localOut,       \* the session's queue of frames for the application
    reader, writer, \* the agent's two tasks of the session
    \* the agent's connection
    link, toAgent, toServer,
    \* the two far ends, "browser" and "app"
    far,            \* "absent", "open", "closed" (has sent its close), "reset"
    sent,           \* how many data frames it has sent
    inbound,        \* what it sent and the mesh has not read
    got             \* what it received, in order

serverVars == <<tunnel, ws_sessions, ws_init_waiters, ack, albOut, albReader, albWriter>>
agentVars == <<init, sessions, localOut, reader, writer>>
linkVars == <<link, toAgent, toServer>>
farVars == <<far, sent, inbound, got>>
vars == <<serverVars, agentVars, linkVars, farVars>>

Ends == {"browser", "app"}

\* A frame, or a message between server and agent; data frames are numbered.
Frame(kind) == [kind |-> kind, no |-> 0]
DataFrame(n) == [kind |-> "data", no |-> n]
Close == Frame("close")
Data == {DataFrame(n) : n \in 1 .. Frames}
WsFrames == Data \cup {Close}
Acks == {Frame("ok"), Frame("fail")}
TaskStates == {"none", "run", "done"}

Types ==
    /\ tunnel \in {"start", "init_sent", "session", "upgrade", "await_ack", "open",
                   "rm_waiter", "rm_session", "ended", "refused", "abandoned"}
    /\ ws_sessions \in BOOLEAN /\ ws_init_waiters \in BOOLEAN /\ sessions \in BOOLEAN
    /\ ack \in {"none", "ok", "fail"}
    /\ albOut \in Seq(WsFrames) /\ localOut \in Seq(WsFrames)
    /\ {albReader, albWriter, reader, writer} \subseteq TaskStates
    /\ init \in {"none", "connect", "spawned", "over"}
    /\ link \in {"up", "down"}
    /\ toAgent \in Seq(WsFrames \cup {Frame("init")})
    /\ toServer \in Seq(WsFrames \cup Acks)
    /\ far \in [Ends -> {"absent", "open", "closed", "reset"}]
    /\ sent \in [Ends -> 0 .. Frames]
    /\ inbound \in [Ends -> Seq(WsFrames)]
    /\ got \in [Ends -> Seq(WsFrames)]

\* No queue holds more than what the ends sent, two closes to the agent (the
\* browser's and the one that ends the tunnel), and the agent's acknowledgement.
TypeOK ==
    /\ Types
    /\ Len(toServer) <= Frames + 2 /\ Len(toAgent) <= Frames + 2

Init ==
    /\ tunnel = "start" /\ ack = "none"
    /\ ws_sessions = FALSE /\ ws_init_waiters = FALSE /\ sessions = FALSE
    /\ albOut = <<>> /\ localOut = <<>>
    /\ albReader = "none" /\ albWriter = "none"
    /\ reader = "none" /\ writer = "none"
    /\ init = "none"
    /\ link = "up" /\ toAgent = <<>> /\ toServer = <<>>
    /\ far = [e \in Ends |-> IF e = "browser" THEN "open" ELSE "absent"]
    /\ sent = [e \in Ends |-> 0]
    /\ inbound = [e \in Ends |-> <<>>]
    /\ got = [e \in Ends |-> <<>>]

-----------------------------------------------------------------------------
(* The far ends and the network *)

\* The browser can send once it has the answer to its upgrade.
Speaks(e) ==
    /\ far[e] = "open"
    /\ e = "browser" => tunnel \notin {"start", "init_sent", "session", "refused"}

FarSends(e) ==
    /\ Speaks(e)
    /\ sent[e] < Frames
    /\ sent' = [sent EXCEPT ![e] = @ + 1]
    /\ inbound' = [inbound EXCEPT ![e] = Append(@, DataFrame(sent'[e]))]
    /\ UNCHANGED <<serverVars, agentVars, linkVars, far, got>>

FarCloses(e) ==
    /\ Speaks(e)
    /\ far' = [far EXCEPT ![e] = "closed"]
    /\ inbound' = [inbound EXCEPT ![e] = Append(@, Close)]
    /\ UNCHANGED <<serverVars, agentVars, linkVars, sent, got>>

\* It disappears without a close frame, perhaps with the last it sent.
FarResets(e) ==
    /\ far[e] = "open"
    /\ far' = [far EXCEPT ![e] = "reset"]
    /\ \E rest \in Prefixes(inbound[e]) : inbound' = [inbound EXCEPT ![e] = rest]
    /\ UNCHANGED <<serverVars, agentVars, linkVars, sent, got>>

\* The agent's connection breaks: a part of what is in flight may still arrive.
LinkLost ==
    /\ link = "up"
    /\ link' = "down"
    /\ toAgent' \in Prefixes(toAgent)
    /\ toServer' \in Prefixes(toServer)
    /\ UNCHANGED <<serverVars, agentVars, farVars>>

\* A send on the agent's connection is never waited for, nor its error looked at.
SendToAgent(m) == toAgent' = IF link = "up" THEN Append(toAgent, m) ELSE toAgent
SendToServer(m) == toServer' = IF link = "up" THEN Append(toServer, m) ELSE toServer

\* A frame written to a far end that is open arrives.  A close is answered by one
\* when that end likes (FarCloses), or never.  Writing to an end that is not open
\* may succeed or fail.
WriteSucceeds(e, frame) ==
    /\ got' = IF far[e] = "open" THEN [got EXCEPT ![e] = Append(@, frame)] ELSE got
    /\ UNCHANGED <<far, sent, inbound>>
WriteFails(e) == far[e] # "open" /\ UNCHANGED farVars

-----------------------------------------------------------------------------
(* The server: start_ws_tunnel_from_alb *)

TunnelGoesTo(where) == tunnel' = where

\* No service, no healthy instance, no sender, or its channel is closed.
Refuse ==
    /\ tunnel = "start"
    /\ TunnelGoesTo("refused")
    /\ UNCHANGED <<ws_sessions, ws_init_waiters, ack, albOut, albReader, albWriter,
                   agentVars, linkVars, farVars>>

\* The message goes out before the session and the waiter are stored.
SendInit ==
    /\ tunnel = "start"
    /\ SendToAgent(Frame("init"))
    /\ TunnelGoesTo("init_sent")
    /\ UNCHANGED <<ws_sessions, ws_init_waiters, ack, albOut, albReader, albWriter,
                   agentVars, link, toServer, farVars>>

StoreSession ==
    /\ tunnel = "init_sent"
    /\ ws_sessions' = TRUE
    /\ TunnelGoesTo("session")
    /\ UNCHANGED <<ws_init_waiters, ack, albOut, albReader, albWriter,
                   agentVars, linkVars, farVars>>

\* The waiter is stored, the task spawned, and the upgrade answered.
StoreWaiter ==
    /\ tunnel = "session"
    /\ ws_init_waiters' = TRUE
    /\ TunnelGoesTo("upgrade")
    /\ UNCHANGED <<ws_sessions, ack, albOut, albReader, albWriter,
                   agentVars, linkVars, farVars>>

Upgrade ==
    /\ tunnel = "upgrade"
    /\ TunnelGoesTo("await_ack")
    /\ UNCHANGED <<ws_sessions, ws_init_waiters, ack, albOut, albReader, albWriter,
                   agentVars, linkVars, farVars>>

\* The browser is gone before it is answered: the handler is dropped, or the
\* upgrade fails.  Neither takes anything out of the maps.
Abandon ==
    /\ tunnel \in {"init_sent", "session", "upgrade"}
    /\ far["browser"] = "reset"
    /\ TunnelGoesTo("abandoned")
    /\ UNCHANGED <<ws_sessions, ws_init_waiters, ack, albOut, albReader, albWriter,
                   agentVars, linkVars, farVars>>

AwaitAck ==
    /\ tunnel = "await_ack"
    /\ \/ /\ ack = "ok"
          /\ TunnelGoesTo("open")
          /\ albReader' = "run" /\ albWriter' = "run"
       \/ /\ ack = "fail"
          /\ TunnelGoesTo("rm_waiter")
          /\ UNCHANGED <<albReader, albWriter>>
    /\ UNCHANGED <<ws_sessions, ws_init_waiters, ack, albOut,
                   agentVars, linkVars, farVars>>

\* Mutant: a close ends the task like an error, and is not passed on.
SwallowClose ==
    /\ albReader = "run"
    /\ \/ /\ inbound["browser"] # <<>>
          /\ inbound' = [inbound EXCEPT !["browser"] = Tail(@)]
          /\ IF Head(inbound["browser"]) = Close
             THEN albReader' = "done" /\ UNCHANGED toAgent
             ELSE SendToAgent(Head(inbound["browser"])) /\ UNCHANGED albReader
       \/ /\ inbound["browser"] = <<>>
          /\ far["browser"] = "reset"
          /\ albReader' = "done"
          /\ UNCHANGED <<inbound, toAgent>>
    /\ UNCHANGED <<tunnel, ws_sessions, ws_init_waiters, ack, albOut, albWriter,
                   agentVars, link, toServer, far, sent, got>>

\* alb_to_agent: it ends with a close frame, which it passes on, or an error.
AlbToAgent ==
    /\ albReader = "run"
    /\ \/ /\ inbound["browser"] # <<>>
          /\ inbound' = [inbound EXCEPT !["browser"] = Tail(@)]
          /\ SendToAgent(Head(inbound["browser"]))
          /\ albReader' = IF Head(inbound["browser"]) = Close THEN "done" ELSE "run"
       \/ /\ inbound["browser"] = <<>>
          /\ far["browser"] = "reset"
          /\ albReader' = "done"
          /\ UNCHANGED <<inbound, toAgent>>
    /\ UNCHANGED <<tunnel, ws_sessions, ws_init_waiters, ack, albOut, albWriter,
                   agentVars, link, toServer, far, sent, got>>

\* agent_to_alb: it ends with a failed write, or when the session is out of the
\* map and the queue is empty.
AgentToAlb ==
    /\ albWriter = "run"
    /\ \/ /\ albOut # <<>>
          /\ \/ /\ WriteSucceeds("browser", Head(albOut))
                /\ albOut' = Tail(albOut)
                /\ UNCHANGED albWriter
             \/ /\ WriteFails("browser")
                /\ albOut' = <<>>
                /\ albWriter' = "done"
       \/ /\ albOut = <<>> /\ ~ ws_sessions
          /\ albWriter' = "done"
          /\ UNCHANGED <<albOut, farVars>>
    /\ UNCHANGED <<tunnel, ws_sessions, ws_init_waiters, ack, albReader,
                   agentVars, linkVars>>

\* Mutant: the agent is not told.
JoinSilently ==
    /\ tunnel = "open"
    /\ albReader = "done" /\ albWriter = "done"
    /\ TunnelGoesTo("rm_waiter")
    /\ UNCHANGED <<ws_sessions, ws_init_waiters, ack, albOut, albReader, albWriter,
                   agentVars, linkVars, farVars>>

\* join! of both tasks, then the agent is told.
Join ==
    /\ tunnel = "open"
    /\ albReader = "done" /\ albWriter = "done"
    /\ SendToAgent(Close)
    /\ TunnelGoesTo("rm_waiter")
    /\ UNCHANGED <<ws_sessions, ws_init_waiters, ack, albOut, albReader, albWriter,
                   agentVars, link, toServer, farVars>>

\* The socket, if still open, is dropped at the end of the task.
CleanUp ==
    /\ \/ /\ tunnel = "rm_waiter"
          /\ ws_init_waiters' = FALSE
          /\ TunnelGoesTo("rm_session")
          /\ UNCHANGED <<ws_sessions, far>>
       \/ /\ tunnel = "rm_session"
          /\ ws_sessions' = FALSE
          /\ TunnelGoesTo("ended")
          /\ far' = [far EXCEPT !["browser"] = IF @ = "open" THEN "reset" ELSE @]
          /\ UNCHANGED ws_init_waiters
    /\ UNCHANGED <<ack, albOut, albReader, albWriter, agentVars, linkVars, sent,
                   inbound, got>>

TunnelStep ==
    \/ StoreSession \/ StoreWaiter \/ Upgrade \/ AwaitAck \/ Join \/ CleanUp

-----------------------------------------------------------------------------
(* The server: the tunnel's messages from the agent, in handle_websocket_message *)

TakeFromAgent(m) ==
    /\ toServer # <<>>
    /\ Head(toServer) = m
    /\ toServer' = Tail(toServer)

\* The waiter is taken out of the map, and its task woken.
HandleInitAck ==
    /\ \E success \in {"ok", "fail"} :
          /\ TakeFromAgent(Frame(success))
          /\ ack' = IF ws_init_waiters THEN success ELSE ack
    /\ ws_init_waiters' = FALSE
    /\ UNCHANGED <<tunnel, ws_sessions, albOut, albReader, albWriter,
                   agentVars, link, toAgent, farVars>>

\* A frame can be queued until the task that empties the queue has ended.
QueueForBrowser(frame) ==
    albOut' = IF ws_sessions /\ albWriter # "done" THEN Append(albOut, frame) ELSE albOut

HandleDataFromAgent ==
    /\ \E frame \in Data : TakeFromAgent(frame) /\ QueueForBrowser(frame)
    /\ UNCHANGED <<tunnel, ws_sessions, ws_init_waiters, ack, albReader, albWriter,
                   agentVars, link, toAgent, farVars>>

\* Mutant: the queue is discarded with the session.
DiscardOnClose ==
    /\ TakeFromAgent(Close)
    /\ albOut' = IF ws_sessions /\ albWriter # "done" THEN <<Close>> ELSE albOut
    /\ ws_sessions' = FALSE
    /\ UNCHANGED <<tunnel, ws_init_waiters, ack, albReader, albWriter,
                   agentVars, link, toAgent, farVars>>

\* The session leaves the map; what is queued is still written, and the close.
HandleCloseFromAgent ==
    /\ TakeFromAgent(Close)
    /\ QueueForBrowser(Close)
    /\ ws_sessions' = FALSE
    /\ UNCHANGED <<tunnel, ws_init_waiters, ack, albReader, albWriter,
                   agentVars, link, toAgent, farVars>>

FromAgentStep == HandleInitAck \/ HandleDataFromAgent \/ HandleCloseFromAgent

-----------------------------------------------------------------------------
(* The agent: WebSocketReverseProxy.  Its loop handles one message at a time, *)
(* and handle_init holds it while it connects to the application.            *)

TakeFromServer(m) ==
    /\ init \notin {"connect", "spawned"}
    /\ toAgent # <<>>
    /\ Head(toAgent) = m
    /\ toAgent' = Tail(toAgent)

HandleInit ==
    /\ TakeFromServer(Frame("init"))
    /\ init' = "connect"
    /\ UNCHANGED <<serverVars, sessions, localOut, reader, writer, link, toServer,
                   farVars>>

\* connect_async: the session is stored and both tasks spawned, or it is refused.
ConnectToLocal ==
    /\ init = "connect"
    /\ \/ /\ init' = "spawned"
          /\ sessions' = TRUE
          /\ reader' = "run" /\ writer' = "run"
          /\ far' = [far EXCEPT !["app"] = "open"]
          /\ UNCHANGED toServer
       \/ /\ init' = "over"
          /\ SendToServer(Frame("fail"))
          /\ UNCHANGED <<sessions, reader, writer, far>>
    /\ UNCHANGED <<serverVars, localOut, link, toAgent, sent, inbound, got>>

\* Mutant: connecting and spawning are each acknowledged.
AcknowledgeTwice ==
    /\ init = "spawned"
    /\ toServer' = IF link = "up" THEN toServer \o <<Frame("ok"), Frame("ok")>>
                                  ELSE toServer
    /\ init' = "over"
    /\ UNCHANGED <<serverVars, sessions, localOut, reader, writer, link, toAgent,
                   farVars>>

AcknowledgeInit ==
    /\ init = "spawned"
    /\ SendToServer(Frame("ok"))
    /\ init' = "over"
    /\ UNCHANGED <<serverVars, sessions, localOut, reader, writer, link, toAgent,
                   farVars>>

QueueForApp(frame) ==
    localOut' = IF sessions /\ writer # "done" THEN Append(localOut, frame) ELSE localOut

HandleDataFromServer ==
    /\ \E frame \in Data : TakeFromServer(frame) /\ QueueForApp(frame)
    /\ UNCHANGED <<serverVars, init, sessions, reader, writer, link, toServer, farVars>>

HandleCloseFromServer ==
    /\ TakeFromServer(Close)
    /\ QueueForApp(Close)
    /\ sessions' = FALSE
    /\ UNCHANGED <<serverVars, init, reader, writer, link, toServer, farVars>>

\* Mutant: the newest frame is written first.
WriteNewestFirst ==
    /\ writer = "run"
    /\ \/ /\ localOut # <<>>
          /\ \/ /\ WriteSucceeds("app", Last(localOut))
                /\ localOut' = Front(localOut)
                /\ UNCHANGED writer
             \/ /\ WriteFails("app")
                /\ localOut' = <<>>
                /\ writer' = "done"
       \/ /\ localOut = <<>> /\ ~ sessions /\ init = "over"
          /\ writer' = "done"
          /\ UNCHANGED <<localOut, farVars>>
    /\ UNCHANGED <<serverVars, init, sessions, reader, linkVars>>

\* The task that writes to the application.  handle_init holds a sender of its
\* own until it returns.
LocalWriter ==
    /\ writer = "run"
    /\ \/ /\ localOut # <<>>
          /\ \/ /\ WriteSucceeds("app", Head(localOut))
                /\ localOut' = Tail(localOut)
                /\ UNCHANGED writer
             \/ /\ WriteFails("app")
                /\ localOut' = <<>>
                /\ writer' = "done"
       \/ /\ localOut = <<>> /\ ~ sessions /\ init = "over"
          /\ writer' = "done"
          /\ UNCHANGED <<localOut, farVars>>
    /\ UNCHANGED <<serverVars, init, sessions, reader, linkVars>>

\* The task that reads from it: a close is passed on, an error is not.
LocalReader ==
    /\ reader = "run"
    /\ \/ /\ inbound["app"] # <<>>
          /\ inbound' = [inbound EXCEPT !["app"] = Tail(@)]
          /\ SendToServer(Head(inbound["app"]))
          /\ reader' = IF Head(inbound["app"]) = Close THEN "done" ELSE "run"
       \/ /\ inbound["app"] = <<>>
          /\ far["app"] = "reset"
          /\ reader' = "done"
          /\ UNCHANGED <<inbound, toServer>>
    /\ UNCHANGED <<serverVars, init, sessions, localOut, writer, link, toAgent,
                   far, sent, got>>

\* The third task: the session leaves the map when both tasks have ended.
CleanUpSession ==
    /\ init = "over"
    /\ reader = "done" /\ writer = "done"
    /\ sessions
    /\ sessions' = FALSE
    /\ UNCHANGED <<serverVars, init, localOut, reader, writer, linkVars, farVars>>

AgentLoopStep ==
    \/ HandleInit \/ ConnectToLocal \/ AcknowledgeInit
    \/ HandleDataFromServer \/ HandleCloseFromServer

-----------------------------------------------------------------------------
FarStep == \E e \in Ends : FarSends(e) \/ FarCloses(e) \/ FarResets(e)

Next ==
    \/ Refuse \/ SendInit \/ Abandon \/ TunnelStep \/ AlbToAgent \/ AgentToAlb \/ FromAgentStep
    \/ AgentLoopStep \/ LocalWriter \/ LocalReader \/ CleanUpSession
    \/ FarStep \/ LinkLost

\* Every task of the two programs runs when it can.  Nothing is assumed of the
\* browser, the application and the network: none of them need ever act.
Fairness ==
    /\ WF_vars(TunnelStep) /\ WF_vars(AlbToAgent) /\ WF_vars(AgentToAlb)
    /\ WF_vars(FromAgentStep) /\ WF_vars(AgentLoopStep)
    /\ WF_vars(LocalWriter) /\ WF_vars(LocalReader) /\ WF_vars(CleanUpSession)

SafeSpec == Init /\ [][Next]_vars

Spec == SafeSpec /\ Fairness

-----------------------------------------------------------------------------
(* Properties *)

\* ws_proxy.rs:246-284 and 312-323, ws.rs:72-83 and 93-123: through two queues,
\* four tasks and a shared connection, the application gets the browser's frames
\* from the first on without a gap, and nothing after a close.  In the other
\* direction only frames that arrive before the session is stored
\* (ws_proxy.rs:185-212) can be missing.
FramesInOrder ==
    \A e \in Ends : \A i \in DOMAIN got[e] : got[e][i] # Close =>
        IF i = 1 THEN e = "app" => got[e][i].no = 1
                 ELSE got[e][i - 1] # Close /\ got[e][i].no = got[e][i - 1].no + 1

Peer(e) == CHOOSE other \in Ends : other # e

\* ws_proxy.rs:438, ws.rs:214: a close overtakes no frame.  An end that is told
\* of its peer's close has got the last frame the peer sent before it.
CloseComesLast ==
    \A e \in Ends : far[Peer(e)] = "closed" =>
        \A i \in DOMAIN got[e] : got[e][i] = Close =>
            IF i = 1 THEN e = "app" => sent[Peer(e)] = 0
                     ELSE got[e][i - 1].no = sent[Peer(e)]

\* ws_proxy.rs:334-341: a session of the agent does not outlive its tunnel while
\* they are connected, unless the close that ends it is on its way.
NoOrphanSession ==
    sessions /\ tunnel = "ended" /\ link = "up" => Close \in Range(toAgent)

Quiet ==
    /\ tunnel = "ended"
    /\ ~ ws_sessions /\ ~ ws_init_waiters /\ ~ sessions
    /\ {albReader, albWriter, reader, writer} = {"done"}

\* The application's close reached the server before the session was stored.
CloseLost ==
    /\ far["app"] = "closed" /\ reader = "done"
    /\ Close \notin Range(toServer) /\ ws_sessions

\* An end that was sent a close has not answered it.
Unanswered == \E e \in Ends : far[e] = "open" /\ Close \in Range(got[e])

\* When either end closes an open tunnel with a close frame, both maps are
\* emptied and all tasks end, in whatever order the four tasks see the closes,
\* unless the other end never answers the close: its reading task and join!
\* (ws_proxy.rs:246, ws.rs:93) have no timeout.
ClosingEndsTunnel ==
    \A e \in Ends : tunnel = "open" /\ far[e] = "closed" /\ ~ CloseLost ~>
        \/ Quiet \/ []Unanswered
        \/ link = "down" \/ \E other \in Ends : far[other] = "reset"

\* ws_proxy.rs:335, "Notify agent that ALB side closed": when the browser's
\* connection drops under an open tunnel, the agent ends its session, unless it
\* is cut off or the application has gone as well.
DropReachesAgent ==
    tunnel = "open" /\ far["browser"] = "reset" ~>
        ~ sessions \/ link = "down" \/ far["app"] # "open"
=============================================================================
