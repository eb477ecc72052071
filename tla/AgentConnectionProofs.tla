------------------------ MODULE AgentConnectionProofs ------------------------
(***************************************************************************)
(* Safety of an agent's connection, for any number of connections and any  *)
(* bounds on the messages in flight.                                       *)
(***************************************************************************)
EXTENDS AgentConnection, SequenceTheorems, TLAPS

-----------------------------------------------------------------------------
(* The inductive invariant *)

\* How far the removal of the connection has come decides what the registry
\* holds of it.
Removal(c) ==
    /\ c \in connection_senders <=> stream[c] \notin {"none", "ended"}
    /\ stream[c] \notin {"select", "rm_connection"} => connections[c] = None
    /\ stream[c] \notin {"select", "rm_connection", "rm_registration"} =>
           c \notin registrations

\* Tasks end only once the connection is broken, and are there while it is used.
Tasks(c) ==
    /\ sock[c] = "up" => /\ stream[c] \in {"none", "select"}
                         /\ incoming[c] # "done"
                         /\ outgoing[c] # "done"
    /\ stream[c] = "none" <=> incoming[c] = "none"
    /\ stream[c] = "none" <=> outgoing[c] = "none"
    /\ agent[c] = "none" => stream[c] = "none" /\ up[c] = <<>>

\* Before the agent's registration is sent: one message is under way, the
\* authentication or its reply, or it is lost.
Handshake(c) ==
    /\ connections[c] = None /\ c \notin registrations
    /\ agent[c] = "serve" => sock[c] # "up" /\ down[c] = <<>>
    /\ \/ /\ up[c] \in {<<>>, <<"auth">>}
          /\ incoming[c] \in {"none", "read", "done"}
          /\ outbox[c] = <<>> /\ down[c] = <<>>
          /\ incoming[c] = "done" => up[c] = <<>>
          /\ agent[c] = "serve" => up[c] = <<>>
       \/ /\ up[c] = <<>>
          /\ incoming[c] \in {"auth", "auth_ok", "auth_fail"}
          /\ outbox[c] = <<>> /\ down[c] = <<>>
       \/ /\ up[c] = <<>>
          /\ incoming[c] \in {"read", "done"}
          /\ outbox[c] \in {<<"auth_ok">>, <<"auth_fail">>} /\ down[c] = <<>>
       \/ /\ up[c] = <<>>
          /\ incoming[c] \in {"read", "done"}
          /\ outbox[c] = <<>> /\ down[c] \in {<<"auth_ok">>, <<"auth_fail">>}

\* The registration is under way: nothing else can end the stream meanwhile,
\* because the writer has nothing to write.
Registering(c) ==
    /\ stream[c] = "select" /\ outgoing[c] = "run"
    /\ outbox[c] = <<>> /\ down[c] = <<>>
    /\ agent[c] \in {"serve", "gone"}
    /\ c \notin registrations
    /\ \/ /\ incoming[c] = "read"
          /\ connections[c] = None
          /\ up[c] # <<>> /\ up[c][1] = "register"
          /\ \A i \in 2 .. Len(up[c]) : up[c][i] = "heartbeat"
       \/ /\ incoming[c] \in {"register", "register_service"}
          /\ up[c] \in Seq({"heartbeat"})
          /\ connections[c] = None <=> incoming[c] = "register"

\* The registration has been in the registry, and is until removal begins.
Serving(c) ==
    /\ incoming[c] \in {"read", "heartbeat", "response", "ack", "done"}
    /\ up[c] \in Seq({"heartbeat", "response"})
    /\ outbox[c] \in Seq({"ack", "request", "frame"})
    /\ down[c] \in Seq({"ack", "request", "frame"})
    /\ agent[c] \in {"serve", "gone"}
    /\ stream[c] = "select" => connections[c] # None /\ c \in registrations

Phase(c) ==
    \/ c \notin published /\ (Handshake(c) \/ Registering(c))
    \/ c \in published /\ Serving(c)

ConnInv(c) == Removal(c) /\ Tasks(c) /\ Phase(c)

IInv == TypeOK /\ \A c \in Conns : ConnInv(c)

-----------------------------------------------------------------------------
(* Type correctness *)

\* What is left of a sequence is a sequence of the same messages.
LEMMA PartOfSeq ==
    ASSUME NEW S, NEW q \in Seq(S)
    PROVE  /\ q # <<>> => Head(q) \in S /\ Tail(q) \in Seq(S)
           /\ \A n \in 0 .. Len(q) : SubSeq(q, 1, n) \in Seq(S)
           /\ \A m \in S : Append(q, m) \in Seq(S)
<1>1. q # <<>> => Head(q) \in S /\ Tail(q) \in Seq(S)
  OBVIOUS
<1>2. \A n \in 0 .. Len(q) : SubSeq(q, 1, n) \in Seq(S)
  OBVIOUS
<1> QED
  BY <1>1, <1>2

\* A connection that breaks cuts what is in flight: a first part of it is left.
LEMMA CutSeq ==
    ASSUME NEW S, NEW q \in Seq(S), NEW n \in 0 .. Len(q)
    PROVE  /\ Len(SubSeq(q, 1, n)) = n
           /\ \A i \in 1 .. n : SubSeq(q, 1, n)[i] = q[i]
           /\ n = 0 => SubSeq(q, 1, n) = <<>>
           /\ n = Len(q) => SubSeq(q, 1, n) = q
           /\ q = <<>> => SubSeq(q, 1, n) = <<>>
           /\ Len(q) = 1 => SubSeq(q, 1, n) \in {<<>>, q}
<1>1. /\ Len(SubSeq(q, 1, n)) = n
      /\ SubSeq(q, 1, n) \in Seq(S)
      /\ \A i \in 1 .. n : SubSeq(q, 1, n)[i] = q[i]
  <2>1. \A i \in 1 .. n : q[i] \in S
    OBVIOUS
  <2> QED
    BY <2>1, SubSeqProperties
<1>2. n = 0 => SubSeq(q, 1, n) = <<>>
  BY <1>1, EmptySeq
<1>3. n = Len(q) => SubSeq(q, 1, n) = q
  BY <1>1, SeqEqual
<1>4. q = <<>> => n = 0
  BY EmptySeq
<1>5. Len(q) = 1 => n = 0 \/ n = Len(q)
  OBVIOUS
<1> QED
  BY <1>1, <1>2, <1>3, <1>4, <1>5

\* A sequence whose messages are all of a kind is a sequence of that kind.
LEMMA SeqOfKind ==
    ASSUME NEW S, NEW K, NEW q \in Seq(S), \A i \in 1 .. Len(q) : q[i] \in K
    PROVE  q \in Seq(K)
OBVIOUS

\* The critical sections of the registry keep its type.
LEMMA RegistryStepType ==
    ASSUME RegistryTypeOK, NEW c \in Conns,
           \/ InsertConnection(c) \/ DropConnection(c) \/ UpdateHeartbeat(c)
           \/ InsertRegistration(c) \/ DropRegistration(c)
           \/ InsertSender(c) \/ DropSender(c) \/ UNCHANGED registryVars
    PROVE  RegistryTypeOK'
<1>1. 0 \in Ages
  BY RegistryAssumption DEF RegistryAssumption, Ages
<1> QED
  BY <1>1 DEF RegistryTypeOK, InsertConnection, DropConnection, UpdateHeartbeat,
              InsertRegistration, DropRegistration, InsertSender, DropSender,
              registryVars

\* What the agent sends is typed.
LEMMA SendUpType ==
    ASSUME NEW c \in Conns, NEW msgs \in Seq(UpMessages),
           up \in [Conns -> Seq(UpMessages)], SendUp(c, msgs)
    PROVE  up' \in [Conns -> Seq(UpMessages)]
<1>1. up[c] \o msgs \in Seq(UpMessages)
  OBVIOUS
<1> QED
  BY <1>1 DEF SendUp

\* So is what it has not yet read.
LEMMA TakeDownType ==
    ASSUME NEW c \in Conns, NEW msgs,
           down \in [Conns -> Seq(DownMessages)], TakeDown(c, msgs)
    PROVE  down' \in [Conns -> Seq(DownMessages)]
<1>1. Tail(down[c]) \in Seq(DownMessages)
  BY PartOfSeq DEF TakeDown
<1> QED
  BY <1>1 DEF TakeDown

\* The agent's steps and the network's keep the type.
LEMMA AgentStepType ==
    ASSUME TypeOK, NEW c \in Conns,
           \/ Connect(c) \/ AgentStep(c) \/ SendHeartbeat(c) \/ Leave(c)
           \/ ConnectionLost(c) \/ SilentDeath(c)
    PROVE  TypeOK'
<1>0. /\ <<"auth">> \in Seq(UpMessages)
      /\ <<"register", "heartbeat">> \in Seq(UpMessages)
      /\ <<"heartbeat">> \in Seq(UpMessages)
      /\ <<"response">> \in Seq(UpMessages)
  BY DEF UpMessages
<1> USE DEF TypeOK, registryVars, RegistryTypeOK, streamVars, AgentGoesTo
<1>1. CASE Connect(c)
  BY <1>0, <1>1, SendUpType DEF Connect
<1>2. CASE Authenticated(c)
  BY <1>0, <1>2, SendUpType, TakeDownType DEF Authenticated
<1>3. CASE Refused(c)
  BY <1>3, TakeDownType DEF Refused
<1>4. CASE HandleIngressMessage(c)
  BY <1>0, <1>4, SendUpType, TakeDownType DEF HandleIngressMessage
<1>5. CASE SendHeartbeat(c)
  BY <1>0, <1>5, SendUpType DEF SendHeartbeat
<1>6. CASE Leave(c)
  BY <1>6 DEF Leave
<1>7. CASE ConnectionLost(c)
  <2>1. up' \in [Conns -> Seq(UpMessages)]
    BY <1>7, PartOfSeq DEF ConnectionLost
  <2>2. down' \in [Conns -> Seq(DownMessages)]
    BY <1>7, PartOfSeq DEF ConnectionLost
  <2> QED
    BY <1>7, <2>1, <2>2 DEF ConnectionLost
<1>8. CASE SilentDeath(c)
  BY <1>8 DEF SilentDeath
<1> QED
  BY <1>1, <1>2, <1>3, <1>4, <1>5, <1>6, <1>7, <1>8 DEF AgentStep

\* The server's steps keep the type.
LEMMA ServerStepType ==
    ASSUME TypeOK, NEW c \in Conns,
           \/ HandleWebsocketStream(c) \/ ServerStep(c)
           \/ IncomingStep(c) \/ OutgoingStep(c) \/ ForwardRequest(c) \/ TunnelStep(c)
    PROVE  TypeOK'
<1>1. RegistryTypeOK'
  BY RegistryStepType
  DEF TypeOK, HandleWebsocketStream, ServerStep, IncomingStep, OutgoingStep,
      ForwardRequest, EitherTaskEnded, RemoveConnection, ReadMessage, EndOfStream,
      HandleIamAuth, HandleServiceRegistration, HandleHeartbeat,
      HandleProxyResponse, SendResponse, WriteMessage, SendersGone, TunnelStep,
      TunnelSends, TunnelEnds, streamVars
<1> USE <1>1 DEF TypeOK, wireVars, StreamGoesTo, IncomingGoesTo
<1>2. CASE HandleWebsocketStream(c)
  BY <1>2 DEF HandleWebsocketStream
<1>3. CASE ServerStep(c)
  BY <1>3 DEF ServerStep, EitherTaskEnded, RemoveConnection
<1>4. CASE ReadMessage(c)
  <2>1. Head(up[c]) \in UpMessages /\ Tail(up[c]) \in Seq(UpMessages)
    BY <1>4, PartOfSeq DEF ReadMessage
  <2> QED
    BY <1>4, <2>1 DEF ReadMessage
<1>5. CASE EndOfStream(c)
  BY <1>5 DEF EndOfStream
<1>6. CASE HandleIamAuth(c)
  BY <1>6 DEF HandleIamAuth, DownMessages
<1>7. CASE HandleServiceRegistration(c)
  BY <1>7 DEF HandleServiceRegistration, DownMessages
<1>8. CASE HandleHeartbeat(c) \/ HandleProxyResponse(c)
  BY <1>8 DEF HandleHeartbeat, HandleProxyResponse
<1>9. CASE SendResponse(c)
  <2>1. Append(outbox[c], incoming[c]) \in Seq(DownMessages)
    BY <1>9, PartOfSeq DEF SendResponse, DownMessages
  <2> QED
    BY <1>9, <2>1 DEF SendResponse
<1>10. CASE WriteMessage(c)
  <2>0. Head(outbox[c]) \in DownMessages /\ Tail(outbox[c]) \in Seq(DownMessages)
    BY <1>10, PartOfSeq DEF WriteMessage
  <2>1. Append(down[c], Head(outbox[c])) \in Seq(DownMessages)
    BY <2>0, PartOfSeq
  <2>2. down' \in [Conns -> Seq(DownMessages)]
    BY <1>10, <2>1 DEF WriteMessage
  <2>3. outbox' \in [Conns -> Seq(DownMessages)]
    <3>1. <<>> \in Seq(DownMessages)
      OBVIOUS
    <3> QED
      BY <1>10, <2>0, <3>1 DEF WriteMessage
  <2> QED
    BY <1>10, <2>2, <2>3 DEF WriteMessage
<1>11. CASE SendersGone(c)
  BY <1>11 DEF SendersGone
<1>12. CASE ForwardRequest(c)
  <2>1. Append(outbox[c], "request") \in Seq(DownMessages)
    BY PartOfSeq DEF DownMessages
  <2> QED
    BY <1>12, <2>1 DEF ForwardRequest
<1>13. CASE TunnelStep(c)
  <2>1. Append(outbox[c], "frame") \in Seq(DownMessages)
    BY PartOfSeq DEF DownMessages
  <2> QED
    BY <1>13, <2>1 DEF TunnelStep, TunnelSends, TunnelEnds, streamVars
<1> QED
  BY <1>2, <1>3, <1>4, <1>5, <1>6, <1>7, <1>8, <1>9, <1>10, <1>11, <1>12, <1>13
  DEF IncomingStep, OutgoingStep

\* Every step keeps the type.
LEMMA NextType ==
    ASSUME TypeOK, [Next]_connVars
    PROVE  TypeOK'
<1>1. CASE UNCHANGED connVars
  BY <1>1 DEF connVars, TypeOK, registryVars, RegistryTypeOK, streamVars, wireVars
<1> QED
  BY <1>1, AgentStepType, ServerStepType DEF Next

-----------------------------------------------------------------------------
(* The invariant is inductive *)

\* The removal's invariant depends only on these.
LEMMA SameRemoval ==
    ASSUME NEW c \in Conns, Removal(c), UNCHANGED <<registryVars, stream>>
    PROVE  Removal(c)'
BY DEF Removal, registryVars

\* Each step of the removal itself, and registering, keep its invariant.
LEMMA RemovalStep ==
    ASSUME IInv, NEW c \in Conns,
           \/ HandleWebsocketStream(c) \/ ServerStep(c)
           \/ HandleServiceRegistration(c) \/ HandleHeartbeat(c)
    PROVE  Removal(c)'
<1> USE DEF IInv, TypeOK, RegistryTypeOK, ConnInv, Removal, registryVars
<1>1. CASE HandleWebsocketStream(c)
  BY <1>1 DEF HandleWebsocketStream, InsertSender, StreamGoesTo
<1>2. CASE EitherTaskEnded(c)
  BY <1>2 DEF EitherTaskEnded, StreamGoesTo
<1>3. CASE RemoveConnection(c)
  BY <1>3 DEF RemoveConnection, DropConnection, DropRegistration, DropSender,
              StreamGoesTo
<1>4. CASE HandleServiceRegistration(c)
  <2>1. stream[c] = "select"
    BY <1>4 DEF HandleServiceRegistration, Phase, Handshake, Registering, Serving
  <2> QED
    BY <1>4, <2>1
    DEF HandleServiceRegistration, InsertConnection, InsertRegistration
<1>5. CASE HandleHeartbeat(c)
  BY <1>5 DEF HandleHeartbeat, UpdateHeartbeat, InsertConnection
<1> QED
  BY <1>1, <1>2, <1>3, <1>4, <1>5 DEF ServerStep

\* Tasks end only on a broken connection, whatever the agent does to it.
LEMMA TasksAgentStep ==
    ASSUME IInv, NEW c \in Conns,
           \/ Connect(c) \/ AgentStep(c) \/ SendHeartbeat(c) \/ Leave(c)
           \/ ConnectionLost(c) \/ SilentDeath(c)
    PROVE  Tasks(c)'
<1> USE DEF IInv, TypeOK, ConnInv, Tasks, streamVars, AgentGoesTo
<1>1. CASE Connect(c)
  BY <1>1 DEF Connect
<1>2. CASE AgentStep(c)
  BY <1>2 DEF AgentStep, Authenticated, Refused, HandleIngressMessage
<1>3. CASE SendHeartbeat(c)
  BY <1>3 DEF SendHeartbeat
<1>4. CASE Leave(c) \/ ConnectionLost(c) \/ SilentDeath(c)
  BY <1>4 DEF Leave, ConnectionLost, SilentDeath
<1> QED
  BY <1>1, <1>2, <1>3, <1>4

\* ... and whatever the server does.
LEMMA TasksServerStep ==
    ASSUME IInv, NEW c \in Conns,
           \/ HandleWebsocketStream(c) \/ ServerStep(c)
           \/ IncomingStep(c) \/ OutgoingStep(c) \/ ForwardRequest(c) \/ TunnelStep(c)
    PROVE  Tasks(c)'
<1> USE DEF IInv, TypeOK, ConnInv, Tasks, wireVars, StreamGoesTo, IncomingGoesTo
<1>1. CASE HandleWebsocketStream(c)
  BY <1>1 DEF HandleWebsocketStream
<1>2. CASE ServerStep(c)
  BY <1>2 DEF ServerStep, EitherTaskEnded, RemoveConnection
<1>3. CASE ReadMessage(c)
  <2>1. Head(up[c]) \in UpMessages
    BY <1>3, PartOfSeq DEF ReadMessage
  <2> QED
    BY <1>3, <2>1 DEF ReadMessage, UpMessages
<1>4. CASE IncomingStep(c) /\ ~ ReadMessage(c)
  BY <1>4 DEF IncomingStep, EndOfStream, HandleIamAuth, HandleServiceRegistration,
              HandleHeartbeat, HandleProxyResponse, SendResponse
<1>5. CASE WriteMessage(c)
  BY <1>5 DEF WriteMessage
<1>6. CASE SendersGone(c)
  BY <1>6 DEF SendersGone, Removal
<1>7. CASE ForwardRequest(c)
  BY <1>7 DEF ForwardRequest
<1>8. CASE TunnelStep(c)
  BY <1>8 DEF TunnelStep, TunnelSends, TunnelEnds, streamVars
<1> QED
  BY <1>1, <1>2, <1>3, <1>4, <1>5, <1>6, <1>7, <1>8 DEF OutgoingStep

\* The agent's steps: a handshake becomes a registration when the reply is read.
LEMMA PhaseAgentStep ==
    ASSUME IInv, TypeOK', NEW c \in Conns,
           Connect(c) \/ AgentStep(c) \/ SendHeartbeat(c) \/ Leave(c)
    PROVE  Phase(c)'
<1> USE DEF IInv, TypeOK, ConnInv, Tasks, streamVars, registryVars, AgentGoesTo
<1>1. CASE Connect(c)
  <2>1. c \notin published /\ Handshake(c)
    BY <1>1 DEF Connect, Phase, Handshake, Registering, Serving
  <2>2. up'[c] \in {<<>>, <<"auth">>}
    <3>1. up[c] = <<>>
      BY <1>1 DEF Connect
    <3>2. up[c] \o <<"auth">> = <<"auth">>
      BY <3>1
    <3> QED
      BY <1>1, <3>1, <3>2 DEF Connect, SendUp
  <2>3. Handshake(c)'
    BY <1>1, <2>1, <2>2 DEF Connect, Handshake
  <2> QED
    BY <1>1, <2>1, <2>3 DEF Connect, Phase
<1>2. CASE Authenticated(c)
  <2>1. c \notin published /\ Handshake(c)
    BY <1>2 DEF Authenticated, Phase, Handshake, Registering, Serving
  <2>2. /\ down[c] = <<"auth_ok">> /\ down'[c] = <<>>
        /\ up[c] = <<>> /\ outbox[c] = <<>>
        /\ incoming[c] \in {"read", "done"}
    <3>1. down[c] \in {<<"auth_ok">>, <<"auth_fail">>}
      BY <1>2, <2>1 DEF Authenticated, TakeDown, Handshake
    <3>2. /\ Head(<<"auth_fail">>) = "auth_fail"
          /\ Tail(<<"auth_ok">>) = <<>>
          /\ <<"auth_ok">> # <<>> /\ <<"auth_fail">> # <<>>
      OBVIOUS
    <3>3. down[c] = <<"auth_ok">> /\ down'[c] = <<>>
      BY <1>2, <3>1, <3>2 DEF Authenticated, TakeDown
    <3>4. /\ up[c] = <<>> /\ outbox[c] = <<>>
          /\ incoming[c] \in {"read", "done"}
      BY <2>1, <3>1, <3>2 DEF Handshake
    <3> QED
      BY <3>3, <3>4
  <2>3. CASE sock[c] = "up"
    <3>1. up'[c] = <<"register", "heartbeat">>
      BY <1>2, <2>2, <2>3 DEF Authenticated, SendUp
    <3>2. up'[c][1] = "register" /\ up'[c] # <<>>
          /\ \A i \in 2 .. Len(up'[c]) : up'[c][i] = "heartbeat"
      BY <3>1
    <3>3. Registering(c)'
      BY <1>2, <2>1, <2>2, <2>3, <3>2 DEF Authenticated, Handshake, Registering
    <3> QED
      BY <1>2, <2>1, <3>3 DEF Authenticated, Phase
  <2>4. CASE sock[c] # "up"
    <3>1. Handshake(c)'
      BY <1>2, <2>1, <2>2, <2>4 DEF Authenticated, SendUp, Handshake
    <3> QED
      BY <1>2, <2>1, <3>1 DEF Authenticated, Phase
  <2> QED
    BY <2>3, <2>4
<1>3. CASE Refused(c)
  <2>1. c \notin published /\ Handshake(c)
    BY <1>3 DEF Refused, Phase, Handshake, Registering, Serving
  <2>2. /\ down[c] = <<"auth_fail">> /\ down'[c] = <<>>
        /\ up[c] = <<>> /\ outbox[c] = <<>>
        /\ incoming[c] \in {"read", "done"}
    BY <1>3, <2>1 DEF Refused, TakeDown, Handshake
  <2>3. Handshake(c)'
    BY <1>3, <2>1, <2>2 DEF Refused, Handshake
  <2> QED
    BY <1>3, <2>1, <2>3 DEF Refused, Phase
<1>4. CASE HandleIngressMessage(c)
  <2>1. c \in published /\ Serving(c)
    BY <1>4 DEF HandleIngressMessage, TakeDown, Phase, Handshake, Registering
  <2>2. Tail(down[c]) \in Seq({"ack", "request", "frame"})
    BY <1>4, <2>1, PartOfSeq DEF HandleIngressMessage, TakeDown, Serving
  <2>3. down'[c] \in Seq({"ack", "request", "frame"})
    BY <1>4, <2>2 DEF HandleIngressMessage, TakeDown
  <2>4. up[c] \o <<"response">> \in Seq({"heartbeat", "response"})
    BY <2>1 DEF Serving
  <2>5. up'[c] \in Seq({"heartbeat", "response"})
    <3>1. up' = up \/ SendUp(c, <<"response">>)
      BY <1>4 DEF HandleIngressMessage
    <3>2. up' = up \/ up' = [up EXCEPT ![c] = up[c] \o <<"response">>]
      BY <3>1 DEF SendUp
    <3>3. up'[c] \in {up[c], up[c] \o <<"response">>}
      BY <3>2
    <3>4. up[c] \in Seq({"heartbeat", "response"})
      BY <2>1 DEF Serving
    <3> QED
      BY <2>4, <3>3, <3>4
  <2>6. Serving(c)'
    BY <1>4, <2>1, <2>3, <2>5 DEF HandleIngressMessage, Serving
  <2> QED
    BY <1>4, <2>1, <2>6 DEF HandleIngressMessage, Phase
<1>5. CASE SendHeartbeat(c)
  <2>1. CASE Serving(c) /\ c \in published
    <3>1. up[c] \o <<"heartbeat">> \in Seq({"heartbeat", "response"})
      BY <2>1 DEF Serving
    <3>2. Serving(c)'
      BY <1>5, <2>1, <3>1 DEF SendHeartbeat, SendUp, Serving
    <3> QED
      BY <1>5, <2>1, <3>2 DEF SendHeartbeat, Phase
  <2>2. CASE Handshake(c) /\ c \notin published
    <3>1. up' = up
      BY <1>5, <2>2 DEF SendHeartbeat, SendUp, Handshake
    <3> QED
      BY <1>5, <2>2, <3>1 DEF SendHeartbeat, Phase, Handshake
  <2>3. CASE Registering(c) /\ c \notin published
    <3>1. CASE sock[c] # "up"
      BY <1>5, <2>3, <3>1 DEF SendHeartbeat, SendUp, Phase, Registering
    <3>2. CASE sock[c] = "up" /\ incoming[c] = "read"
      <4>1. up'[c] = up[c] \o <<"heartbeat">>
        BY <1>5, <3>2 DEF SendHeartbeat, SendUp
      <4>2. /\ up'[c] # <<>> /\ up'[c][1] = "register"
            /\ \A i \in 2 .. Len(up'[c]) : up'[c][i] = "heartbeat"
        BY <2>3, <3>2, <4>1 DEF Registering
      <4>3. Registering(c)'
        BY <1>5, <2>3, <3>2, <4>2 DEF SendHeartbeat, Registering
      <4> QED
        BY <1>5, <2>3, <4>3 DEF SendHeartbeat, Phase
    <3>3. CASE sock[c] = "up" /\ incoming[c] # "read"
      <4>1. up[c] \o <<"heartbeat">> \in Seq({"heartbeat"})
        BY <2>3, <3>3 DEF Registering
      <4>2. Registering(c)'
        BY <1>5, <2>3, <3>3, <4>1 DEF SendHeartbeat, SendUp, Registering
      <4> QED
        BY <1>5, <2>3, <4>2 DEF SendHeartbeat, Phase
    <3> QED
      BY <3>1, <3>2, <3>3
  <2> QED
    BY <2>1, <2>2, <2>3 DEF Phase
<1>6. CASE Leave(c)
  BY <1>6 DEF Leave, Phase, Handshake, Registering, Serving
<1> QED
  BY <1>1, <1>2, <1>3, <1>4, <1>5, <1>6 DEF AgentStep

\* What a broken connection leaves of the messages in flight.
LeftOf(q, r) ==
    /\ q = <<>> => r = <<>>
    /\ Len(q) = 1 => r \in {<<>>, q}
    /\ r # <<>> => /\ Len(r) \in 1 .. Len(q)
                  /\ \A i \in 1 .. Len(r) : r[i] = q[i]

LEMMA CutLeaves ==
    ASSUME NEW S, NEW q \in Seq(S), NEW n \in 0 .. Len(q)
    PROVE  LeftOf(q, SubSeq(q, 1, n))
<1>1. Len(q) \in Nat
  OBVIOUS
<1> QED
  BY <1>1, CutSeq DEF LeftOf

\* A registration that is not lost is still the first message.
LEMMA RegistrationLeft ==
    ASSUME NEW q \in Seq(UpMessages), NEW r, LeftOf(q, r), r # <<>>,
           q[1] = "register", \A i \in 2 .. Len(q) : q[i] = "heartbeat"
    PROVE  r[1] = "register" /\ \A i \in 2 .. Len(r) : r[i] = "heartbeat"
<1>1. /\ Len(q) \in Nat /\ Len(r) \in 1 .. Len(q)
      /\ \A i \in 1 .. Len(r) : r[i] = q[i]
  BY DEF LeftOf
<1> QED
  BY <1>1

\* Both directions are cut, each on its own.
LEMMA LostInFlight ==
    ASSUME TypeOK, NEW c \in Conns, ConnectionLost(c)
    PROVE  /\ LeftOf(up[c], up'[c]) /\ LeftOf(down[c], down'[c])
           /\ \A S : up[c] \in Seq(S) => up'[c] \in Seq(S)
           /\ \A S : down[c] \in Seq(S) => down'[c] \in Seq(S)
<1>1. up[c] \in Seq(UpMessages) /\ down[c] \in Seq(DownMessages)
  BY DEF TypeOK
<1>2. PICK n \in 0 .. Len(up[c]) : up'[c] = SubSeq(up[c], 1, n)
  BY DEF ConnectionLost, TypeOK
<1>3. PICK m \in 0 .. Len(down[c]) : down'[c] = SubSeq(down[c], 1, m)
  BY DEF ConnectionLost, TypeOK
<1>4. LeftOf(up[c], SubSeq(up[c], 1, n)) /\ LeftOf(down[c], SubSeq(down[c], 1, m))
  BY <1>1, CutLeaves
<1>5. ASSUME NEW S, up[c] \in Seq(S)
      PROVE  up'[c] \in Seq(S)
  BY <1>2, <1>5, PartOfSeq
<1>6. ASSUME NEW S, down[c] \in Seq(S)
      PROVE  down'[c] \in Seq(S)
  BY <1>3, <1>6, PartOfSeq
<1> QED
  BY <1>2, <1>3, <1>4, <1>5, <1>6

\* The network's steps: what is lost only moves a handshake or a registration
\* back to one that will not happen.
LEMMA PhaseNetworkStep ==
    ASSUME IInv, TypeOK', NEW c \in Conns, ConnectionLost(c) \/ SilentDeath(c)
    PROVE  Phase(c)'
<1>0. ConnectionLost(c) =>
        /\ LeftOf(up[c], up'[c]) /\ LeftOf(down[c], down'[c])
        /\ \A S : up[c] \in Seq(S) => up'[c] \in Seq(S)
        /\ \A S : down[c] \in Seq(S) => down'[c] \in Seq(S)
  BY LostInFlight DEF IInv
<1> USE DEF IInv, TypeOK, ConnInv, streamVars, registryVars, AgentGoesTo
<1>1. CASE SilentDeath(c)
  <2>1. Handshake(c) => Handshake(c)'
    BY <1>1 DEF SilentDeath, Handshake
  <2>2. Registering(c) => Registering(c)'
    BY <1>1 DEF SilentDeath, Registering
  <2>3. Serving(c) => Serving(c)'
    BY <1>1 DEF SilentDeath, Serving
  <2> QED
    BY <1>1, <2>1, <2>2, <2>3 DEF SilentDeath, Phase
<1>2. CASE ConnectionLost(c)
  <2>3. /\ up[c] = <<>> => up'[c] = <<>>
        /\ down[c] = <<>> => down'[c] = <<>>
    BY <1>0, <1>2 DEF LeftOf
  <2>4. CASE Serving(c) /\ c \in published
    <3>1. up'[c] \in Seq({"heartbeat", "response"})
      BY <1>0, <1>2, <2>4 DEF Serving
    <3>2. down'[c] \in Seq({"ack", "request", "frame"})
      BY <1>0, <1>2, <2>4 DEF Serving
    <3> QED
      BY <1>2, <2>4, <3>1, <3>2 DEF ConnectionLost, Phase, Serving
  <2>5. CASE Handshake(c) /\ c \notin published
    <3>1. Len(<<"auth">>) = 1 /\ Len(<<"auth_ok">>) = 1 /\ Len(<<"auth_fail">>) = 1
      OBVIOUS
    <3>2. up[c] = <<"auth">> => up'[c] \in {<<>>, <<"auth">>}
      BY <1>0, <1>2, <3>1 DEF LeftOf
    <3>3. /\ down[c] = <<"auth_ok">> => down'[c] \in {<<>>, <<"auth_ok">>}
          /\ down[c] = <<"auth_fail">> => down'[c] \in {<<>>, <<"auth_fail">>}
      BY <1>0, <1>2, <3>1 DEF LeftOf
    <3>4. /\ UNCHANGED <<connections, registrations, incoming, outbox, agent>>
          /\ sock'[c] = "lost"
      BY <1>2 DEF ConnectionLost
    <3>5. Handshake(c)'
      <4> HIDE DEF IInv, TypeOK, ConnInv
      <4> QED
        BY <2>3, <2>5, <3>2, <3>3, <3>4 DEF Handshake
    <3> QED
      BY <1>2, <2>5, <3>5 DEF ConnectionLost, Phase
  <2>6. CASE Registering(c) /\ c \notin published
    <3>1. CASE incoming[c] # "read"
      <4>1. up'[c] \in Seq({"heartbeat"})
        BY <1>0, <1>2, <2>6, <3>1 DEF Registering
      <4>2. Registering(c)'
        BY <1>2, <2>3, <2>6, <3>1, <4>1 DEF ConnectionLost, Registering
      <4> QED
        BY <1>2, <2>6, <4>2 DEF ConnectionLost, Phase
    <3>2. CASE incoming[c] = "read" /\ up'[c] = <<>>
      <4>1. Handshake(c)'
        <5>1. /\ connections[c] = None /\ c \notin registrations
              /\ outbox[c] = <<>> /\ down[c] = <<>>
          BY <2>6, <3>2 DEF Registering
        <5>2. sock'[c] # "up" /\ down'[c] = <<>>
          BY <1>2, <2>3, <5>1 DEF ConnectionLost
        <5> QED
          BY <1>2, <3>2, <5>1, <5>2 DEF ConnectionLost, Handshake
      <4> QED
        BY <1>2, <2>6, <4>1 DEF ConnectionLost, Phase
    <3>3. CASE incoming[c] = "read" /\ up'[c] # <<>>
      <4>1. /\ up'[c][1] = "register"
            /\ \A i \in 2 .. Len(up'[c]) : up'[c][i] = "heartbeat"
        <5>1. /\ up[c][1] = "register"
              /\ \A i \in 2 .. Len(up[c]) : up[c][i] = "heartbeat"
          BY <2>6, <3>3 DEF Registering
        <5> QED
          BY <1>0, <1>2, <3>3, <5>1, RegistrationLeft
      <4>2. Registering(c)'
        BY <1>2, <2>3, <2>6, <3>3, <4>1 DEF ConnectionLost, Registering
      <4> QED
        BY <1>2, <2>6, <4>2 DEF ConnectionLost, Phase
    <3> QED
      BY <3>1, <3>2, <3>3
  <2> QED
    BY <2>4, <2>5, <2>6 DEF Phase
<1> QED
  BY <1>1, <1>2

\* The stream's own steps do not change the phase, and removal does not begin
\* while a registration is under way.
LEMMA PhaseStreamStep ==
    ASSUME IInv, TypeOK', NEW c \in Conns,
           \/ HandleWebsocketStream(c) \/ ServerStep(c)
           \/ ForwardRequest(c) \/ TunnelStep(c)
    PROVE  Phase(c)'
<1> USE DEF IInv, TypeOK, RegistryTypeOK, ConnInv, wireVars, registryVars,
            StreamGoesTo
<1>1. CASE HandleWebsocketStream(c)
  <2>1. c \notin published /\ Handshake(c)
    BY <1>1 DEF HandleWebsocketStream, Phase, Tasks, Registering, Serving
  <2>2. Handshake(c)'
    BY <1>1, <2>1 DEF HandleWebsocketStream, InsertSender, Tasks, Handshake
  <2> QED
    BY <1>1, <2>1, <2>2 DEF HandleWebsocketStream, Phase
<1>2. CASE EitherTaskEnded(c)
  BY <1>2 DEF EitherTaskEnded, Phase, Handshake, Registering, Serving
<1>3. CASE RemoveConnection(c)
  <2>1. stream[c] # "select" /\ stream'[c] # "select"
    BY <1>3 DEF RemoveConnection
  <2>2. CASE Serving(c) /\ c \in published
    BY <1>3, <2>1, <2>2 DEF RemoveConnection, Phase, Serving
  <2>3. CASE Handshake(c) /\ c \notin published
    BY <1>3, <2>1, <2>3 DEF RemoveConnection, DropConnection, DropRegistration,
                            DropSender, Phase, Handshake
  <2> QED
    BY <2>1, <2>2, <2>3 DEF Phase, Registering
<1>4. CASE ForwardRequest(c)
  <2>1. c \in published /\ Serving(c)
    BY <1>4 DEF ForwardRequest, Phase
  <2>2. Append(outbox[c], "request") \in Seq({"ack", "request", "frame"})
    BY <2>1, PartOfSeq DEF Serving
  <2> QED
    BY <1>4, <2>1, <2>2 DEF ForwardRequest, Phase, Serving
<1>5. CASE TunnelSends(c)
  <2>1. c \in published /\ Serving(c)
    BY <1>5 DEF TunnelSends, Phase
  <2>2. Append(outbox[c], "frame") \in Seq({"ack", "request", "frame"})
    BY <2>1, PartOfSeq DEF Serving
  <2> QED
    BY <1>5, <2>1, <2>2 DEF TunnelSends, Phase, Serving
<1>6. CASE TunnelEnds(c)
  BY <1>6 DEF TunnelEnds, streamVars, Phase, Handshake, Registering, Serving
<1> QED
  BY <1>1, <1>2, <1>3, <1>4, <1>5, <1>6 DEF ServerStep, TunnelStep

\* The reading task's steps: the phases' messages move on by one place.
LEMMA PhaseReadMessage ==
    ASSUME IInv, TypeOK', NEW c \in Conns, ReadMessage(c)
    PROVE  Phase(c)'
<1>1. /\ incoming[c] = "read" /\ incoming'[c] = Head(up[c])
      /\ up[c] # <<>> /\ up'[c] = Tail(up[c])
      /\ up[c] \in Seq(UpMessages)
  BY DEF ReadMessage, IncomingGoesTo, IInv, TypeOK
<1>2. UNCHANGED <<connections, registrations, stream[c], outgoing[c], outbox[c],
                  down[c], agent[c], sock[c], published>>
  BY DEF ReadMessage, registryVars
<1>3. CASE Handshake(c) /\ c \notin published
  <2>1. up[c] = <<"auth">>
    BY <1>1, <1>3 DEF Handshake
  <2>2. incoming'[c] = "auth" /\ up'[c] = <<>>
    BY <1>1, <2>1
  <2>3. /\ outbox[c] = <<>> /\ down[c] = <<>> /\ agent[c] # "serve"
        /\ connections[c] = None /\ c \notin registrations
    BY <1>1, <1>3, <2>1 DEF Handshake
  <2>4. Handshake(c)'
    BY <1>2, <2>2, <2>3 DEF Handshake
  <2> QED
    BY <1>2, <1>3, <2>4 DEF Phase
<1>4. CASE Registering(c) /\ c \notin published
  <2>1. /\ up[c][1] = "register"
        /\ \A i \in 2 .. Len(up[c]) : up[c][i] = "heartbeat"
    BY <1>1, <1>4 DEF Registering
  <2>2. incoming'[c] = "register"
    BY <1>1, <2>1
  <2>3. up'[c] \in Seq({"heartbeat"})
    <3>1. /\ Tail(up[c]) \in Seq(UpMessages)
          /\ \A i \in 1 .. Len(Tail(up[c])) : Tail(up[c])[i] \in {"heartbeat"}
      BY <1>1, <2>1
    <3>2. Tail(up[c]) \in Seq({"heartbeat"})
      BY <3>1, SeqOfKind
    <3> QED
      BY <1>1, <3>2
  <2>4. Registering(c)'
    BY <1>1, <1>2, <1>4, <2>2, <2>3 DEF Registering
  <2> QED
    BY <1>2, <1>4, <2>4 DEF Phase
<1>5. CASE Serving(c) /\ c \in published
  <2>1. /\ incoming'[c] \in {"heartbeat", "response"}
        /\ up'[c] \in Seq({"heartbeat", "response"})
    BY <1>1, <1>5, PartOfSeq DEF Serving
  <2>2. Serving(c)'
    BY <1>2, <1>5, <2>1 DEF Serving
  <2> QED
    BY <1>2, <1>5, <2>2 DEF Phase
<1> QED
  BY <1>3, <1>4, <1>5 DEF IInv, ConnInv, Phase

\* ... a registration enters the registry before it is published.
LEMMA PhaseRegistration ==
    ASSUME IInv, NEW c \in Conns, HandleServiceRegistration(c)
    PROVE  Phase(c)'
<1>1. c \notin published /\ Registering(c)
  BY DEF HandleServiceRegistration, IInv, ConnInv, Phase, Handshake, Serving
<1>2. UNCHANGED <<stream[c], outgoing[c], outbox[c], up[c], down[c], agent[c],
                  sock[c]>>
  BY DEF HandleServiceRegistration, wireVars
<1>3. incoming[c] \in {"register", "register_service"}
  BY DEF HandleServiceRegistration
<1>4. up[c] \in Seq({"heartbeat"})
  BY <1>1, <1>3 DEF Registering
<1>5. CASE incoming[c] = "register"
  <2>1. /\ incoming'[c] = "register_service" /\ published' = published
        /\ registrations' = registrations
        /\ connections'[c] # None
    <3>1. None # 0
      BY RegistryAssumption DEF RegistryAssumption
    <3> QED
      BY <1>5, <3>1 DEF HandleServiceRegistration, IncomingGoesTo, InsertConnection,
                        IInv, TypeOK, RegistryTypeOK
  <2>2. Registering(c)'
    BY <1>1, <1>2, <1>4, <2>1 DEF Registering
  <2> QED
    BY <1>1, <2>1, <2>2 DEF Phase
<1>6. CASE incoming[c] = "register_service"
  <2>1. /\ incoming'[c] = "ack" /\ c \in published'
        /\ c \in registrations'
        /\ connections' = connections
    BY <1>6 DEF HandleServiceRegistration, IncomingGoesTo, InsertRegistration,
                IInv, TypeOK, RegistryTypeOK
  <2>2. connections[c] # None
    BY <1>1, <1>6 DEF Registering
  <2>3. /\ up[c] \in Seq({"heartbeat", "response"})
        /\ <<>> \in Seq({"ack", "request", "frame"})
    <3>1. \A i \in 1 .. Len(up[c]) : up[c][i] \in {"heartbeat", "response"}
      BY <1>4
    <3> QED
      BY <1>4, <3>1
  <2>4. Serving(c)'
    BY <1>1, <1>2, <2>1, <2>2, <2>3 DEF Registering, Serving
  <2> QED
    BY <2>1, <2>4 DEF Phase
<1> QED
  BY <1>3, <1>5, <1>6

\* ... the other messages of the reading task, and its end.
LEMMA PhaseIncomingStep ==
    ASSUME IInv, TypeOK', NEW c \in Conns, IncomingStep(c)
    PROVE  Phase(c)'
<1>1. CASE EndOfStream(c)
  <2>1. /\ incoming[c] = "read" /\ incoming'[c] = "done" /\ up[c] = <<>>
        /\ UNCHANGED <<connections, registrations, stream, outgoing, outbox, up,
                      down, agent, sock, published>>
    BY <1>1 DEF EndOfStream, IncomingGoesTo, IInv, TypeOK, registryVars, wireVars
  <2> QED
    BY <2>1 DEF IInv, ConnInv, Phase, Handshake, Registering, Serving
<1>2. CASE HandleIamAuth(c)
  <2>1. /\ incoming[c] = "auth" /\ incoming'[c] \in {"auth_ok", "auth_fail"}
        /\ UNCHANGED <<connections, registrations, stream, outgoing, outbox, up,
                      down, agent, sock, published>>
    BY <1>2 DEF HandleIamAuth, IncomingGoesTo, IInv, TypeOK, registryVars, wireVars
  <2> QED
    BY <2>1 DEF IInv, ConnInv, Phase, Handshake, Registering, Serving
<1>3. CASE HandleHeartbeat(c) \/ HandleProxyResponse(c)
  <2>1. /\ incoming[c] \in {"heartbeat", "response"} /\ incoming'[c] = "read"
        /\ UNCHANGED <<registrations, stream, outgoing, outbox, up, down, agent,
                      sock, published>>
    BY <1>3 DEF HandleHeartbeat, HandleProxyResponse, UpdateHeartbeat,
                InsertConnection, IncomingGoesTo, IInv, TypeOK, registryVars, wireVars
  <2>2. connections[c] # None => connections'[c] # None
    <3>1. None # 0
      BY RegistryAssumption DEF RegistryAssumption
    <3> QED
      BY <1>3, <3>1 DEF HandleHeartbeat, HandleProxyResponse, UpdateHeartbeat,
                        InsertConnection, IInv, TypeOK, RegistryTypeOK, registryVars
  <2>3. c \in published /\ Serving(c)
    BY <2>1 DEF IInv, ConnInv, Phase, Handshake, Registering
  <2> QED
    BY <2>1, <2>2, <2>3 DEF Phase, Serving
<1>4. CASE SendResponse(c)
  <2>1. /\ incoming[c] \in {"auth_ok", "auth_fail", "ack"} /\ incoming'[c] = "read"
        /\ outbox'[c] = IF CanSend(c) THEN Append(outbox[c], incoming[c])
                                      ELSE outbox[c]
        /\ UNCHANGED <<connections, registrations, stream, outgoing, up, down,
                      agent, sock, published>>
    BY <1>4 DEF SendResponse, IncomingGoesTo, IInv, TypeOK, registryVars, wireVars
  <2>2. CASE Serving(c) /\ c \in published
    <3>1. incoming[c] = "ack"
      BY <2>1, <2>2 DEF Serving
    <3>2. Append(outbox[c], "ack") \in Seq({"ack", "request", "frame"})
      BY <2>2, PartOfSeq DEF Serving
    <3>3. outbox'[c] \in Seq({"ack", "request", "frame"})
      BY <2>1, <2>2, <3>1, <3>2 DEF Serving
    <3> QED
      BY <2>1, <2>2, <3>3 DEF Phase, Serving
  <2>3. CASE Handshake(c) /\ c \notin published
    <3>1. /\ incoming[c] \in {"auth_ok", "auth_fail"}
          /\ up[c] = <<>> /\ down[c] = <<>> /\ outbox[c] = <<>>
      BY <2>1, <2>3 DEF Handshake
    <3>2. outbox'[c] \in {<<>>, <<"auth_ok">>, <<"auth_fail">>}
      BY <2>1, <3>1
    <3>3. Handshake(c)'
      BY <2>1, <2>3, <3>1, <3>2 DEF Handshake
    <3> QED
      BY <2>1, <2>3, <3>3 DEF Phase
  <2> QED
    BY <2>1, <2>2, <2>3 DEF IInv, ConnInv, Phase, Registering
<1> QED
  BY <1>1, <1>2, <1>3, <1>4, PhaseReadMessage, PhaseRegistration DEF IncomingStep

\* The writing task's steps: a reply moves on by one place.
LEMMA PhaseOutgoingStep ==
    ASSUME IInv, TypeOK', NEW c \in Conns, OutgoingStep(c)
    PROVE  Phase(c)'
<1>1. UNCHANGED <<connections, registrations, stream, incoming, up, agent, sock,
                  published>>
  BY DEF OutgoingStep, WriteMessage, SendersGone, registryVars, wireVars
<1>2. CASE SendersGone(c)
  <2>1. outbox' = outbox /\ down' = down /\ stream[c] # "select"
    BY <1>2 DEF SendersGone, IInv, ConnInv, Removal, wireVars
  <2> QED
    BY <1>1, <2>1 DEF IInv, ConnInv, Phase, Handshake, Registering, Serving
<1>3. CASE WriteMessage(c)
  <2>1. /\ outbox[c] # <<>>
        /\ \/ /\ outbox'[c] = Tail(outbox[c])
              /\ \/ sock[c] = "up" /\ down'[c] = Append(down[c], Head(outbox[c]))
                 \/ sock[c] # "up" /\ down'[c] = down[c]
           \/ outbox'[c] = <<>> /\ down'[c] = down[c]
    BY <1>3 DEF WriteMessage, IInv, TypeOK
  <2>2. CASE Serving(c) /\ c \in published
    <3>1. /\ Tail(outbox[c]) \in Seq({"ack", "request", "frame"})
          /\ Append(down[c], Head(outbox[c])) \in Seq({"ack", "request", "frame"})
          /\ <<>> \in Seq({"ack", "request", "frame"})
      BY <2>1, <2>2, PartOfSeq DEF Serving
    <3>2. /\ outbox'[c] \in Seq({"ack", "request", "frame"})
          /\ down'[c] \in Seq({"ack", "request", "frame"})
      BY <2>1, <2>2, <3>1 DEF Serving
    <3> QED
      BY <1>1, <2>2, <3>2 DEF Phase, Serving
  <2>3. CASE Handshake(c) /\ c \notin published
    <3>1. /\ outbox[c] \in {<<"auth_ok">>, <<"auth_fail">>}
          /\ up[c] = <<>> /\ down[c] = <<>> /\ incoming[c] \in {"read", "done"}
      BY <2>1, <2>3 DEF Handshake
    <3>2. /\ Tail(outbox[c]) = <<>>
          /\ Append(down[c], Head(outbox[c])) = outbox[c]
      <4>1. \A m : Tail(<<m>>) = <<>> /\ Append(<<>>, Head(<<m>>)) = <<m>>
        OBVIOUS
      <4> QED
        BY <3>1, <4>1
    <3>3. /\ outbox'[c] = <<>>
          /\ \/ down'[c] = <<>>
             \/ sock[c] = "up" /\ down'[c] \in {<<"auth_ok">>, <<"auth_fail">>}
      BY <2>1, <3>1, <3>2
    <3>4. Handshake(c)'
      BY <1>1, <2>3, <3>1, <3>3 DEF Handshake
    <3> QED
      BY <1>1, <2>3, <3>4 DEF Phase
  <2> QED
    BY <2>1, <2>2, <2>3 DEF IInv, ConnInv, Phase, Registering
<1> QED
  BY <1>2, <1>3 DEF OutgoingStep

\* What one connection's step does leaves every other connection alone.
Untouched(d) ==
    /\ UNCHANGED <<connections[d], stream[d], incoming[d], outgoing[d], outbox[d],
                   up[d], down[d], agent[d], sock[d]>>
    /\ d \in registrations' <=> d \in registrations
    /\ d \in connection_senders' <=> d \in connection_senders
    /\ d \in published' <=> d \in published

ConnStep(c) ==
    \/ HandleWebsocketStream(c) \/ ServerStep(c)
    \/ IncomingStep(c) \/ OutgoingStep(c) \/ ForwardRequest(c) \/ TunnelStep(c)
    \/ Connect(c) \/ AgentStep(c) \/ SendHeartbeat(c) \/ Leave(c)
    \/ ConnectionLost(c) \/ SilentDeath(c)

LEMMA OthersUntouched ==
    ASSUME TypeOK, NEW c \in Conns, ConnStep(c), NEW d \in Conns, d # c
    PROVE  Untouched(d)
<1> USE DEF TypeOK, RegistryTypeOK, Untouched, registryVars, streamVars, wireVars
<1>1. CASE HandleWebsocketStream(c) \/ ServerStep(c)
  BY <1>1 DEF HandleWebsocketStream, ServerStep, EitherTaskEnded, RemoveConnection,
              StreamGoesTo, InsertSender, DropConnection, DropRegistration, DropSender
<1>2. CASE ReadMessage(c) \/ EndOfStream(c) \/ HandleIamAuth(c)
           \/ HandleProxyResponse(c) \/ SendResponse(c)
  BY <1>2 DEF ReadMessage, EndOfStream, HandleIamAuth, HandleProxyResponse,
              SendResponse, IncomingGoesTo
<1>3. CASE HandleServiceRegistration(c) \/ HandleHeartbeat(c)
  BY <1>3 DEF HandleServiceRegistration, HandleHeartbeat, IncomingGoesTo,
              InsertConnection, InsertRegistration, UpdateHeartbeat
<1>4. CASE OutgoingStep(c) \/ ForwardRequest(c) \/ TunnelStep(c)
  BY <1>4 DEF OutgoingStep, WriteMessage, SendersGone, ForwardRequest, TunnelStep,
              TunnelSends, TunnelEnds
<1>5. CASE Connect(c) \/ AgentStep(c) \/ SendHeartbeat(c)
  BY <1>5 DEF Connect, AgentStep, Authenticated, Refused, HandleIngressMessage,
              SendHeartbeat, SendUp, TakeDown, AgentGoesTo
<1>6. CASE Leave(c) \/ ConnectionLost(c) \/ SilentDeath(c)
  BY <1>6 DEF Leave, ConnectionLost, SilentDeath, AgentGoesTo
<1> QED
  BY <1>1, <1>2, <1>3, <1>4, <1>5, <1>6 DEF ConnStep, IncomingStep

\* An untouched connection keeps its invariant.
LEMMA UntouchedInv ==
    ASSUME NEW d \in Conns, ConnInv(d), Untouched(d)
    PROVE  ConnInv(d)'
<1>1. Removal(d)'
  BY DEF ConnInv, Untouched, Removal
<1>2. Tasks(d)'
  BY DEF ConnInv, Untouched, Tasks
<1>3. Handshake(d) => Handshake(d)'
  BY DEF Untouched, Handshake
<1>4. Registering(d) => Registering(d)'
  BY DEF Untouched, Registering
<1>5. Serving(d) => Serving(d)'
  BY DEF Untouched, Serving
<1>6. Phase(d)'
  BY <1>3, <1>4, <1>5 DEF ConnInv, Untouched, Phase
<1> QED
  BY <1>1, <1>2, <1>6 DEF ConnInv

\* A step of a connection keeps that connection's invariant.
LEMMA OwnStepInv ==
    ASSUME IInv, TypeOK', NEW c \in Conns, ConnStep(c)
    PROVE  ConnInv(c)'
<1>1. Removal(c)'
  <2>1. CASE HandleWebsocketStream(c) \/ ServerStep(c)
             \/ HandleServiceRegistration(c) \/ HandleHeartbeat(c)
    BY <2>1, RemovalStep
  <2>2. CASE ~ (HandleWebsocketStream(c) \/ ServerStep(c)
                \/ HandleServiceRegistration(c) \/ HandleHeartbeat(c))
    <3>1. UNCHANGED <<registryVars, stream>>
      BY <2>2 DEF ConnStep, IncomingStep, OutgoingStep, AgentStep, streamVars,
                  ReadMessage, EndOfStream, HandleIamAuth, HandleProxyResponse,
                  SendResponse, WriteMessage, SendersGone, ForwardRequest,
                  TunnelStep, TunnelSends, TunnelEnds, Connect,
                  Authenticated, Refused, HandleIngressMessage, SendHeartbeat,
                  Leave, ConnectionLost, SilentDeath
    <3> QED
      BY <3>1, SameRemoval DEF IInv, ConnInv
  <2> QED
    BY <2>1, <2>2
<1>2. Tasks(c)'
  BY TasksAgentStep, TasksServerStep DEF ConnStep
<1>3. Phase(c)'
  BY PhaseAgentStep, PhaseNetworkStep, PhaseStreamStep, PhaseIncomingStep,
     PhaseOutgoingStep DEF ConnStep
<1> QED
  BY <1>1, <1>2, <1>3 DEF ConnInv

\* The invariant holds initially.
LEMMA InitInv == Init => IInv
<1> SUFFICES ASSUME Init PROVE IInv
  OBVIOUS
<1> USE DEF Init, RegistryInit
<1>1. TypeOK
  BY DEF TypeOK, RegistryTypeOK
<1>2. ASSUME NEW c \in Conns PROVE ConnInv(c)
  BY <1>2 DEF ConnInv, Removal, Tasks, Phase, Handshake
<1> QED
  BY <1>1, <1>2 DEF IInv

\* Every step keeps it.
LEMMA NextInv == IInv /\ [Next]_connVars => IInv'
<1> SUFFICES ASSUME IInv, [Next]_connVars PROVE IInv'
  OBVIOUS
<1>1. TypeOK'
  BY NextType DEF IInv
<1>2. CASE UNCHANGED connVars
  <2>1. ASSUME NEW d \in Conns PROVE Untouched(d)
    BY <1>2 DEF Untouched, connVars, registryVars, streamVars, wireVars
  <2> QED
    BY <1>1, <2>1, UntouchedInv DEF IInv
<1>3. CASE Next
  <2>1. PICK c \in Conns : ConnStep(c)
    BY <1>3 DEF Next, ConnStep
  <2>2. ASSUME NEW d \in Conns PROVE ConnInv(d)'
    <3>1. CASE d = c
      BY <1>1, <2>1, <3>1, OwnStepInv
    <3>2. CASE d # c
      <4>1. Untouched(d)
        BY <2>1, <3>2, OthersUntouched DEF IInv
      <4> QED
        BY <4>1, UntouchedInv DEF IInv
    <3> QED
      BY <3>1, <3>2
  <2> QED
    BY <1>1, <2>2 DEF IInv
<1> QED
  BY <1>2, <1>3

\* The removal, the tasks and the messages of every connection stay in step.
THEOREM Invariant == SafeSpec => []IInv
  BY InitInv, NextInv, PTL DEF SafeSpec

-----------------------------------------------------------------------------
(* The theorems *)

\* Every variable keeps its type, whatever the agents and the network do.
THEOREM TypeCorrect == SafeSpec => []TypeOK
<1>1. IInv => TypeOK
  BY DEF IInv
<1> QED
  BY <1>1, Invariant, PTL

\* registry.rs:81-99: once remove_connection has returned, no map of the
\* registry ever holds anything of the connection again.
THEOREM ConnectionsRemoved == SafeSpec => []CleanupComplete
<1>1. IInv => CleanupComplete
  BY DEF IInv, ConnInv, Removal, CleanupComplete
<1> QED
  BY <1>1, Invariant, PTL

\* registry.rs:81-135: a registration that can be copied always has its sender.
THEOREM SendersOutliveRegistrations == SafeSpec => []RegisteredHasSender
<1>1. IInv => RegisteredHasSender
  BY DEF IInv, TypeOK, RegistryTypeOK, ConnInv, Removal, RegisteredHasSender
<1> QED
  BY <1>1, Invariant, PTL

\* registry.rs:155: no heartbeat of a connection in use is one of an unknown
\* connection, or of one that is not registered.
THEOREM HeartbeatsKnown == SafeSpec => []HeartbeatKnown
<1>1. IInv => HeartbeatKnown
  BY DEF IInv, ConnInv, Phase, Handshake, Registering, Serving, HeartbeatKnown
<1> QED
  BY <1>1, Invariant, PTL

-----------------------------------------------------------------------------
(* The connection with its tasks, its agent and its network implements       *)
(* ConnectionLife.                                                          *)

\* A connection's step changes no other connection's life.
LEMMA BarsChangeAtOne ==
    ASSUME TypeOK, NEW c \in Conns, ConnStep(c)
    PROVE  /\ lifeBar' = [lifeBar EXCEPT ![c] = LifeOf(c)']
           /\ receiverBar' = [receiverBar EXCEPT ![c] = ReceiverOf(c)']
           /\ lifeBar[c] = LifeOf(c) /\ receiverBar[c] = ReceiverOf(c)
<1>1. ASSUME NEW d \in Conns, d # c
      PROVE  LifeOf(d)' = LifeOf(d) /\ ReceiverOf(d)' = ReceiverOf(d)
  <2>1. Untouched(d)
    BY <1>1, OthersUntouched
  <2> QED
    BY <2>1 DEF Untouched, LifeOf, ReceiverOf
<1> QED
  BY <1>1 DEF lifeBar, receiverBar

\* What leaves the connection's own life alone is a stutter.
LEMMA Unseen ==
    ASSUME TypeOK, NEW c \in Conns, ConnStep(c), UNCHANGED registryVars,
           LifeOf(c)' = LifeOf(c), ReceiverOf(c)' = ReceiverOf(c)
    PROVE  UNCHANGED <<Life!registryVars, Life!lifeVars>>
<1>1. lifeBar' = lifeBar /\ receiverBar' = receiverBar
  BY BarsChangeAtOne DEF lifeBar, receiverBar
<1> QED
  BY <1>1 DEF Life!lifeVars, Life!registryVars, registryVars

LEMMA AgentStepUnseen ==
    ASSUME IInv, NEW c \in Conns,
           \/ Connect(c) \/ AgentStep(c) \/ SendHeartbeat(c) \/ Leave(c)
           \/ ConnectionLost(c) \/ SilentDeath(c) \/ ForwardRequest(c) \/ TunnelStep(c)
    PROVE  UNCHANGED <<Life!registryVars, Life!lifeVars>>
<1>1. UNCHANGED registryVars /\ UNCHANGED <<stream, incoming, outgoing, published>>
  BY DEF Connect, AgentStep, Authenticated, Refused, HandleIngressMessage, SendHeartbeat,
         Leave, ConnectionLost, SilentDeath, ForwardRequest, TunnelStep, TunnelSends,
         TunnelEnds, streamVars
<1>2. LifeOf(c)' = LifeOf(c) /\ ReceiverOf(c)' = ReceiverOf(c)
  BY <1>1 DEF LifeOf, ReceiverOf
<1> QED
  BY <1>1, <1>2, Unseen DEF IInv, ConnStep

\* register_connection accepts; ending the wait shows nothing.
LEMMA StreamStepSeen ==
    ASSUME IInv, NEW c \in Conns, HandleWebsocketStream(c) \/ EitherTaskEnded(c)
    PROVE  Life!Accept(c) \/ UNCHANGED <<Life!registryVars, Life!lifeVars>>
<1> USE DEF IInv
<1>1. CASE HandleWebsocketStream(c)
  <2>1. /\ LifeOf(c) = "none" /\ LifeOf(c)' = "accepted" /\ ReceiverOf(c)' = "open"
    BY <1>1 DEF TypeOK, HandleWebsocketStream, StreamGoesTo, LifeOf, ReceiverOf, wireVars,
                ConnInv, Phase, Serving, Tasks
  <2> QED
    BY <1>1, <2>1, BarsChangeAtOne
    DEF ConnStep, HandleWebsocketStream, InsertSender, Life!Accept, Life!InsertSender
<1>2. CASE EitherTaskEnded(c)
  <2>1. UNCHANGED registryVars /\ LifeOf(c)' = LifeOf(c) /\ ReceiverOf(c)' = ReceiverOf(c)
    BY <1>2 DEF TypeOK, EitherTaskEnded, StreamGoesTo, LifeOf, ReceiverOf
  <2> QED
    BY <1>2, <2>1, Unseen DEF ConnStep, ServerStep
<1> QED
  BY <1>1, <1>2

\* The removal never meets a registration that is between its two sections.
LEMMA RemovalSeen ==
    ASSUME IInv, NEW c \in Conns, RemoveConnection(c)
    PROVE  Life!Remove(c)
<1>1. UNCHANGED <<incoming, outgoing, published>>
  BY DEF RemoveConnection
<1>2. ReceiverOf(c)' = ReceiverOf(c)
  BY <1>1 DEF ReceiverOf
<1>3. receiverBar' = receiverBar
  BY <1>2, BarsChangeAtOne DEF IInv, ConnStep, ServerStep, receiverBar
<1>4. lifeBar' = [lifeBar EXCEPT ![c] = LifeOf(c)'] /\ lifeBar[c] = LifeOf(c)
  BY BarsChangeAtOne DEF IInv, ConnStep, ServerStep
<1>5. CASE stream[c] = "rm_connection"
  <2>1. DropConnection(c) /\ stream'[c] = "rm_registration"
    BY <1>5 DEF RemoveConnection, StreamGoesTo, IInv, TypeOK
  <2>2. incoming[c] # "register_service"
    BY <1>5 DEF IInv, ConnInv, Phase, Handshake, Registering, Serving
  <2>3. LifeOf(c) \in {"accepted", "listed"} /\ LifeOf(c)' = "no_connection"
    BY <1>5, <2>1, <2>2 DEF LifeOf
  <2> QED
    BY <1>3, <1>4, <2>1, <2>3
    DEF Life!Remove, Life!Becomes, Life!DropConnection, DropConnection
<1>6. CASE stream[c] = "rm_registration"
  <2>1. DropRegistration(c) /\ stream'[c] = "rm_sender"
    BY <1>6 DEF RemoveConnection, StreamGoesTo, IInv, TypeOK
  <2>2. LifeOf(c) = "no_connection" /\ LifeOf(c)' = "no_registration"
    BY <1>6, <2>1 DEF LifeOf
  <2> QED
    BY <1>3, <1>4, <2>1, <2>2
    DEF Life!Remove, Life!Becomes, Life!DropRegistration, DropRegistration
<1>7. CASE stream[c] = "rm_sender"
  <2>1. DropSender(c) /\ stream'[c] = "ended"
    BY <1>7 DEF RemoveConnection, StreamGoesTo, IInv, TypeOK
  <2>2. LifeOf(c) = "no_registration" /\ LifeOf(c)' = "gone"
    BY <1>7, <2>1 DEF LifeOf
  <2> QED
    BY <1>3, <1>4, <2>1, <2>2 DEF Life!Remove, Life!Becomes, Life!DropSender, DropSender
<1> QED
  BY <1>5, <1>6, <1>7 DEF RemoveConnection

\* The two sections of register_service come in the accepted connection's life.
LEMMA RegistrationSeen ==
    ASSUME IInv, NEW c \in Conns, HandleServiceRegistration(c)
    PROVE  Life!Register(c)
<1>1. UNCHANGED <<stream, outgoing>>
  BY DEF HandleServiceRegistration
<1>2. receiverBar' = receiverBar
  BY <1>1 DEF receiverBar, ReceiverOf
<1>3. lifeBar' = [lifeBar EXCEPT ![c] = LifeOf(c)'] /\ lifeBar[c] = LifeOf(c)
  BY BarsChangeAtOne DEF IInv, ConnStep, IncomingStep
<1>4. c \notin published /\ stream[c] = "select"
  BY DEF HandleServiceRegistration, IInv, ConnInv, Phase, Handshake, Registering, Serving
<1>5. CASE incoming[c] = "register"
  <2>1. InsertConnection(c) /\ incoming'[c] = "register_service" /\ published' = published
    BY <1>5 DEF HandleServiceRegistration, IncomingGoesTo, IInv, TypeOK
  <2>2. LifeOf(c) = "accepted" /\ LifeOf(c)' = "listing"
    BY <1>1, <1>4, <1>5, <2>1 DEF LifeOf
  <2> QED
    BY <1>2, <1>3, <2>1, <2>2
    DEF Life!Register, Life!Becomes, Life!InsertConnection, InsertConnection
<1>6. CASE incoming[c] = "register_service"
  <2>1. InsertRegistration(c) /\ incoming'[c] = "ack" /\ c \in published'
    BY <1>6 DEF HandleServiceRegistration, IncomingGoesTo, IInv, TypeOK
  <2>2. LifeOf(c) = "listing" /\ LifeOf(c)' = "listed"
    BY <1>1, <1>4, <1>6, <2>1 DEF LifeOf
  <2> QED
    BY <1>2, <1>3, <2>1, <2>2
    DEF Life!Register, Life!Becomes, Life!InsertRegistration, InsertRegistration
<1> QED
  BY <1>5, <1>6 DEF HandleServiceRegistration

\* A heartbeat that finds an entry finds a listed connection.
LEMMA HeartbeatSeen ==
    ASSUME IInv, NEW c \in Conns, HandleHeartbeat(c)
    PROVE  Life!Heartbeat(c) \/ UNCHANGED <<Life!registryVars, Life!lifeVars>>
<1>1. /\ UNCHANGED <<stream, outgoing, published>>
      /\ incoming[c] = "heartbeat" /\ incoming'[c] = "read"
  BY DEF HandleHeartbeat, IncomingGoesTo, IInv, TypeOK, wireVars
<1>2. LifeOf(c)' = LifeOf(c) /\ ReceiverOf(c)' = ReceiverOf(c)
  BY <1>1 DEF LifeOf, ReceiverOf
<1>3. CASE UpdateHeartbeat(c)
  <2>1. stream[c] \in {"select", "rm_connection"} /\ c \in published
    BY <1>1, <1>3 DEF UpdateHeartbeat, IInv, TypeOK, ConnInv, Removal, Tasks, Phase,
                      Handshake, Registering
  <2>2. LifeOf(c) = "listed"
    BY <1>1, <2>1 DEF LifeOf
  <2>3. lifeBar' = lifeBar /\ receiverBar' = receiverBar /\ lifeBar[c] = "listed"
    BY <1>2, <2>2, BarsChangeAtOne DEF IInv, ConnStep, IncomingStep, lifeBar, receiverBar
  <2> QED
    BY <1>3, <2>3 DEF Life!Heartbeat, Life!UpdateHeartbeat, Life!InsertConnection,
                      UpdateHeartbeat, InsertConnection, Life!lifeVars
<1>4. CASE UNCHANGED registryVars
  BY <1>2, <1>4, Unseen DEF IInv, ConnStep, IncomingStep
<1> QED
  BY <1>3, <1>4 DEF HandleHeartbeat

\* The reading task's other steps show nothing.
LEMMA ReadingUnseen ==
    ASSUME IInv, NEW c \in Conns,
           \/ ReadMessage(c) \/ EndOfStream(c) \/ HandleIamAuth(c)
           \/ HandleProxyResponse(c) \/ SendResponse(c)
    PROVE  UNCHANGED <<Life!registryVars, Life!lifeVars>>
<1>1. UNCHANGED registryVars /\ UNCHANGED <<stream, outgoing, published>>
  BY DEF ReadMessage, EndOfStream, HandleIamAuth, HandleProxyResponse, SendResponse, wireVars
<1>2. incoming[c] # "register_service" /\ incoming'[c] # "register_service"
  <2>1. CASE ReadMessage(c)
    <3>1. Head(up[c]) \in UpMessages
      BY <2>1, PartOfSeq DEF ReadMessage, IInv, TypeOK
    <3> QED
      BY <2>1, <3>1 DEF ReadMessage, IncomingGoesTo, IInv, TypeOK, UpMessages
  <2> QED
    BY <2>1 DEF EndOfStream, HandleIamAuth, HandleProxyResponse, SendResponse,
                IncomingGoesTo, IInv, TypeOK
<1>3. LifeOf(c)' = LifeOf(c) /\ ReceiverOf(c)' = ReceiverOf(c)
  BY <1>1, <1>2 DEF LifeOf, ReceiverOf
<1> QED
  BY <1>1, <1>3, Unseen DEF IInv, ConnStep, IncomingStep

\* The writing task's end is the receiver's.
LEMMA WritingSeen ==
    ASSUME IInv, NEW c \in Conns, OutgoingStep(c)
    PROVE  Life!DropReceiver(c) \/ UNCHANGED <<Life!registryVars, Life!lifeVars>>
<1>1. /\ UNCHANGED registryVars /\ UNCHANGED <<stream, incoming, published>>
      /\ outgoing[c] = "run" /\ outgoing'[c] \in {"run", "done"}
  BY DEF OutgoingStep, WriteMessage, SendersGone, IInv, TypeOK, wireVars
<1>2. LifeOf(c)' = LifeOf(c)
  BY <1>1 DEF LifeOf
<1>3. CASE outgoing'[c] = "run"
  <2>1. ReceiverOf(c)' = ReceiverOf(c)
    BY <1>1, <1>3 DEF ReceiverOf
  <2> QED
    BY <1>1, <1>2, <2>1, Unseen DEF IInv, ConnStep
<1>4. CASE outgoing'[c] = "done"
  <2>1. ReceiverOf(c) = "open" /\ ReceiverOf(c)' = "dropped"
    BY <1>1, <1>4 DEF ReceiverOf
  <2>2. lifeBar' = lifeBar
    BY <1>2, BarsChangeAtOne DEF IInv, ConnStep, lifeBar
  <2> QED
    BY <1>1, <2>1, <2>2, BarsChangeAtOne
    DEF IInv, ConnStep, Life!DropReceiver, Life!registryVars, registryVars
<1> QED
  BY <1>1, <1>3, <1>4

-----------------------------------------------------------------------------
\* ImplementsConnectionLife: for any connections, each goes through the
\* registry's critical sections in the one order the rest of the server may
\* rely on.
THEOREM ConnectionImplementsLife == SafeSpec => ImplementsConnectionLife
<1>1. Init => Life!LifeInit
  BY DEF Init, RegistryInit, Life!LifeInit, Life!RegistryInit, lifeBar, receiverBar,
         LifeOf, ReceiverOf
<1>2. IInv /\ [Next]_connVars => [Life!LifeNext]_<<Life!registryVars, Life!lifeVars>>
  <2> SUFFICES ASSUME IInv, [Next]_connVars
               PROVE  [Life!LifeNext]_<<Life!registryVars, Life!lifeVars>>
    OBVIOUS
  <2>1. CASE UNCHANGED connVars
    <3>1. lifeBar' = lifeBar /\ receiverBar' = receiverBar
      BY <2>1 DEF connVars, streamVars, lifeBar, receiverBar, LifeOf, ReceiverOf
    <3> QED
      BY <2>1, <3>1 DEF connVars, registryVars, Life!registryVars, Life!lifeVars
  <2>2. ASSUME NEW c \in Conns, ConnStep(c)
        PROVE  Life!LifeStep(c) \/ UNCHANGED <<Life!registryVars, Life!lifeVars>>
    <3>1. CASE \/ Connect(c) \/ AgentStep(c) \/ SendHeartbeat(c) \/ Leave(c)
               \/ ConnectionLost(c) \/ SilentDeath(c) \/ ForwardRequest(c)
               \/ TunnelStep(c)
      BY <3>1, AgentStepUnseen
    <3>2. CASE HandleWebsocketStream(c) \/ ServerStep(c)
      BY <3>2, StreamStepSeen, RemovalSeen DEF ServerStep, Life!LifeStep
    <3>3. CASE IncomingStep(c)
      BY <3>3, ReadingUnseen, RegistrationSeen, HeartbeatSeen DEF IncomingStep, Life!LifeStep
    <3>4. CASE OutgoingStep(c)
      BY <3>4, WritingSeen DEF Life!LifeStep
    <3> QED
      BY <2>2, <3>1, <3>2, <3>3, <3>4 DEF ConnStep
  <2> QED
    BY <2>1, <2>2 DEF Next, ConnStep, Life!LifeNext
<1> QED
  BY <1>1, <1>2, Invariant, PTL DEF SafeSpec, ImplementsConnectionLife, Life!LifeSpec
==============================================================================
