--------------------------- MODULE MeshClientProofs ---------------------------
(***************************************************************************)
(* Theorems about the agent's loop and the tasks of its sessions, for any  *)
(* endpoint and any number of instances and resets.                        *)
(***************************************************************************)
EXTENDS MeshClient, TLAPS

\* What is true of the session in the loop: its tasks start when it is
\* authenticated; the watch channel is only written to by its own monitor.
SessionInv ==
    /\ loop \in {"serve", "call"} =>
           /\ heartbeat[cur] = "run"
           /\ monitor[cur] \in {"run", "hung"} \/ roll = "yes"
    /\ loop = "auth" => monitor[cur] = "none" /\ heartbeat[cur] = "none"

MeshInv == MeshTypeOK /\ SessionInv

\* What the proofs need to know of the constants.
LEMMA Bounds == Instances \in Nat \ {0} /\ MaxResets \in Nat
BY MeshClientAssumption DEF MeshClientAssumption

\* A target is an instance.
LEMMA TargetsAreServers == MeshTypeOK => targets \subseteq Servers
BY Bounds DEF MeshTypeOK, Servers

-----------------------------------------------------------------------------
\* The server's instances and the network do nothing to the agent's tasks, but
\* for a poll that is never answered.
LEMMA OutsideKeeps ==
    ASSUME MeshInv, ServersStep \/ ResetConnection \/ TcpTimeout
    PROVE  MeshInv'
<1> USE Bounds
    DEF MeshInv, MeshTypeOK, SessionInv, Servers, Socks,
        loopVars, taskVars, serverVars
<1>1. CASE StartInstance
  <2>1. started' \in Servers /\ started < started'
    BY <1>1 DEF StartInstance
  <2>2. 1 .. started \subseteq 1 .. started'
    BY <2>1
  <2>3. running' \subseteq 1 .. started' /\ targets' \subseteq running'
    BY <1>1, <2>1, <2>2 DEF StartInstance
  <2> QED
    BY <1>1, <2>1, <2>3 DEF StartInstance
<1>2. ASSUME NEW i \in Servers, Drain(i)
      PROVE  MeshInv'
  BY <1>2 DEF Drain
<1>3. ASSUME NEW i \in Servers, StopInstance(i)
      PROVE  MeshInv'
  BY <1>3 DEF StopInstance, Gone
<1>4. ASSUME NEW i \in Servers, VanishInstance(i)
      PROVE  MeshInv'
  <2>1. PICK polls \in SUBSET {s \in Slots : monitor[s] = "run" /\ i \in targets} :
           monitor' = [s \in Slots |-> IF s \in polls THEN "hung" ELSE monitor[s]]
    BY <1>4 DEF VanishInstance
  <2>2. monitor' \in [Slots -> {"none", "run", "hung"}]
    BY <2>1
  <2>3. \A s \in Slots : monitor'[s] \in {monitor[s], "hung"} /\ (monitor'[s] # monitor[s] => monitor[s] = "run")
    BY <2>1
  <2>4. PICK ends \in {"silent", "unacked"} : Gone(i, ends)
    BY <1>4 DEF VanishInstance
  <2>5. /\ UNCHANGED <<started, resets, loop, cur, peer, roll, queued>>
        /\ running' \subseteq running /\ targets' \subseteq running'
        /\ sock' \in Socks
    BY <2>4 DEF Gone
  <2>6. UNCHANGED <<seen, heartbeat>>
    BY <1>4 DEF VanishInstance
  <2> QED
    BY <2>2, <2>3, <2>5, <2>6
<1>5. CASE ResetConnection
  <2>1. resets' \in 0 .. MaxResets
    BY <1>5 DEF ResetConnection
  <2> QED
    BY <1>5, <2>1 DEF ResetConnection
<1>6. CASE TcpTimeout
  BY <1>6 DEF TcpTimeout
<1> QED
  BY <1>1, <1>2, <1>3, <1>4, <1>5, <1>6 DEF ServersStep

\* Connecting and authenticating give a session to the loop.
LEMMA BeginKeeps ==
    ASSUME MeshInv,
           \/ Sleep \/ ConnectFails \/ Connect \/ Upgraded \/ UpgradeFails
           \/ Authenticated \/ AuthFails
    PROVE  MeshInv'
<1> USE Bounds
    DEF MeshInv, MeshTypeOK, SessionInv, Servers, Socks,
        taskVars, serverVars
<1>1. CASE Sleep \/ ConnectFails
  BY <1>1 DEF Sleep, ConnectFails
<1>2. CASE Connect
  <2>1. peer' \in Servers
    BY <1>2, TargetsAreServers DEF Connect
  <2> QED
    BY <1>2, <2>1 DEF Connect
<1>3. CASE Upgraded
  <2>1. cur' \in Free
    BY <1>3 DEF Upgraded
  <2>2. cur' \in Slots /\ monitor[cur'] = "none" /\ heartbeat[cur'] = "none"
    BY <2>1 DEF Free
  <2> QED
    BY <1>3, <2>2 DEF Upgraded
<1>4. CASE Authenticated
  BY <1>4 DEF Authenticated
<1>5. CASE AuthFails
  BY <1>5 DEF AuthFails, Leave
<1>6. CASE UpgradeFails
  BY <1>6 DEF UpgradeFails, Leave
<1> QED
  BY <1>1, <1>2, <1>3, <1>4, <1>5, <1>6

\* The loop goes on, or drops its session.
LEMMA LoopKeeps ==
    ASSUME MeshInv,
           \/ TakeRequest \/ Respond \/ ReadClose \/ ReadError \/ SendHeartbeat
           \/ ServerRolled
    PROVE  MeshInv'
<1> USE Bounds
    DEF MeshInv, MeshTypeOK, SessionInv, Servers, Socks,
        taskVars, serverVars
<1>1. CASE TakeRequest
  BY <1>1 DEF TakeRequest
<1>2. CASE Respond
  BY <1>2 DEF Respond, Write, ReturnError, Leave
<1>3. CASE ReadError
  BY <1>3 DEF ReadError, ReturnError, Leave
<1>4. CASE SendHeartbeat
  BY <1>4 DEF SendHeartbeat, Write, Break, Leave
<1>5. CASE ReadClose \/ ServerRolled
  BY <1>5 DEF ReadClose, ServerRolled, Break, Leave
<1> QED
  BY <1>1, <1>2, <1>3, <1>4, <1>5

\* A task of a session, current or left behind, makes a step.
LEMMA TasksKeep ==
    ASSUME MeshInv, NEW s \in Slots, HeartbeatTick(s) \/ Poll(s)
    PROVE  MeshInv'
<1> USE Bounds
    DEF MeshInv, MeshTypeOK, SessionInv, Servers, Socks,
        serverVars
<1>1. CASE HeartbeatTick(s)
  BY <1>1 DEF HeartbeatTick
<1>2. CASE Poll(s)
  <2>1. PICK i \in targets :
           \/ /\ seen[s] = None
              /\ seen' = [seen EXCEPT ![s] = i]
              /\ UNCHANGED <<monitor, roll>>
           \/ /\ seen[s] \notin {None, i}
              /\ roll' = IF cur = s THEN "yes" ELSE roll
              /\ monitor' = [monitor EXCEPT ![s] = "none"]
              /\ seen' = [seen EXCEPT ![s] = None]
    BY <1>2 DEF Poll
  <2>2. i \in Servers
    BY TargetsAreServers
  <2>3. monitor[s] = "run"
    BY <1>2 DEF Poll
  <2>4. UNCHANGED <<serverVars, loop, cur, peer, sock, queued, heartbeat>>
    BY <1>2 DEF Poll
  <2>5. MeshTypeOK'
    BY <2>1, <2>2, <2>4
  <2>6. SessionInv'
    BY <2>1, <2>3, <2>4
  <2> QED
    BY <2>5, <2>6
<1> QED
  BY <1>1, <1>2

\* The invariant holds in every state the agent reaches.
LEMMA MeshInvariant == SafeSpec => []MeshInv
<1>1. Init => MeshInv
  <2>1. 1 \in Servers /\ 1 \in 1 .. 1 /\ 0 \in 0 .. MaxResets
    BY Bounds DEF Servers
  <2> QED
    BY <2>1 DEF Init, MeshInv, MeshTypeOK, SessionInv, Socks
<1>2. MeshInv /\ [Next]_meshVars => MeshInv'
  <2> SUFFICES ASSUME MeshInv, [Next]_meshVars
               PROVE  MeshInv'
    OBVIOUS
  <2>1. CASE UNCHANGED meshVars
    BY <2>1 DEF meshVars, serverVars, loopVars, taskVars, MeshInv, MeshTypeOK,
                SessionInv
  <2> QED
    BY <2>1, OutsideKeeps, BeginKeeps, LoopKeeps, TasksKeep DEF Next, LoopStep
<1> QED
  BY <1>1, <1>2, PTL DEF SafeSpec

\* Every variable of the agent keeps its type, for all constants.
THEOREM MeshTypeCorrect == SafeSpec => []MeshTypeOK
<1>1. MeshInv => MeshTypeOK
  BY DEF MeshInv
<1> QED
  BY <1>1, MeshInvariant, PTL

\* ChannelsLast (client_impl.rs:489-497): the loop of a session never finds one
\* of its channels closed, however many sessions were left behind before it.
THEOREM ChannelsAlwaysLast == SafeSpec => []ChannelsLast
<1>1. MeshInv => ChannelsLast
  BY DEF MeshInv, SessionInv, ChannelsLast
<1> QED
  BY <1>1, MeshInvariant, PTL
=============================================================================
