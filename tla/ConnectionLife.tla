--------------------------- MODULE ConnectionLife ---------------------------
(***************************************************************************)
(* What an agent's connection is to the rest of the server: the critical   *)
(* sections of the registry it goes through, in their order, and the queue *)
(* that takes its messages until its receiver is dropped.                  *)
(*                                                                         *)
(* This is what AgentConnection promises, whatever agent, network and the  *)
(* connection's tasks do: AgentConnectionProofs shows that it keeps        *)
(* the promise, and TunnelRouting builds on it.                            *)
(***************************************************************************)
EXTENDS Registry

VARIABLES
    life,     \* per connection: how far it has come
    receiver  \* per connection: the end of its queue that the writer reads

lifeVars == <<life, receiver>>

Lives == {"none", "accepted", "listing", "listed",
          "no_connection", "no_registration", "gone"}

LifeTypeOK ==
    /\ RegistryTypeOK
    /\ life \in [Conns -> Lives]
    /\ receiver \in [Conns -> {"none", "open", "dropped"}]

LifeInit ==
    /\ RegistryInit
    /\ life = [c \in Conns |-> "none"]
    /\ receiver = [c \in Conns |-> "none"]

-----------------------------------------------------------------------------
Becomes(c, from, to) ==
    /\ life[c] \in from
    /\ life' = [life EXCEPT ![c] = to]
    /\ UNCHANGED receiver

\* handle_websocket_stream begins: register_connection.
Accept(c) ==
    /\ life[c] = "none"
    /\ life' = [life EXCEPT ![c] = "accepted"]
    /\ receiver' = [receiver EXCEPT ![c] = "open"]
    /\ InsertSender(c)

\* register_service, once: the connection's entry, then the registration.
Register(c) ==
    \/ Becomes(c, {"accepted"}, "listing") /\ InsertConnection(c)
    \/ Becomes(c, {"listing"}, "listed") /\ InsertRegistration(c)

\* update_heartbeat finds the entry until it is removed.
Heartbeat(c) ==
    /\ life[c] = "listed"
    /\ UpdateHeartbeat(c)
    /\ UNCHANGED lifeVars

\* remove_connection: never while register_service is between its two sections.
Remove(c) ==
    \/ Becomes(c, {"accepted", "listed"}, "no_connection") /\ DropConnection(c)
    \/ Becomes(c, {"no_connection"}, "no_registration") /\ DropRegistration(c)
    \/ Becomes(c, {"no_registration"}, "gone") /\ DropSender(c)

\* The writing task ends: before the removal, when a write fails, or after it,
\* when the last sender is gone.
DropReceiver(c) ==
    /\ receiver[c] = "open"
    /\ receiver' = [receiver EXCEPT ![c] = "dropped"]
    /\ UNCHANGED <<registryVars, life>>

LifeStep(c) ==
    \/ Accept(c) \/ Register(c) \/ Heartbeat(c) \/ Remove(c) \/ DropReceiver(c)

\* The clock's tick, as the registry sees it.
LifeTick == AgeHeartbeats /\ UNCHANGED lifeVars

LifeNext == LifeTick \/ \E c \in Conns : LifeStep(c)

LifeSpec == LifeInit /\ [][LifeNext]_<<registryVars, lifeVars>>

\* A message for the agent is taken: the sender is stored and its queue is read.
CanSend(c) == c \in connection_senders /\ receiver[c] = "open"
=============================================================================
