------------------------------ MODULE Registry ------------------------------
(***************************************************************************)
(* DefaultRegistry (mesh/src/server/registry.rs): the three maps every     *)
(* task of the mesh server shares, and host matching and health selection  *)
(* over them (mesh/src/common/routing.rs).                                 *)
(*                                                                         *)
(* Each map has a lock of its own, so the step of this model is one        *)
(* critical section: an operation of the registry that takes two or three  *)
(* locks is two or three actions here, and other tasks run between them.   *)
(* The modules that use the registry say in which order they take them.    *)
(*                                                                         *)
(* Time is counted in ticks of a clock.  A connection's entry carries the  *)
(* ticks since its last heartbeat, up to HealthyWindow: whatever is older  *)
(* is unhealthy for good, so the age needs no other bound.                 *)
(***************************************************************************)
EXTENDS Integers, FiniteSets

CONSTANTS
    Conns,          \* connection ids (a fresh UUID per accepted websocket)
    Hosts,          \* host names ALB clients ask for
    Wildcards,      \* registered hosts that start with '*'
    Covers,         \* Covers[w]: the host names that end with w's suffix
    HostOf,         \* the host the agent of a connection registers
    HealthyWindow,  \* ticks without a heartbeat that make an agent unhealthy
    None            \* no entry

ASSUME RegistryAssumption ==
    /\ Hosts \cap Wildcards = {}
    /\ Covers \in [Wildcards -> SUBSET Hosts]
    /\ HostOf \in [Conns -> Hosts \cup Wildcards]
    /\ HealthyWindow \in Nat \ {0}
    /\ None \notin Conns
    /\ None \notin Int

VARIABLES
    connections,        \* per connection: age of its last heartbeat, or None
    registrations,      \* connections with a service registration
    connection_senders  \* connections whose message sender is stored

registryVars == <<connections, registrations, connection_senders>>

Ages == 0 .. HealthyWindow

RegistryTypeOK ==
    /\ connections \in [Conns -> Ages \cup {None}]
    /\ registrations \subseteq Conns
    /\ connection_senders \subseteq Conns

RegistryInit ==
    /\ connections = [c \in Conns |-> None]
    /\ registrations = {}
    /\ connection_senders = {}

-----------------------------------------------------------------------------
(* Critical sections on connections. *)

\* Mutant: the entry starts out older than any heartbeat is remembered.
InsertConnectionExpired(c) ==
    /\ connections' = [connections EXCEPT ![c] = HealthyWindow + 1]
    /\ UNCHANGED <<registrations, connection_senders>>

InsertConnection(c) ==
    /\ connections' = [connections EXCEPT ![c] = 0]
    /\ UNCHANGED <<registrations, connection_senders>>

DropConnection(c) ==
    /\ connections' = [connections EXCEPT ![c] = None]
    /\ UNCHANGED <<registrations, connection_senders>>

\* A heartbeat of a connection without an entry is refused and changes nothing.
UpdateHeartbeat(c) ==
    /\ connections[c] # None
    /\ InsertConnection(c)

(* Critical sections on registrations. *)

InsertRegistration(c) ==
    /\ registrations' = registrations \cup {c}
    /\ UNCHANGED <<connections, connection_senders>>

DropRegistration(c) ==
    /\ registrations' = registrations \ {c}
    /\ UNCHANGED <<connections, connection_senders>>

(* Critical sections on connection_senders. *)

InsertSender(c) ==
    /\ connection_senders' = connection_senders \cup {c}
    /\ UNCHANGED <<connections, registrations>>

DropSender(c) ==
    /\ connection_senders' = connection_senders \ {c}
    /\ UNCHANGED <<connections, registrations>>

-----------------------------------------------------------------------------
(* Matching and health. *)

\* match_host_to_service on a list of one registration.
MatchesHost(c, h) ==
    \/ HostOf[c] = h
    \/ HostOf[c] \in Wildcards /\ h \in Covers[HostOf[c]]

\* The registrations find_matching_services keeps from a snapshot of the map.
Matching(h) == {c \in registrations : MatchesHost(c, h)}

\* The predicate of select_healthy_instance.
Healthy(c) == connections[c] # None /\ connections[c] < HealthyWindow

\* An age that has counted up to its limit stays there.
Older(age, limit) == IF age < limit THEN age + 1 ELSE age

\* One tick of the clock, as the entries see it.
AgeHeartbeats ==
    /\ connections' = [c \in Conns |->
           IF connections[c] = None THEN None
                                    ELSE Older(connections[c], HealthyWindow)]
    /\ UNCHANGED <<registrations, connection_senders>>
=============================================================================
