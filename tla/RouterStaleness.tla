--------------------------- MODULE RouterStaleness ---------------------------
(***************************************************************************)
(* How stale the router's host cache can make a routing decision.          *)
(*                                                                         *)
(* Router lets any time pass between two steps of a task.  Here a tick is  *)
(* long compared with the work of the server: the clock moves only when no *)
(* request is between two locks (waiting for an agent is the only step     *)
(* that takes time).  The history variable since watches the registry; it  *)
(* is read by the properties only.                                         *)
(***************************************************************************)
EXTENDS Router

VARIABLE
    since   \* per connection: ticks since its registration came or went

staleVars == <<vars, since>>

StaleInit ==
    /\ Init
    /\ since = [c \in Conns |-> CacheTtl]

WatchedStep ==
    /\ Step
    /\ since' = [c \in Conns |->
           IF (c \in registrations) = (c \in registrations')
           THEN since[c] ELSE 0]

\* No request is in the middle of the server's own work.
AtRest == \A r \in Requests : pc[r] \notin Active \ {"wait"}

WatchedTick ==
    /\ AtRest
    /\ Tick
    /\ since' = [c \in Conns |-> Older(since[c], CacheTtl)]

StaleNext == WatchedStep \/ WatchedTick

StaleSpec == StaleInit /\ [][StaleNext]_staleVars

-----------------------------------------------------------------------------
\* The list a request selects from may come from the cache (router.rs:59-68) or
\* have been overtaken by another request's fill (router.rs:82-91), but it is
\* right about every agent whose registration neither came nor went within the
\* last CacheTtl: such an agent is listed exactly when it is registered.
ListAgreesAfterTtl ==
    \A r \in Requests : pc[r] = "match" =>
        \A c \in Conns : since[c] >= CacheTtl =>
            (c \in services[r] <=> c \in Matching(target_host[r]))

\* No request is handed to an agent that deregistered or was cleaned up
\* CacheTtl ago or more, though neither selection nor the sender lookup looks at
\* registrations again (router.rs:97-127).
NoForwardLongAfterLeaving ==
    [][\A r \in Requests : Forward(r) =>
           \/ selected[r] \in registrations
           \/ since[selected[r]] < CacheTtl]_staleVars
=============================================================================
