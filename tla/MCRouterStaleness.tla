-------------------------- MODULE MCRouterStaleness --------------------------
(***************************************************************************)
(* One agent that serves a host by a wildcard, for TLC.                    *)
(***************************************************************************)
EXTENDS RouterStaleness

CONSTANTS c1, h1, anyHost

MCConns == {c1}
MCHosts == {h1}
MCWildcards == {anyHost}
MCCovers == [w \in {anyHost} |-> {h1}]
MCHostOf == [c \in MCConns |-> anyHost]
=============================================================================
