--------------------------- MODULE MCTunnelRouting ---------------------------
(***************************************************************************)
(* Three agents for TLC: two serve the host by name, one by a wildcard.    *)
(***************************************************************************)
EXTENDS TunnelRouting, TLC

CONSTANTS c1, c2, c3, h1, anyHost

MCConns == {c1, c2, c3}
MCHosts == {h1}
MCWildcards == {anyHost}
MCCovers == [w \in {anyHost} |-> {h1}]
MCHostOf == [c \in MCConns |-> IF c = c3 THEN anyHost ELSE h1]

Symmetry == Permutations({c1, c2})
==============================================================================
