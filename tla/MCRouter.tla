------------------------------ MODULE MCRouter ------------------------------
(***************************************************************************)
(* A small mesh for TLC: every agent serves the one host.                  *)
(***************************************************************************)
EXTENDS Router, TLC

CONSTANTS h1

MCHosts == {h1}
MCWildcards == {}
MCCovers == [w \in {} |-> {}]
MCHostOf == [c \in Conns |-> h1]

Symmetry == Permutations(Conns) \cup Permutations(Requests)
=============================================================================
