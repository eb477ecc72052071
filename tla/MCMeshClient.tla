---------------------------- MODULE MCMeshClient ----------------------------
(***************************************************************************)
(* Agents with and without a path in their ingress endpoint, for TLC.      *)
(***************************************************************************)
EXTENDS MeshClient

PlainEndpoint == [scheme |-> "wss", path |-> ""]
PathEndpoint == [scheme |-> "wss", path |-> "/path"]
=============================================================================
