------------------------- MODULE MCAgentConnection -------------------------
(***************************************************************************)
(* One agent and its connection for TLC.                                   *)
(***************************************************************************)
EXTENDS AgentConnection

CONSTANTS h1

MCCovers == [w \in {} |-> {}]
MCHostOf == [c \in Conns |-> h1]
=============================================================================
