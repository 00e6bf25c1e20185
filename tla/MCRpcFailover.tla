--------------------------- MODULE MCRpcFailover ---------------------------
(***************************************************************************)
(* Two providers and two concurrent sends.                                 *)
(***************************************************************************)
EXTENDS RpcFailover

CONSTANTS primary, secondary, s1, s2

MCOrder == <<primary, secondary>>
MCSends == {s1, s2}
=============================================================================
