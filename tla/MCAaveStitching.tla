--------------------------- MODULE MCAaveStitching ---------------------------
(* One proposal: two share nothing but the queue. *)
EXTENDS AaveStitching, TLC

\* Governance and the payload on mainnet, the vote on a chain that sorts later.
MCChainOf == [src \in {Gov, Controller} |-> 1] @@ (Machine :> 2)
=============================================================================
