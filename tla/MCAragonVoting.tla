---------------------------- MODULE MCAragonVoting ----------------------------
(* Small instances of AragonVoting for TLC. *)
EXTENDS AragonVoting

\* All of it is on mainnet.
MCChainOf == [src \in {"aragon_voting"} |-> 1]
=============================================================================
