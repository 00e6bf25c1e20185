-------------------------- MODULE MCLidoGovernance --------------------------
EXTENDS LidoGovernance
MCVotes == {1}

\* All of it is on mainnet.
MCChainOf == [src \in {"aragon_voting", "dual_governance"} |-> 1]
=============================================================================
