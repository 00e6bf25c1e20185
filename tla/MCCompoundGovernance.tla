------------------------ MODULE MCCompoundGovernance ------------------------
(* Small instances of CompoundGovernance for TLC. *)
EXTENDS CompoundGovernance

\* All of it is on mainnet.
MCChainOf == [src \in {"compound_governor"} |-> 1]
=============================================================================
