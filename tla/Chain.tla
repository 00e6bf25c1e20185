------------------------------- MODULE Chain -------------------------------
(***************************************************************************)
(* The EVM chain as libs/chain sees it: a tip that grows, and unconfirmed  *)
(* blocks whose contents a reorganisation may replace.  Every ingestion    *)
(* path reads it through eth_blockNumber and eth_getLogs.                  *)
(***************************************************************************)
EXTENDS Integers

CONSTANTS
    Logs,     \* the logs the source's filter matches, on either fork
    BlockOf,  \* the block a log is mined in
    ForkOf,   \* 0: in the block first seen, 1: in its replacement
    HeadLag,  \* ChainConfig.headLag
    InitTip,  \* the tip when the behaviour begins
    MaxTip    \* bound: the last block of a behaviour

ASSUME ChainAssumption ==
    /\ HeadLag \in Nat
    /\ MaxTip \in Nat
    /\ InitTip \in 0..MaxTip
    /\ BlockOf \in [Logs -> 0..MaxTip]
    /\ ForkOf \in [Logs -> {0, 1}]

VARIABLES
    tip,      \* eth_blockNumber
    canon     \* which fork of each block is canonical

chainVars == <<tip, canon>>

Blocks == 0..MaxTip

ChainTypeOK == tip \in Blocks /\ canon \in [Blocks -> {0, 1}]

ChainInit == tip = InitTip /\ canon = [b \in Blocks |-> 0]

\* readConfirmedHead: the tip less headLag, never below 0.
ConfirmedHead == IF tip > HeadLag THEN tip - HeadLag ELSE 0

Canonical(l) == ForkOf[l] = canon[BlockOf[l]]

\* What eth_getLogs answers for a block range.
LogsIn(from, to) ==
    {l \in Logs : /\ Canonical(l)
                  /\ BlockOf[l] <= tip
                  /\ from <= BlockOf[l]
                  /\ BlockOf[l] <= to}

Mine ==
    /\ tip < MaxTip
    /\ tip' = tip + 1
    /\ UNCHANGED canon

\* A reorganisation replaces the blocks from b to the tip.  headLag is chosen
\* so that it never reaches a confirmed block (ADR-0058).
Reorg ==
    \E b \in Blocks :
        /\ ConfirmedHead < b /\ b <= tip
        /\ canon' = [x \in Blocks |-> IF b <= x /\ x <= tip THEN 1 ELSE canon[x]]
        /\ canon' # canon
        /\ UNCHANGED tip

ChainNext == Mine \/ Reorg
=============================================================================
