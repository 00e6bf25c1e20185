-------------------------- MODULE MCBackfillDriver --------------------------
(***************************************************************************)
(* A source active from block 1: a log in its first block, two in one      *)
(* later block of which one cannot be decoded, one out of scope, and one   *)
(* on either fork of a block that may be reorganised.                      *)
(***************************************************************************)
EXTENDS BackfillDriver, TLC

CONSTANTS l1, l2, l3, l4, undecodable, unscoped

MCLogs == {l1, l2, l3, l4, undecodable, unscoped}
MCBlockOf ==
    l1 :> 1 @@ l2 :> 2 @@ undecodable :> 2 @@ unscoped :> 2 @@ l3 :> 3 @@ l4 :> 3
MCForkOf ==
    l1 :> 0 @@ l2 :> 0 @@ undecodable :> 0 @@ unscoped :> 0 @@ l3 :> 0 @@ l4 :> 1
MCScope == MCLogs \ {unscoped}
MCUndecodable == {undecodable}

\* The operator gives no start, one the gate refuses, or active_from_block; and
\* no end, one that is confirmed, or one that may not be.
StartGiven == {NoBlock, 0, 1}
EndGiven == {NoBlock, 2, 4}
=============================================================================
