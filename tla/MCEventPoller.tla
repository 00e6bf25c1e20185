--------------------------- MODULE MCEventPoller ---------------------------
(***************************************************************************)
(* A source with two logs in one block, a log on either fork of a block    *)
(* that may be reorganised, and a log that does not decode.                *)
(***************************************************************************)
EXTENDS EventPoller, TLC

CONSTANTS l1, l2, l3, l4, l5, bad

MCLogs == {l1, l2, l3, l4, l5, bad}
MCBlockOf == l1 :> 1 @@ l2 :> 2 @@ l3 :> 2 @@ l4 :> 4 @@ l5 :> 4 @@ bad :> 3
MCForkOf == l1 :> 0 @@ l2 :> 0 @@ l3 :> 0 @@ l4 :> 0 @@ l5 :> 1 @@ bad :> 0
MCMalformed == {bad}

\* A new source, and one whose cursor is at genesis.
MCInitCursors == {NoBlock, 0}
=============================================================================
