--------------------------- MODULE MCLogIngestion ---------------------------
(***************************************************************************)
(* A new source whose first live window may start at its first block or    *)
(* past it: logs in that window, in the next one, which a failed write of  *)
(* the cursor may skip, and past the first head.                           *)
(***************************************************************************)
EXTENDS LogIngestion

CONSTANTS l1, l2, l3

MCLogs == {l1, l2, l3}
MCBlockOf == l1 :> 0 @@ l2 :> 2 @@ l3 :> 4
MCInitCursors == {NoBlock}
MCForkOf == [l \in MCLogs |-> 0]
=============================================================================
