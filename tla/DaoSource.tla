----------------------------- MODULE DaoSource -----------------------------
(***************************************************************************)
(* The row of one EVM source in dao_source, as far as its two writers      *)
(* share it: the live poller and a backfill both move poll_cursor_block.   *)
(***************************************************************************)
EXTENDS Chain

VARIABLE cursor  \* dao_source.poll_cursor_block

NoBlock == -1    \* SQL NULL, null in memory, or an option not given

\* Mutant: an UPDATE guarded by poll_cursor_block < b, which NULL never is.
WriteLargerCursor(b) ==
    cursor' = IF cursor # NoBlock /\ cursor < b THEN b ELSE cursor

\* writePollCursor: greatest(coalesce(poll_cursor_block, 0), b).
WritePollCursor(b) == cursor' = IF cursor > b THEN cursor ELSE b
=============================================================================
