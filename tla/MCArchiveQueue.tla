--------------------------- MODULE MCArchiveQueue ---------------------------
(***************************************************************************)
(* Two logs: one that no decoder accepts, and one whose source an operator *)
(* adds while the indexer runs.                                            *)
(***************************************************************************)
EXTENDS ArchiveQueue

CONSTANTS garbled, late

MCLogs == {garbled, late}
MCUndecodable == {garbled}
MCMapped == {garbled}
=============================================================================
