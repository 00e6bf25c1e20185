------------------------ MODULE MCOffchainDerivation ------------------------
(***************************************************************************)
(* Two off-chain items: one that is edited in place, and one whose archive *)
(* writer is missing.                                                      *)
(***************************************************************************)
EXTENDS OffchainDerivation

CONSTANTS edited, unmapped

MCItems == {edited, unmapped}
MCUnmapped == {unmapped}
MCEdits == edited :> 2 @@ unmapped :> 1
=============================================================================
