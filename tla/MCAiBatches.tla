----------------------------- MODULE MCAiBatches -----------------------------
(***************************************************************************)
(* Two proposals, one to a page, the second one live.                      *)
(***************************************************************************)
EXTENDS AiBatches

MCProposals == 1..2
MCLive == {2}
=============================================================================
