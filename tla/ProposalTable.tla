--------------------------- MODULE ProposalTable ---------------------------
(***************************************************************************)
(* The unified proposal table and the three ways its state is written:     *)
(* advanceState (guarded, for lifecycle events), reconcileState (guarded   *)
(* by the reconciler's expected states) and setStateFromDerivation (not    *)
(* guarded, for Dual Governance).  All of them are single statements.      *)
(***************************************************************************)
EXTENDS Naturals

CONSTANT Proposals  \* the (source_type, source_id) keys a row may have

VARIABLE state      \* proposal.state, "none" before the row exists

States == {"pending", "active", "succeeded", "defeated", "queued",
           "executed", "canceled", "expired", "vetoed"}

StateTypeOK == state \in [Proposals -> States \cup {"none"}]

StateInit == state = [p \in Proposals |-> "none"]

Exists(p) == state[p] # "none"

\* insertProposal: ON CONFLICT DO NOTHING.
InsertProposal(p, s) ==
    state' = IF Exists(p) THEN state ELSE [state EXCEPT ![p] = s]

Terminal == {"executed", "canceled", "defeated"}

\* Mutant: what is queued can be opened again.
AllowedFromReopens(target) ==
    CASE target = "active" -> {"pending", "queued"}
      [] target \in {"queued", "defeated"} -> {"pending", "active"}
      [] target \in {"executed", "canceled"} -> {"pending", "queued", "active"}

\* allowedFromByTarget
AllowedFrom(target) ==
    CASE target = "active" -> {"pending"}
      [] target \in {"queued", "defeated"} -> {"pending", "active"}
      [] target \in {"executed", "canceled"} -> {"pending", "queued", "active"}

Advances(p, target) == state[p] \in AllowedFrom(target) \ Terminal

\* No row in an allowed state is no error: nothing is updated.
AdvanceState(p, target) ==
    state' = IF Advances(p, target) THEN [state EXCEPT ![p] = target] ELSE state

\* setStateFromDerivation
SetState(p, s) == state' = [state EXCEPT ![p] = s]

\* reconcileState
ReconcileState(p, expected, target) ==
    state' = IF state[p] \in expected THEN [state EXCEPT ![p] = target] ELSE state
=============================================================================
