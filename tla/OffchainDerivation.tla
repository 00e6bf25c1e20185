------------------------- MODULE OffchainDerivation -------------------------
(***************************************************************************)
(* What happens to the archived rows of an off-chain source: the actor     *)
(* sweep resolves them and the derivation worker projects them, each on    *)
(* its own timer beside the archive worker.  Both read payloads first and  *)
(* mark rows later, and an edit may be re-archived in between.             *)
(***************************************************************************)
EXTENDS OffchainArchive

CONSTANTS
    Threshold  \* ACTOR_SWEEP_DLQ_THRESHOLD

ASSUME DerivationAssumption == Threshold \in Nat \ {0}

VARIABLES
    batch,     \* the rows of the sweep's tick
    todo,      \* those it has not come to yet
    parked,    \* rows with an actor-resolution row in ingestion_dlq
    derive,    \* <<item, revision>>: what the deriver's batch has read
    projected  \* the revision the projection shows, 0: none

sweepVars == <<batch, todo, parked>>
deriveVars == <<derive, projected>>
vars == <<archiveVars, sweepVars, deriveVars>>

DerivationTypeOK ==
    /\ TypeOK
    /\ todo \subseteq batch /\ batch \subseteq Items /\ parked \subseteq Items
    /\ derive \subseteq Content
    /\ projected \in [Items -> Revision \cup {0}]

Init ==
    /\ ArchiveInit
    /\ batch = {} /\ todo = {} /\ parked = {}
    /\ derive = {} /\ projected = [i \in Items |-> 0]

\* What changes when only the watermarks of rows do.
MarksRows ==
    UNCHANGED <<published, pollVars, jobs, workVars, ch, dlqVars>>

-----------------------------------------------------------------------------
(* ActorSweepService. *)

Unresolved ==
    {i \in Items : /\ rows[i].ver > 0 /\ ~rows[i].resolved
                   /\ rows[i].attempts < Threshold}

SweepTick ==
    /\ todo = {} /\ Unresolved # {}
    /\ batch' = Unresolved /\ todo' = Unresolved
    /\ UNCHANGED <<archiveVars, parked, deriveVars>>

\* markActorResolved: whatever the row holds by now.
SweepRow ==
    \E i \in todo :
        /\ rows' = [rows EXCEPT ![i].resolved = TRUE]
        /\ todo' = todo \ {i}
        /\ MarksRows
        /\ UNCHANGED <<faults, batch, parked, deriveVars>>

One(condition) == IF condition THEN 1 ELSE 0

\* handleFailure for the failed rows, once more for those counted before: the
\* ones at the threshold get an ingestion_dlq row.
HandleFailure(failed, before) ==
    /\ rows' = [i \in Items |->
                  [rows[i] EXCEPT !.attempts = @ + One(i \in failed) + One(i \in before)]]
    /\ parked' = parked \cup {i \in failed : rows'[i].attempts >= Threshold}

\* The payload is missing, or the actor cannot be created.
SweepRowFails ==
    \E i \in todo :
        /\ Fault
        /\ HandleFailure({i}, {})
        /\ todo' = todo \ {i}
        /\ MarksRows
        /\ UNCHANGED <<batch, deriveVars>>

\* The payloads cannot be fetched, or the dead letter of a row cannot be
\* inserted: every row of the batch is failed, handled or not.
SweepBatchFails ==
    /\ todo # {} /\ Fault
    /\ \/ todo = batch /\ HandleFailure(batch, {})
       \/ \E i \in todo :
            /\ rows[i].attempts + 1 >= Threshold
            /\ HandleFailure(batch, {i})
    /\ todo' = {}
    /\ MarksRows
    /\ UNCHANGED <<batch, deriveVars>>

-----------------------------------------------------------------------------
(* DerivationWorkerService and the off-chain appliers. *)

\* Mutant: a row whose actors once failed to resolve is left out.
NeverFailedDerivable ==
    {i \in Items : rows[i].resolved /\ ~rows[i].derived /\ rows[i].attempts = 0}

Derivable == {i \in Items : rows[i].resolved /\ ~rows[i].derived}

\* fetchLatest: a content of the greatest version ClickHouse has.
Latest(i) ==
    {c \in ch : c.item = i /\ \A d \in ch : d.item = i => d.ver <= c.ver}

\* The tick selects its rows, and its applier reads all their payloads.
DeriveTick ==
    /\ derive = {} /\ Derivable # {}
    /\ \E read \in [Derivable -> ch] :
        /\ \A i \in Derivable : read[i] \in Latest(i)
        /\ derive' = {<<i, read[i].rev>> : i \in Derivable}
    /\ UNCHANGED <<archiveVars, sweepVars, projected>>

\* One row's transaction: the projection, and markDerived.
DeriveRow ==
    \E content \in derive :
        /\ projected' = [projected EXCEPT ![content[1]] = content[2]]
        /\ rows' = [rows EXCEPT ![content[1]].derived = TRUE]
        /\ derive' = derive \ {content}
        /\ MarksRows
        /\ UNCHANGED <<faults, sweepVars>>

\* Mutant: markDerived is not part of the transaction.
DeriveRowFailsMarked ==
    \E content \in derive :
        /\ Fault
        /\ rows' = [rows EXCEPT ![content[1]].derived = TRUE]
        /\ derive' = derive \ {content}
        /\ MarksRows
        /\ UNCHANGED <<sweepVars, projected>>

\* It is rolled back; the row stays and is read again by a later tick.
DeriveRowFails ==
    \E content \in derive :
        /\ Fault
        /\ derive' = derive \ {content}
        /\ MarksRows
        /\ UNCHANGED <<rows, sweepVars, projected>>

-----------------------------------------------------------------------------
RestartAll ==
    /\ Restart
    /\ batch' = {} /\ todo' = {} /\ derive' = {}
    /\ UNCHANGED <<parked, projected>>

Sweep == SweepTick \/ SweepRow
Derive == DeriveTick \/ DeriveRow
DerivationFaults == SweepRowFails \/ SweepBatchFails \/ DeriveRowFails

Next ==
    \/ ArchiveStep /\ UNCHANGED <<sweepVars, deriveVars>>
    \/ Sweep \/ Derive \/ DerivationFaults
    \/ RestartAll

Spec == Init /\ [][Next]_vars

\* The timers of the poller, the archive worker, the sweep and the deriver fire,
\* and pg-boss serves its queues.
FairSpec ==
    /\ Spec
    /\ WF_vars(Poll /\ UNCHANGED <<sweepVars, deriveVars>>)
    /\ WF_vars(Work /\ UNCHANGED <<sweepVars, deriveVars>>)
    /\ WF_vars(Serve /\ UNCHANGED <<sweepVars, deriveVars>>)
    /\ WF_vars(Sweep) /\ WF_vars(Derive)

-----------------------------------------------------------------------------
(* Properties. *)

\* A row marked derived shows some archived content of its own item, even when
\* an edit, a dead letter or a restart came between the read and the mark.
DerivedShowsArchive ==
    \A i \in Items :
        rows[i].derived => projected[i] # 0 /\ IsArchived(<<i, projected[i]>>)

\* Every archived row is derived in the end, and again after each edit, unless
\* its actors could not be resolved Threshold times.
RowsAreDerived ==
    \A i \in Items \ Unmapped :
        (rows[i].ver > 0) ~> (rows[i].derived \/ rows[i].attempts >= Threshold)
=============================================================================
