-------------------------- MODULE DerivationQueue --------------------------
(***************************************************************************)
(* The derivation worker's side of archive_event: which archived rows are  *)
(* derivable, the batch a tick reads and the runs it dispatches it in, the *)
(* failure counter, the hold and the projection quarantine.  A source's    *)
(* module extends it, appends to the chain's log and says what applying a  *)
(* row does.                                                               *)
(*                                                                         *)
(* The log holds what the chains emit, in the order it happens, so a row   *)
(* is named by its position.  Of one chain that is (block, log_index)      *)
(* order.  The actor sweep (OffchainDerivation) has resolved a row by the  *)
(* time it counts as archived here.                                        *)
(***************************************************************************)
EXTENDS Naturals, Sequences, FiniteSets

CONSTANTS
    ChainOf,       \* chain_id of a source, as archive_event sorts it
    MaxLog,        \* bound: how many logs the chain emits
    Batch,         \* DERIVATION_BATCH_SIZE
    DlqThreshold,  \* attempts at which a failing row is dead-lettered
    MaxFaults      \* bound: failed calls and restarts

ASSUME QueueAssumption ==
    /\ \A src \in DOMAIN ChainOf : ChainOf[src] \in Nat
    /\ MaxLog \in Nat /\ MaxFaults \in Nat
    /\ Batch \in Nat \ {0} /\ DlqThreshold \in Nat \ {0}

VARIABLES
    log,          \* what the chain has emitted
    received,     \* received_at of each row on a coarse clock, 0: not archived
    derived,      \* rows with derived_at set
    attempts,     \* derivation_attempt_count of each row
    held,         \* rows whose derivation_hold_until is in the future
    quarantined,  \* rows with a projection-stage entry in ingestion_dlq
    batch,        \* the rows the tick in flight has read and not yet applied
    faults

rowVars == <<derived, attempts, held, quarantined, batch>>
queueVars == <<log, received, rowVars, faults>>

Positions == 1..MaxLog

\* The log keeps its type in the source's module, which knows its events.
QueueTypeOK ==
    /\ Len(log) <= MaxLog
    /\ received \in [Positions -> Nat]
    /\ derived \subseteq Positions
    /\ attempts \in [Positions -> 0..DlqThreshold]
    /\ held \subseteq Positions /\ quarantined \subseteq Positions
    /\ batch \subseteq Positions
    /\ faults \in 0..MaxFaults

QueueInit ==
    /\ log = <<>>
    /\ received = [i \in Positions |-> 0]
    /\ derived = {} /\ held = {} /\ quarantined = {}
    /\ attempts = [i \in Positions |-> 0]
    /\ batch = {} /\ faults = 0

Archived == {i \in Positions : received[i] > 0}

-----------------------------------------------------------------------------
(* The chain and the archive. *)

Emit(events) ==
    /\ Len(log) + Len(events) <= MaxLog
    /\ log' = log \o events

\* The rows of a source are archived in the order of its logs, and no row
\* earlier than the rows archived before it.
Archive(i, time) ==
    /\ i <= Len(log) /\ received[i] = 0
    /\ \A j \in 1..(i - 1) : log[j].src = log[i].src => received[j] > 0
    /\ \A j \in Archived : received[j] <= time
    /\ received' = [received EXCEPT ![i] = time]

-----------------------------------------------------------------------------
(* The worker's tick. *)

\* findDerivableBy
Derivable == Archived \ (derived \cup held \cup quarantined)

\* ORDER BY chain_id, block_number, log_index
Precedes(i, j) ==
    IF i < j THEN ChainOf[log[i].src] <= ChainOf[log[j].src]
    ELSE ChainOf[log[i].src] < ChainOf[log[j].src]

\* LIMIT DERIVATION_BATCH_SIZE
BeginTick ==
    /\ batch = {} /\ Derivable # {}
    /\ batch' = {i \in Derivable :
                    Cardinality({j \in Derivable : Precedes(j, i)}) < Batch}

\* The rows of a tick are applied in the order they were read in.
First == CHOOSE i \in batch : \A j \in batch : ~Precedes(j, i)

\* splitIntoDispatchRuns: consecutive rows of one source and event type.
Run ==
    {i \in batch : \A j \in batch : ~Precedes(i, j) =>
        log[j].src = log[First].src /\ log[j].typ = log[First].typ}

\* applyBatch throws before it reaches a row (the payload lookup fails): the
\* rows of the run stay as they are and the next run is dispatched.
SkipRun == batch' = batch \ Run

Fault == faults < MaxFaults /\ faults' = faults + 1

\* ArchiveFailureRouter.route
CountFailure(i) ==
    /\ attempts' = [attempts EXCEPT ![i] = IF @ < DlqThreshold THEN @ + 1 ELSE @]
    /\ quarantined' =
          IF attempts[i] + 1 >= DlqThreshold THEN quarantined \cup {i} ELSE quarantined
=============================================================================
