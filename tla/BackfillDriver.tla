--------------------------- MODULE BackfillDriver ---------------------------
(***************************************************************************)
(* The history of one EVM source: the BackfillDriver that boot catch-up    *)
(* and `admin-cli backfill` run over a block range, its two checkpoints in *)
(* dao_source and the cursor it shares with the live poller, and the       *)
(* archive writer it hands every log of a chunk to.                        *)
(*                                                                         *)
(* One run at a time: docs/runbooks/gap-fill.md forbids overlapping ones,  *)
(* and there is no lock.                                                   *)
(***************************************************************************)
EXTENDS DaoSource

CONSTANTS
    Scope,        \* logs that decode as a log and pass the listener's filter
    Undecodable,  \* those of Scope whose payload the source cannot decode
    ActiveFrom,   \* dao_source.active_from_block
    FromBlocks,   \* values the operator gives to --from-block
    ToBlocks,     \* values the operator gives to --to-block
    ChunkSize,    \* the largest chunk; "too many results" shrinks it
    MaxFailures   \* bound: failed calls, cancellations and crashes

ASSUME BackfillAssumption ==
    /\ Scope \subseteq Logs
    /\ Undecodable \subseteq Scope
    /\ ActiveFrom \in Blocks
    /\ FromBlocks \subseteq Blocks \cup {NoBlock}
    /\ ToBlocks \subseteq Blocks \cup {NoBlock}
    /\ ChunkSize \in Nat \ {0}
    /\ MaxFailures \in Nat

VARIABLES
    started,    \* dao_source.backfill_started_at_block
    floor,      \* dao_source.backfill_head_block
    archived,   \* logs with their archive_event row
    dlq,        \* logs with an ingestion_dlq row
    run,        \* none, scan, land, checkpoint, advance: where the run is
    mode,       \* fresh, resume or catch-up
    at, upto,   \* the next block to scan, and the last
    chunkEnd,   \* the last block of the chunk in hand
    batch,      \* its logs not yet handled
    failures,   \* failures so far
    lost,       \* history: logs whose write and dead letter both failed
    unsettled   \* history: blocks last scanned above the confirmed head

checkpointVars == <<started, floor>>
archiveVars == <<archived, dlq, lost>>
runVars == <<run, mode, at, upto, chunkEnd, batch>>
driverVars == <<checkpointVars, archiveVars, runVars, failures, unsettled>>
sourceVars == <<chainVars, cursor, driverVars>>

DriverTypeOK ==
    /\ ChainTypeOK
    /\ {cursor, started, floor} \subseteq Blocks \cup {NoBlock}
    /\ archived \subseteq Scope /\ dlq \subseteq Scope /\ lost \subseteq Scope
    /\ run \in {"none", "scan", "land", "checkpoint", "advance"}
    /\ mode \in {"fresh", "resume", "catch-up"}
    /\ at \in 0..(MaxTip + 1) /\ upto \in Blocks /\ chunkEnd \in Blocks
    /\ batch \subseteq Scope
    /\ failures \in 0..MaxFailures
    /\ unsettled \subseteq Blocks

DriverInit ==
    /\ ChainInit
    /\ cursor = NoBlock /\ started = NoBlock /\ floor = NoBlock
    /\ archived = {} /\ dlq = {} /\ lost = {}
    /\ run = "none" /\ mode = "fresh"
    /\ at = 0 /\ upto = 0 /\ chunkEnd = 0 /\ batch = {}
    /\ failures = 0 /\ unsettled = {}

-----------------------------------------------------------------------------
Failure == failures < MaxFailures /\ failures' = failures + 1

\* The run's locals go out of scope.
EndRun ==
    /\ run' = "none" /\ mode' = "fresh"
    /\ at' = 0 /\ upto' = 0 /\ chunkEnd' = 0 /\ batch' = {}

Begin(m, first, last) ==
    /\ run = "none"
    /\ run' = "scan" /\ mode' = m /\ at' = first /\ upto' = last
    /\ UNCHANGED <<chainVars, cursor, archiveVars, chunkEnd, batch, failures,
                   unsettled>>

Or(option, default) == IF option = NoBlock THEN default ELSE option

\* validateFromBlockGate, without --confirm-replay.
FromBlockGate(from) == from >= ActiveFrom /\ from > floor

\* backfill start and backfill run, when no backfill is recorded: the head is
\* captured, and is the default end.
BeginFresh ==
    \E from \in FromBlocks, to \in ToBlocks :
        /\ from # NoBlock => FromBlockGate(from)
        /\ started = NoBlock
        /\ started' = tip /\ floor' = NoBlock
        /\ Begin("fresh", Or(from, ActiveFrom), Or(to, tip))

\* The same commands without --from-block, when one is: the captured head is
\* rehydrated.
BeginResume ==
    \E to \in ToBlocks :
        /\ started # NoBlock
        /\ UNCHANGED checkpointVars
        /\ Begin("resume", IF floor # NoBlock THEN floor + 1 ELSE ActiveFrom,
                 Or(to, started))

\* Mutant: without a floor the gap is taken to start at the cursor the poller
\* shares.
GapStartAtCursor == IF cursor # NoBlock THEN cursor + 1 ELSE ActiveFrom

\* computeGap: what lies between the contiguous floor and the target.
GapStart == IF floor # NoBlock THEN floor + 1 ELSE ActiveFrom

\* Mutant: catch-up runs to the tip.
BeginCatchUpToTip(target) ==
    /\ GapStart <= target
    /\ started' = IF started = NoBlock THEN GapStart ELSE started
    /\ UNCHANGED floor
    /\ Begin("catch-up", GapStart, tip)

\* runBootCatchUp: the gap, if there is one, under mode catch-up.
BeginCatchUp(target) ==
    /\ GapStart <= target
    /\ started' = IF started = NoBlock THEN GapStart ELSE started
    /\ UNCHANGED floor
    /\ Begin("catch-up", GapStart, target)

\* eth_getLogs answers for the next chunk.
FetchChunk ==
    /\ run = "scan" /\ at <= upto
    /\ \E end \in at..upto :
        /\ end - at < ChunkSize
        /\ chunkEnd' = end
        /\ batch' = LogsIn(at, end) \cap Scope
        /\ unsettled' = {b \in unsettled : ~(at <= b /\ b <= end)}
                            \cup {b \in at..end : b > ConfirmedHead}
    /\ run' = "land"
    /\ UNCHANGED <<chainVars, cursor, checkpointVars, archiveVars, mode, at, upto,
                   failures>>

NextOfBatch(l) ==
    /\ run = "land" /\ l \in batch
    /\ \A m \in batch : BlockOf[l] <= BlockOf[m]
    /\ batch' = batch \ {l}
    /\ UNCHANGED <<chainVars, cursor, checkpointVars, run, mode, at, upto, chunkEnd,
                   unsettled>>

\* BaseArchiveWriter.write: a row that exists is skipped, else it is inserted.
ArchiveLog ==
    \E l \in batch \ Undecodable :
        /\ NextOfBatch(l)
        /\ archived' = archived \cup {l}
        /\ UNCHANGED <<dlq, lost, failures>>

\* The payload does not decode, or the write failed: to the dead letters.
DeadLetter ==
    \E l \in batch \ archived :
        /\ NextOfBatch(l)
        /\ dlq' = dlq \cup {l}
        /\ IF l \in Undecodable THEN UNCHANGED failures ELSE Failure
        /\ UNCHANGED <<archived, lost>>

\* ... and that insert failed too: logged, and the run goes on.
DropLog ==
    \E l \in batch \ archived :
        /\ NextOfBatch(l)
        /\ Failure
        /\ lost' = lost \cup {l}
        /\ UNCHANGED <<archived, dlq>>

\* Mutant: the checkpoint of a chunk is the end of the run.
CheckpointWholeRun ==
    /\ run = "land" /\ batch = {}
    /\ run' = "checkpoint" /\ floor' = upto
    /\ UNCHANGED <<chainVars, cursor, started, archiveVars, mode, at, upto, chunkEnd,
                   batch, failures, unsettled>>

\* onChunkComplete: the run's checkpoint first ...
Checkpoint ==
    /\ run = "land" /\ batch = {}
    /\ run' = "checkpoint" /\ floor' = chunkEnd
    /\ UNCHANGED <<chainVars, cursor, started, archiveVars, mode, at, upto, chunkEnd,
                   batch, failures, unsettled>>

\* ... then the poller's cursor, which never moves backwards.
AdvancePollCursor ==
    /\ run = "checkpoint"
    /\ run' = "scan" /\ at' = chunkEnd + 1 /\ chunkEnd' = 0
    /\ WritePollCursor(chunkEnd)
    /\ UNCHANGED <<chainVars, checkpointVars, archiveVars, mode, upto, batch, failures,
                   unsettled>>

\* Mutant: the run is over one chunk early.
CompleteEarly ==
    /\ run = "scan" /\ at >= upto
    /\ EndRun
    /\ IF mode = "catch-up"
       THEN UNCHANGED checkpointVars
       ELSE started' = NoBlock /\ floor' = NoBlock
    /\ UNCHANGED <<chainVars, cursor, archiveVars, failures, unsettled>>

\* The whole range is scanned.  runSourceBackfill clears the checkpoints;
\* catch-up leaves them.
Complete ==
    /\ run = "scan" /\ at > upto
    /\ EndRun
    /\ IF mode = "catch-up"
       THEN UNCHANGED checkpointVars
       ELSE started' = NoBlock /\ floor' = NoBlock
    /\ UNCHANGED <<chainVars, cursor, archiveVars, failures, unsettled>>

\* An RPC call, the look-up of a row or a checkpoint fails, the operator
\* cancels, or the process dies; the checkpoints stay as they are.
Abandon ==
    /\ run # "none" /\ Failure
    /\ EndRun
    /\ UNCHANGED <<chainVars, cursor, checkpointVars, archiveVars, unsettled>>

Land == ArchiveLog \/ DeadLetter \/ DropLog

Work == FetchChunk \/ Land \/ Checkpoint \/ AdvancePollCursor \/ Complete

BeginByOperator == BeginFresh \/ BeginResume

DriverStep == BeginByOperator \/ BeginCatchUp(ConfirmedHead) \/ Work \/ Abandon

DriverNext == DriverStep \/ (ChainNext /\ UNCHANGED <<cursor, driverVars>>)

DriverSpec == DriverInit /\ [][DriverNext]_sourceVars

\* A run goes on until it ends, and the indexer is booted again whenever there
\* is a gap and no run.
DriverFairSpec ==
    DriverSpec /\ WF_sourceVars(Work) /\ WF_sourceVars(BeginCatchUp(ConfirmedHead))

-----------------------------------------------------------------------------
(* Properties. *)

Handled(l) == l \in archived \cup dlq \cup lost

\* The floor is contiguous (ADR-051 section 1): below it no log is missing that
\* was final when its block was last scanned, however often runs were cancelled,
\* resumed or restarted.
FloorContiguous ==
    \A l \in Scope :
        /\ Canonical(l)
        /\ ActiveFrom <= BlockOf[l] /\ BlockOf[l] <= floor
        /\ BlockOf[l] \notin unsettled
        => Handled(l)

\* A run that reports completion has left nothing behind it in its own range.
CompletedMeansScanned ==
    [][Complete => \A l \in Scope :
           /\ Canonical(l)
           /\ ActiveFrom <= BlockOf[l] /\ BlockOf[l] <= upto
           /\ BlockOf[l] \notin unsettled
           => Handled(l)]_sourceVars

\* Catch-up runs end at a head that was confirmed when they began: whatever
\* they archive is final, although the chain was reorganised since.
CatchUpArchivesFinal ==
    [][mode = "catch-up" =>
          \A l \in archived' \ archived :
              Canonical(l) /\ BlockOf[l] <= ConfirmedHead]_sourceVars

\* Once the operator keeps away and the failures are spent, boot after boot of
\* catch-up handles every final log of the source, but those of a block some
\* run scanned before it was confirmed.
HistoryCompletes ==
    <>[](mode = "catch-up" \/ run = "none") =>
        \A l \in Scope :
            (/\ Canonical(l) /\ BlockOf[l] \in ActiveFrom..ConfirmedHead
             /\ tip = MaxTip)
            ~> (Handled(l) \/ BlockOf[l] \in unsettled)
=============================================================================
