---------------------------- MODULE EventPoller ----------------------------
(***************************************************************************)
(* One live EVM source: the EventPoller that walks eth_getLogs from its    *)
(* poll cursor to the confirmed head, the archive producer it dispatches   *)
(* to (one transaction per log: seen_log row and archive_ch job together), *)
(* the cursor row in dao_source, and the service that prunes seen_log.     *)
(***************************************************************************)
EXTENDS DaoSource

CONSTANTS
    Malformed,    \* logs decodeLogEvent rejects; the poller drops them
    MaxSpan,      \* maxBlocksPerTick
    MaxChunks,    \* MAX_CHUNKS_PER_TICK
    PruneMargin,  \* SEEN_LOG_PRUNE_MARGIN_BLOCKS
    InitCursors,  \* poll_cursor_block the source may start with
    MaxFaults     \* bound: failed calls and process stops in a behaviour

Unloaded == -2  \* lastPolled: undefined

ASSUME PollerAssumption ==
    /\ Malformed \subseteq Logs
    /\ MaxSpan \in Nat \ {0}
    /\ MaxChunks \in Nat \ {0}
    /\ PruneMargin \in Nat
    /\ InitCursors \subseteq 0..InitTip \cup {NoBlock}
    /\ MaxFaults \in Nat

VARIABLES
    seen,     \* seen_log
    sent,     \* how many archive_ch jobs each log was given
    pc,       \* the poller: down, idle, walk (between chunks), dispatch
    mem,      \* lastPolled, the in-memory mirror of the cursor
    head,     \* headBn, the confirmed head this tick read
    chunk,    \* chunks already walked in this tick
    from, to, \* the range being polled
    pending,  \* its events not yet accepted by the producer
    firstHead, \* what onFirstHeadComplete was called with
    faults,   \* faults so far
    origin    \* history: the block the cursor's coverage starts at

rangeVars == <<from, to, pending>>
tickVars == <<head, chunk, rangeVars>>
dbVars == <<cursor, seen, sent>>
pollerVars == <<chainVars, dbVars, pc, mem, tickVars, firstHead, faults, origin>>

PollerTypeOK ==
    /\ ChainTypeOK
    /\ cursor \in Blocks \cup {NoBlock}
    /\ seen \in SUBSET Logs
    /\ sent \in [Logs -> Nat]
    /\ pc \in {"down", "idle", "walk", "dispatch"}
    /\ mem \in Blocks \cup {NoBlock, Unloaded}
    /\ head \in Blocks
    /\ chunk \in Nat
    /\ from \in Nat
    /\ to \in Blocks
    /\ pending \in SUBSET Logs
    /\ firstHead \in Blocks \cup {NoBlock}
    /\ faults \in Nat
    /\ origin \in Nat

PollerInit ==
    /\ ChainInit
    /\ cursor \in InitCursors /\ seen = {} /\ sent = [l \in Logs |-> 0]
    /\ pc = "down" /\ mem = Unloaded
    /\ head = 0 /\ chunk = 0 /\ from = 0 /\ to = 0 /\ pending = {}
    /\ firstHead = NoBlock /\ faults = 0
    /\ origin = IF cursor = NoBlock THEN 0 ELSE cursor + 1

-----------------------------------------------------------------------------
(* The database. *)

\* recordIfNew: ON CONFLICT DO NOTHING; true when the row is new.
RecordIfNew(l) == l \notin seen

\* The locals of pollRange, then those of the whole tick, go out of scope.
EndRange == from' = 0 /\ to' = 0 /\ pending' = {}
EndTick(state) == pc' = state /\ head' = 0 /\ chunk' = 0 /\ EndRange

\* A call that fails, or the process going away; at most MaxFaults of them.
Fault == faults < MaxFaults /\ faults' = faults + 1

-----------------------------------------------------------------------------
(* The poller's process. *)

Start ==
    /\ pc = "down"
    /\ pc' = "idle"
    /\ UNCHANGED <<chainVars, dbVars, mem, tickVars, firstHead, faults,
                   origin>>

\* Crash, or a stop whose in-flight tick is abandoned: memory is lost, and the
\* log whose transaction was open is neither seen nor sent.
Stop ==
    /\ pc # "down" /\ Fault
    /\ EndTick("down") /\ mem' = Unloaded /\ firstHead' = NoBlock
    /\ UNCHANGED <<chainVars, dbVars, origin>>

\* Mutant: the tick reads the tip itself.
BeginTickAtTip ==
    /\ pc = "idle"
    /\ pc' = "walk" /\ head' = tip /\ chunk' = 0
    /\ UNCHANGED <<chainVars, dbVars, mem, rangeVars, firstHead, faults,
                   origin>>

\* scheduledTick: one tick at a time.  A failed head read leaves it idle.
BeginTick ==
    /\ pc = "idle"
    /\ pc' = "walk" /\ head' = ConfirmedHead /\ chunk' = 0
    /\ UNCHANGED <<chainVars, dbVars, mem, rangeVars, firstHead, faults,
                   origin>>

\* The cursor a tick walks from: read through once, then mirrored in memory.
Watermark == IF mem = Unloaded THEN cursor ELSE mem

HeadWindowFrom == IF head > 2 * HeadLag THEN head - 2 * HeadLag ELSE 0

RangeFrom == IF Watermark = NoBlock THEN HeadWindowFrom ELSE Watermark + 1

RangeTo ==
    IF Watermark # NoBlock /\ head - RangeFrom + 1 > MaxSpan
    THEN RangeFrom + MaxSpan - 1
    ELSE head

\* resolveRange returns undefined: nothing new is confirmed.
NothingToPoll ==
    /\ pc = "walk" /\ RangeFrom > head
    /\ EndTick("idle") /\ mem' = Watermark
    /\ UNCHANGED <<chainVars, dbVars, firstHead, faults, origin>>

\* eth_getLogs answers; the logs that do not decode are dropped here.
FetchRange ==
    /\ pc = "walk" /\ RangeFrom <= head
    /\ pc' = "dispatch" /\ mem' = Watermark
    /\ from' = RangeFrom /\ to' = RangeTo
    /\ pending' = LogsIn(RangeFrom, RangeTo) \ Malformed
    /\ UNCHANGED <<chainVars, dbVars, head, chunk, firstHead, faults,
                   origin>>

\* cursor.read fails, and nothing is loaded; or it was, and eth_getLogs fails.
FetchFails ==
    /\ pc = "walk" /\ Fault
    /\ EndTick("idle")
    /\ \/ mem = Unloaded /\ UNCHANGED mem
       \/ RangeFrom <= head /\ mem' = Watermark
    /\ UNCHANGED <<chainVars, dbVars, firstHead, origin>>

\* archive-producer: the next log's transaction commits, in block order.
ProduceLog ==
    /\ pc = "dispatch"
    /\ \E l \in pending :
        /\ \A m \in pending : BlockOf[l] <= BlockOf[m]
        /\ sent' = IF RecordIfNew(l) THEN [sent EXCEPT ![l] = @ + 1] ELSE sent
        /\ seen' = seen \cup {l}
        /\ pending' = pending \ {l}
    /\ UNCHANGED <<chainVars, cursor, pc, mem, head, chunk, from, to, firstHead,
                   faults, origin>>

\* Mutant: seen_log is written outside the transaction that fails.
ProduceFailsOnceSeen ==
    /\ pc = "dispatch" /\ pending # {} /\ Fault
    /\ \E l \in pending : seen' = seen \cup {l}
    /\ EndTick("idle")
    /\ UNCHANGED <<chainVars, cursor, sent, mem, firstHead, origin>>

\* ... or it fails: the listener rejects, the cursor stays, the tick is over.
ProduceFails ==
    /\ pc = "dispatch" /\ pending # {} /\ Fault
    /\ EndTick("idle")
    /\ UNCHANGED <<chainVars, dbVars, mem, firstHead, origin>>

\* What follows advanceCursor, written or not: the first-tick callback, and
\* the tick goes on unless it reached its head, its chunk limit or its deadline.
RangeAccepted ==
    /\ pc = "dispatch" /\ pending = {}
    /\ firstHead' = IF firstHead = NoBlock THEN head ELSE firstHead
    /\ \/ EndTick("idle")
       \/ /\ to < head /\ chunk + 1 < MaxChunks
          /\ pc' = "walk" /\ chunk' = chunk + 1 /\ EndRange
          /\ UNCHANGED head
    /\ UNCHANGED <<chainVars, seen, sent>>

\* A poller that knows of no cursor begins its coverage with this range.
Persist ==
    /\ WritePollCursor(to)
    /\ origin' = IF mem = NoBlock THEN from ELSE origin

AdvanceCursor ==
    /\ RangeAccepted /\ Persist
    /\ mem' = to
    /\ UNCHANGED faults

\* The write of the cursor fails, or commits and is reported failed; the mirror
\* stays where it was and the tick goes on as if it had not.
AdvanceCursorFails ==
    /\ RangeAccepted /\ Fault
    /\ Persist \/ UNCHANGED <<cursor, origin>>
    /\ UNCHANGED mem

\* SeenLogPruneService.prune, on its own timer.
PruneHorizon == ConfirmedHead - 2 * HeadLag - PruneMargin

\* Mutant: everything up to the confirmed head is pruned.
PruneToHead ==
    /\ PruneHorizon > 0
    /\ seen' = {l \in seen : BlockOf[l] > ConfirmedHead}
    /\ seen' # seen
    /\ UNCHANGED <<chainVars, cursor, sent, pc, mem, tickVars, firstHead, faults,
                   origin>>

Prune ==
    /\ PruneHorizon > 0
    /\ seen' = {l \in seen : BlockOf[l] >= PruneHorizon}
    /\ seen' # seen
    /\ UNCHANGED <<chainVars, cursor, sent, pc, mem, tickVars, firstHead, faults,
                   origin>>

Tick ==
    \/ BeginTick \/ NothingToPoll \/ FetchRange \/ ProduceLog \/ AdvanceCursor

PollerFaults == Stop \/ FetchFails \/ ProduceFails \/ AdvanceCursorFails

PollerStep == Start \/ Tick \/ PollerFaults \/ Prune

PollerNext ==
    \/ PollerStep
    \/ ChainNext /\ UNCHANGED <<dbVars, pc, mem, tickVars, firstHead, faults,
                                origin>>

PollerSpec == PollerInit /\ [][PollerNext]_pollerVars

\* The process is restarted when it dies and its timer keeps firing; a tick's
\* promises settle.  Nothing obliges the chain to grow.
PollerFairSpec == PollerSpec /\ WF_pollerVars(Start) /\ WF_pollerVars(Tick)

-----------------------------------------------------------------------------
(* Properties. *)

\* No silent hole: every log of a block the cursor has passed since coverage
\* began has been given to the archive queue, whatever failed on the way
\* (event-poller.ts: "never advance past a batch nobody accepted").  It begins
\* with the range of the first write, and anew with the next one as long as the
\* poller was told that the first had failed.
CursorCovered ==
    \A l \in Logs \ Malformed :
        Canonical(l) /\ origin <= BlockOf[l] /\ BlockOf[l] <= cursor
            => sent[l] > 0

\* Only confirmed logs are ever sent, so no reorganisation can later take back
\* one that was (ADR-0058: the archive needs no orphan handling).
SentIsFinal ==
    \A l \in Logs :
        sent[l] > 0 => Canonical(l) /\ BlockOf[l] <= ConfirmedHead

\* seen_log lets a log be sent a second time only when the poller is so far
\* behind that the prune horizon has already overtaken the log's block.
ResentOnlyBelowHorizon ==
    [][\A l \in Logs :
          sent[l] > 0 /\ sent'[l] > sent[l] => BlockOf[l] < PruneHorizon]_pollerVars

\* The durable cursor only moves forward, and the mirror in memory never runs
\* ahead of it: a crash can cost work, never blocks.
CursorIsDurable ==
    [][cursor' >= cursor /\ mem' <= cursor']_pollerVars

\* Once the chain rests and the faults are spent, the poller reaches the
\* confirmed head in chunks of MaxSpan, from however far behind.
CatchesUp == (tip = MaxTip) ~> (cursor >= ConfirmedHead)

\* To whoever reads the archive queue the poller is a LogFeed: whatever fails, is
\* restarted, sent again or pruned, each of its steps hands on one final log,
\* moves the cursor over blocks whose logs have all been handed on, or does
\* nothing that can be seen.
Feed == INSTANCE LogFeed WITH
    Marks <- InitCursors, mark <- cursor, start <- origin,
    begun <- cursor # NoBlock /\ mem # NoBlock,
    delivered <- {l \in Logs : sent[l] > 0}

IsLogFeed == Feed!FeedSpec

\* What CursorCovered and SentIsFinal need of the rest of the state: the mirror
\* is not past the cursor, and if it knows of none the cursor is not past the
\* head; the range being polled starts just past the mirror and is confirmed, and
\* each of its logs is pending or sent.
MirrorInv ==
    /\ mem <= cursor
    /\ mem = NoBlock =>
        /\ cursor <= ConfirmedHead
        /\ pc \in {"walk", "dispatch"} => cursor <= head

TickInv ==
    /\ pc \in {"walk", "dispatch"} => head <= ConfirmedHead
    /\ pc = "dispatch" =>
        /\ mem # Unloaded
        /\ IF mem = NoBlock THEN to = head ELSE from = mem + 1
        /\ from <= to /\ to <= head
        /\ pending \subseteq LogsIn(from, to)
        /\ \A l \in LogsIn(from, to) \ Malformed : l \in pending \/ sent[l] > 0

CursorInv ==
    /\ origin <= cursor => cursor <= ConfirmedHead
    /\ cursor # NoBlock => origin <= cursor + 1

PollerInv ==
    /\ PollerTypeOK /\ MirrorInv /\ TickInv /\ CursorInv
    /\ \A l \in seen : sent[l] > 0
    /\ CursorCovered /\ SentIsFinal

\* What ResentOnlyBelowHorizon needs besides: a log that was sent and is not in
\* seen_log any more is one that pruning reached.
ForgottenInv ==
    \A l \in Logs : sent[l] > 0 /\ l \notin seen => BlockOf[l] < PruneHorizon
=============================================================================
