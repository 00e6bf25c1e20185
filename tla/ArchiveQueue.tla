---------------------------- MODULE ArchiveQueue ----------------------------
(***************************************************************************)
(* From the archive_log queue to archive_event, and what becomes of the    *)
(* logs that do not get there (ADR-0032, ADR-0063).  The consumer resolves *)
(* a job's address to a source and archives it, ClickHouse first; pg-boss  *)
(* retries and dead-letters; a backfill archives the same coordinates from *)
(* a process of its own; an operator retries or accepts dead letters.      *)
(***************************************************************************)
EXTENDS Naturals, FiniteSets, TLC

CONSTANTS
    Logs,
    Undecodable,  \* the logs no decoder of their source accepts
    Mapped,       \* those whose address belongs to a dao_source from the start
    RetryLimit,   \* retryLimit of ARCHIVE_LOG_QUEUE
    MaxOps,       \* bound: commands of the operator
    MaxFaults     \* bound: failed calls and restarts

ASSUME ArchiveQueueAssumption ==
    /\ Undecodable \subseteq Logs /\ Mapped \subseteq Logs
    /\ RetryLimit \in Nat /\ MaxOps \in Nat /\ MaxFaults \in Nat

VARIABLES
    sent,       \* logs the producer has sent
    scanned,    \* logs a backfill has come to
    jobs,       \* ARCHIVE_LOG_QUEUE
    worker,     \* the consumer: its job, and where it is
    sources,    \* logs whose address belongs to a dao_source
    map,        \* the resolver's copy of it
    dead,       \* ARCHIVE_LOG_DLQ_QUEUE
    ch, rows,   \* copies in ClickHouse; archive_event
    writer,     \* BaseArchiveWriter.write in another process, and for whom
    dlq,        \* ingestion_dlq
    retry,      \* the dead letter `dlq retry` is at, and where
    accepted,   \* logs with a dead letter that was accepted
    lost,       \* logs whose last failure could not be recorded
    absorbed,   \* history: logs that failed again during their own retry
    ops, faults

consumeVars == <<jobs, worker, map, dead>>
archiveVars == <<ch, rows>>
dlqVars == <<dlq, accepted, lost, absorbed>>
inputVars == <<sent, scanned, sources>>
vars == <<inputVars, consumeVars, archiveVars, writer, retry, dlqVars, ops, faults>>

Stages == {"archive_log", "archive_unmapped", "archive_decode", "archive_event_stage"}

\* Jobs of one log are told apart by a number.
Job == [log : Logs, id : Nat, tries : 0..RetryLimit, state : {"ready", "active", "orphan"}]
\* id 0: the row carries its source type, so one more failure of the log in
\* this stage updates it.
Letter == [log : Logs, stage : Stages, id : Nat, from : {"queue", "writer"}]

Idle == [pc |-> "idle"]
Work == [pc : {"resolve", "rebuild", "unmapped", "consume", "row", "ack"},
         job : Job, known : BOOLEAN]
Writing == [pc : {"find", "clickhouse", "row", "failed"}, log : Logs,
            who : {"backfill", "retry"}]
Retrying == [pc : {"adapter", "written", "mark"}, letter : Letter]

TypeOK ==
    /\ sent \subseteq Logs /\ scanned \subseteq Logs /\ sources \subseteq Logs
    /\ map \subseteq sources
    /\ jobs \subseteq Job /\ dead \subseteq Job
    /\ worker \in {Idle} \cup Work
    /\ worker # Idle => worker.job \in jobs /\ worker.job.state = "active"
    /\ ch \in [Logs -> Nat] /\ rows \subseteq Logs
    /\ writer \in {Idle} \cup Writing
    /\ dlq \subseteq Letter
    /\ retry \in {Idle} \cup Retrying
    /\ accepted \subseteq Logs /\ lost \subseteq Logs /\ absorbed \subseteq Logs
    /\ ops \in 0..MaxOps /\ faults \in 0..MaxFaults

Init ==
    /\ sent = {} /\ scanned = {} /\ sources = Mapped /\ map = Mapped
    /\ jobs = {} /\ dead = {} /\ worker = Idle
    /\ ch = [l \in Logs |-> 0] /\ rows = {}
    /\ writer = Idle /\ retry = Idle
    /\ dlq = {} /\ accepted = {} /\ lost = {} /\ absorbed = {}
    /\ ops = 0 /\ faults = 0

Fault == faults < MaxFaults /\ faults' = faults + 1

FreshId(set) == CHOOSE n \in 1..(Cardinality(set) + 1) : \A x \in set : x.id # n

NewJob(l) == [log |-> l, id |-> FreshId(jobs), tries |-> 0, state |-> "ready"]

-----------------------------------------------------------------------------
(* What comes in. *)

\* makeArchiveProducer sends a log once (EventPoller says when it does not).
Produce ==
    \E l \in Logs \ sent :
        /\ sent' = sent \cup {l}
        /\ jobs' = jobs \cup {NewJob(l)}
        /\ UNCHANGED <<scanned, sources, worker, map, dead, archiveVars, writer, retry,
                       dlqVars, ops, faults>>

\* `dao source add`: the process that runs does not hear of it.
AddSource ==
    \E l \in Logs \ sources :
        /\ sources' = sources \cup {l}
        /\ UNCHANGED <<sent, scanned, consumeVars, archiveVars, writer, retry, dlqVars,
                       ops, faults>>

-----------------------------------------------------------------------------
(* ingestion_dlq. *)

Collides(x, y) == x.log = y.log /\ x.stage = y.stage /\ x.id = y.id

\* DlqRepository.insert, with the archive coordinate and source type.
Upsert(l, stage, from) ==
    LET row == [log |-> l, stage |-> stage, id |-> 0, from |-> from]
    IN /\ dlq' = {x \in dlq : ~Collides(x, row)} \cup {row}
       /\ absorbed' = IF retry # Idle /\ Collides(retry.letter, row)
                      THEN absorbed \cup {l} ELSE absorbed

\* ... and without one: a row of its own.
AppendLetter(l, stage) ==
    /\ dlq' = dlq \cup {[log |-> l, stage |-> stage, id |-> FreshId(dlq), from |-> "queue"]}
    /\ UNCHANGED absorbed

-----------------------------------------------------------------------------
(* pg-boss. *)

\* Mutant: the queue has no dead letters.
NoDeadLetter(job) ==
    /\ jobs' = (jobs \ {job}) \cup
          (IF job.tries < RetryLimit
           THEN {[job EXCEPT !.tries = @ + 1, !.state = "ready"]} ELSE {})
    /\ UNCHANGED dead

\* A failed or expired job is tried again after a while, or dead-lettered.
GiveBack(job) ==
    IF job.tries < RetryLimit
    THEN /\ jobs' = (jobs \ {job}) \cup {[job EXCEPT !.tries = @ + 1, !.state = "ready"]}
         /\ UNCHANGED dead
    ELSE jobs' = jobs \ {job} /\ dead' = dead \cup {job}

Expire ==
    \E job \in jobs :
        /\ job.state = "orphan"
        /\ GiveBack(job)
        /\ UNCHANGED <<inputVars, worker, map, archiveVars, writer, retry, dlqVars, ops, faults>>

\* ArchiveLogDlqBridge; a redelivery inserts once more.
Bridge ==
    \E job \in dead :
        /\ AppendLetter(job.log, "archive_log")
        /\ \/ dead' = dead \ {job} /\ UNCHANGED faults
           \/ Fault /\ UNCHANGED dead
        /\ UNCHANGED <<inputVars, jobs, worker, map, archiveVars, writer, retry, accepted,
                       lost, ops>>

\* Every delivery fails, and this queue has no dead letters of its own.  There
\* are no more of these than jobs: they need no bound.
BridgeGivesUp ==
    \E job \in dead :
        /\ dead' = dead \ {job} /\ lost' = lost \cup {job.log}
        /\ UNCHANGED <<inputVars, jobs, worker, map, archiveVars, writer, retry, dlq,
                       accepted, absorbed, ops, faults>>

-----------------------------------------------------------------------------
(* ArchiveLogConsumer. *)

Step(pc) == worker' = [worker EXCEPT !.pc = pc]
Current == worker.job.log

Take ==
    /\ worker = Idle
    /\ \E job \in jobs :
          /\ job.state = "ready"
          /\ jobs' = (jobs \ {job}) \cup {[job EXCEPT !.state = "active"]}
          /\ worker' = [pc |-> "resolve", job |-> [job EXCEPT !.state = "active"],
                        known |-> job.log \in sources]
    /\ UNCHANGED <<inputVars, map, dead, archiveVars, writer, retry, dlqVars, ops, faults>>

Miss == Step("rebuild")

Resolve ==
    /\ worker.pc = "resolve"
    /\ IF Current \in map THEN Step("consume") ELSE Miss
    /\ UNCHANGED <<inputVars, jobs, map, dead, archiveVars, writer, retry, dlqVars, ops, faults>>

\* SourceResolver.rebuild, and the second look.
Rebuild ==
    /\ worker.pc = "rebuild"
    /\ map' = sources
    /\ Step(IF Current \in sources THEN "consume" ELSE "unmapped")
    /\ UNCHANGED <<inputVars, jobs, dead, archiveVars, writer, retry, dlqVars, ops, faults>>

\* Mutant: an unmapped log waits in the queue for its source.
WaitForSource ==
    /\ worker.pc = "unmapped"
    /\ jobs' = (jobs \ {worker.job}) \cup {[worker.job EXCEPT !.state = "ready"]}
    /\ worker' = Idle
    /\ UNCHANGED <<inputVars, map, dead, archiveVars, writer, retry, dlqVars, ops, faults>>

RejectUnmapped ==
    /\ worker.pc = "unmapped"
    /\ AppendLetter(Current, "archive_unmapped") /\ Step("ack")
    /\ UNCHANGED <<inputVars, jobs, map, dead, archiveVars, writer, retry, accepted, lost,
                   ops, faults>>

RejectUndecodable ==
    /\ worker.pc = "consume" /\ Current \in Undecodable
    /\ Upsert(Current, "archive_decode", "queue") /\ Step("ack")
    /\ UNCHANGED <<inputVars, jobs, map, dead, archiveVars, writer, retry, accepted, lost,
                   ops, faults>>

\* Mutant: a failed insert into ClickHouse is swallowed.
InsertSwallows(l) == ch' \in {ch, [ch EXCEPT ![l] = 1]}

\* insertEvent appends; whether there is a second copy is all that is kept.
Insert(l) == ch' = [ch EXCEPT ![l] = IF @ = 0 THEN 1 ELSE 2]

\* writeCore: ClickHouse first, then the row, ON CONFLICT DO NOTHING.
WriteClickHouse ==
    /\ worker.pc = "consume" /\ Current \notin Undecodable
    /\ Insert(Current) /\ Step("row")
    /\ UNCHANGED <<inputVars, jobs, map, dead, rows, writer, retry, dlqVars, ops, faults>>

WriteRow ==
    /\ worker.pc = "row"
    /\ rows' = rows \cup {Current} /\ Step("ack")
    /\ UNCHANGED <<inputVars, jobs, map, dead, ch, writer, retry, dlqVars, ops, faults>>

Ack ==
    /\ worker.pc = "ack"
    /\ jobs' = jobs \ {worker.job} /\ worker' = Idle
    /\ UNCHANGED <<inputVars, map, dead, archiveVars, writer, retry, dlqVars, ops, faults>>

\* A call of the handler throws, or the completion of its job does.
HandlerFails ==
    /\ worker # Idle /\ Fault
    /\ GiveBack(worker.job) /\ worker' = Idle
    /\ UNCHANGED <<inputVars, map, archiveVars, writer, retry, dlqVars, ops>>

\* The indexer is booted again: the resolver reads the sources, and the job in
\* flight stays active until it expires.
Restart ==
    /\ Fault
    /\ map' = sources /\ worker' = Idle
    /\ jobs' = {IF job.state = "active" THEN [job EXCEPT !.state = "orphan"] ELSE job :
                  job \in jobs}
    /\ UNCHANGED <<inputVars, dead, archiveVars, writer, retry, dlqVars, ops>>

-----------------------------------------------------------------------------
(* The backfill listener, which `dlq retry` runs too. *)

Write(l, who) == writer' = [pc |-> "find", log |-> l, who |-> who]
WriterAt(pc) == writer.pc = pc
WriterTo(pc) == writer' = [writer EXCEPT !.pc = pc]

Scan ==
    /\ writer = Idle
    /\ \E l \in sources \ scanned :
          Write(l, "backfill") /\ scanned' = scanned \cup {l}
    /\ UNCHANGED <<sent, sources, consumeVars, archiveVars, retry, dlqVars, ops, faults>>

\* The listener returns to its caller, whatever became of the log.
Return ==
    /\ writer' = Idle
    /\ retry' = IF writer.who = "retry" /\ retry # Idle
                THEN [retry EXCEPT !.pc = "mark"] ELSE retry

Find ==
    /\ WriterAt("find")
    /\ IF writer.log \in Undecodable THEN WriterTo("failed") /\ UNCHANGED retry
       ELSE IF writer.log \in rows THEN Return
       ELSE WriterTo("clickhouse") /\ UNCHANGED retry
    /\ UNCHANGED <<inputVars, consumeVars, archiveVars, dlqVars, ops, faults>>

WriterInsert ==
    /\ WriterAt("clickhouse")
    /\ Insert(writer.log) /\ WriterTo("row")
    /\ UNCHANGED <<inputVars, consumeVars, rows, retry, dlqVars, ops, faults>>

WriterRow ==
    /\ WriterAt("row")
    /\ rows' = rows \cup {writer.log} /\ Return
    /\ UNCHANGED <<inputVars, consumeVars, ch, dlqVars, ops, faults>>

WriterFails ==
    /\ WriterAt("clickhouse") \/ WriterAt("row")
    /\ Fault /\ WriterTo("failed")
    /\ UNCHANGED <<inputVars, consumeVars, archiveVars, retry, dlqVars, ops>>

\* routeToDlq and routeDecodeErrorToDlq; neither throws when it fails itself.
RouteToDlq ==
    /\ WriterAt("failed")
    /\ \/ /\ Upsert(writer.log, IF writer.log \in Undecodable THEN "archive_decode"
                                ELSE "archive_event_stage", "writer")
          /\ UNCHANGED <<lost, faults>>
       \/ /\ Fault /\ lost' = lost \cup {writer.log}
          /\ UNCHANGED <<dlq, absorbed>>
    /\ Return
    /\ UNCHANGED <<inputVars, consumeVars, archiveVars, accepted, ops>>

-----------------------------------------------------------------------------
(* The operator. *)

Command == ops < MaxOps /\ ops' = ops + 1

BeginRetry ==
    /\ retry = Idle /\ Command
    /\ \E row \in dlq : retry' = [pc |-> "adapter", letter |-> row]
    /\ UNCHANGED <<inputVars, consumeVars, archiveVars, writer, dlqVars, faults>>

\* PgBossReEnqueueAdapter: a row the writer left has no address to send, and
\* the command fails.
ReEnqueue ==
    /\ retry.pc = "adapter" /\ retry.letter.stage # "archive_event_stage"
    /\ IF retry.letter.from = "queue"
       THEN jobs' = jobs \cup {NewJob(retry.letter.log)} /\ retry' = [retry EXCEPT !.pc = "mark"]
       ELSE retry' = Idle /\ UNCHANGED jobs
    /\ UNCHANGED <<inputVars, worker, map, dead, archiveVars, writer, dlqVars, ops, faults>>

\* ArchiveStageAdapter: it waits for the listener and does not ask what it did.
RunListener ==
    /\ retry.pc = "adapter" /\ retry.letter.stage = "archive_event_stage"
    /\ writer = Idle
    /\ Write(retry.letter.log, "retry") /\ retry' = [retry EXCEPT !.pc = "written"]
    /\ UNCHANGED <<inputVars, consumeVars, archiveVars, dlqVars, ops, faults>>

\* markRetrySucceeded names the row by its id.
MarkRetrySucceeded ==
    /\ retry.pc = "mark"
    /\ dlq' = {row \in dlq : ~Collides(row, retry.letter)}
    /\ retry' = Idle
    /\ UNCHANGED <<inputVars, consumeVars, archiveVars, writer, accepted, lost, absorbed,
                   ops, faults>>

Accept ==
    /\ Command
    /\ \E row \in dlq : dlq' = dlq \ {row} /\ accepted' = accepted \cup {row.log}
    /\ UNCHANGED <<inputVars, consumeVars, archiveVars, writer, retry, lost, absorbed, faults>>

\* The command is interrupted.
RetryDies ==
    /\ retry # Idle /\ Fault
    /\ retry' = Idle
    /\ writer' = IF writer # Idle /\ writer.who = "retry" THEN Idle ELSE writer
    /\ UNCHANGED <<inputVars, consumeVars, archiveVars, dlqVars, ops>>

-----------------------------------------------------------------------------
Consume ==
    \/ Take \/ Resolve \/ Rebuild \/ RejectUnmapped \/ RejectUndecodable
    \/ WriteClickHouse \/ WriteRow \/ Ack
WriterStep == Find \/ WriterInsert \/ WriterRow \/ RouteToDlq
RetryStep == ReEnqueue \/ RunListener \/ MarkRetrySucceeded

Next ==
    \/ Produce \/ AddSource \/ Scan
    \/ Consume \/ Expire \/ Bridge \/ WriterStep
    \/ BeginRetry \/ RetryStep \/ Accept
    \/ HandlerFails \/ BridgeGivesUp \/ WriterFails \/ RetryDies \/ Restart

Spec == Init /\ [][Next]_vars

\* pg-boss serves both queues and expires what nobody completes.
FairSpec == Spec /\ WF_vars(Consume) /\ WF_vars(Expire) /\ WF_vars(Bridge)

-----------------------------------------------------------------------------
(* Properties. *)

Held(l) ==
    \/ \E x \in jobs \cup dead \cup dlq : x.log = l
    \/ writer # Idle /\ writer.log = l

Tracked(l) == l \in rows \cup accepted \cup lost \/ Held(l)

\* ADR-0032: every dead letter "either retries to success [...] or is
\* accepted".  So a log that came in is archived, accepted, or still held by a
\* queue, a writer or an open dead letter, whatever fails and whoever writes
\* beside the consumer.  Only one that failed again while its own dead letter
\* was retried is not: the letter that says so is then deleted as resolved.
NothingVanishes == \A l \in sent \cup scanned : Tracked(l) \/ l \in absorbed

\* A row vouches for ClickHouse, whichever of the two writers put it there
\* and wherever the other one was interrupted.
RowHasContent == \A l \in rows : ch[l] > 0

\* A log is rejected as unmapped only if nobody had added its source by the
\* time its job was taken, however old the resolver's map was.
UnmappedWasUnknown == worker.pc = "unmapped" => ~worker.known

\* The queues run dry: every log that was sent is archived, or has left a
\* dead letter that is open or was disposed of.
QueuesDrain ==
    <>[](/\ jobs = {} /\ dead = {}
         /\ \A l \in sent :
               \/ l \in rows \cup accepted \cup lost \cup absorbed
               \/ \E row \in dlq : row.log = l)
=============================================================================
