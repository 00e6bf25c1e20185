-------------------------- MODULE OffchainArchive --------------------------
(***************************************************************************)
(* One off-chain source (Snapshot, Discourse): items that are edited in    *)
(* place are polled, queued and archived under mutable-latest semantics    *)
(* (ADR-0071).  A tick commits its jobs and its cursor in one transaction; *)
(* a single worker writes each item to ClickHouse under a version it takes *)
(* from PostgreSQL, then to its archive_event row.                         *)
(***************************************************************************)
EXTENDS Naturals, SequencesExt

CONSTANTS
    Items,       \* external ids
    Unmapped,    \* those whose dao_source row or archive writer is missing
    Edits,       \* bound: how many revisions of an item the source publishes
    RetryLimit,  \* retryLimit of OFF_CHAIN_ARCHIVE_QUEUE
    MaxResends,  \* bound: items sent again by boundary re-checks and reconcile
    MaxFaults    \* bound: failed calls and restarts

ASSUME OffchainAssumption ==
    /\ IsFiniteSet(Items) /\ Unmapped \subseteq Items
    /\ Edits \in [Items -> Nat]
    /\ RetryLimit \in Nat /\ MaxResends \in Nat /\ MaxFaults \in Nat

VARIABLES
    published,  \* the revision the source shows of each item, 0: none yet
    cursor,     \* off_chain_cursor: the items paged past
    mem,        \* the poller's own copy of it
    fetched,    \* <<item, revision>> the tick in flight has read
    jobs,       \* OFF_CHAIN_ARCHIVE_QUEUE, in the order pg-boss serves it
    pc,         \* the worker: idle, write (ClickHouse), row, ack, or reject
    found,      \* the version of the row it found, 0: none
    rows,       \* archive_event
    ch,         \* the source's ReplacingMergeTree, parts unmerged
    dead,       \* OFF_CHAIN_ARCHIVE_DLQ_QUEUE
    dlq,        \* ingestion_dlq
    gone,       \* jobs whose dead letter was not delivered either
    resends, faults

pollVars == <<cursor, mem, fetched, resends>>
workVars == <<pc, found>>
dlqVars == <<dead, dlq, gone>>
archiveVars ==
    <<published, pollVars, jobs, workVars, rows, ch, dlqVars, faults>>

Revision == Nat \ {0}
Content == Items \X Revision
Job == [item : Items, rev : Revision, tries : 0..RetryLimit,
        state : {"ready", "active", "orphan", "waiting"}]

\* A row with its watermarks; version 0 stands for no row.
NoRow == [rev |-> 0, ver |-> 0, resolved |-> FALSE, derived |-> FALSE, attempts |-> 0]
Row == [rev : Revision \cup {0}, ver : Nat, resolved : BOOLEAN,
        derived : BOOLEAN, attempts : Nat]
Archived == [item : Items, ver : Nat \ {0}, rev : Revision]

TypeOK ==
    /\ published \in [Items -> Nat] /\ \A i \in Items : published[i] <= Edits[i]
    /\ cursor \subseteq Items /\ mem \subseteq Items
    /\ fetched \subseteq Content
    /\ jobs \in Seq(Job)
    /\ pc \in {"idle", "write", "row", "ack", "reject"} /\ found \in Nat
    /\ (pc = "idle") = (\A k \in DOMAIN jobs : jobs[k].state # "active")
    /\ rows \in [Items -> Row]
    /\ ch \subseteq Archived
    /\ dead \subseteq Content /\ dlq \subseteq Content /\ gone \subseteq Content
    /\ resends \in 0..MaxResends /\ faults \in 0..MaxFaults

ArchiveInit ==
    /\ published = [i \in Items |-> 0]
    /\ cursor = {} /\ mem = {} /\ fetched = {} /\ resends = 0
    /\ jobs = <<>> /\ pc = "idle" /\ found = 0
    /\ rows = [i \in Items |-> NoRow] /\ ch = {}
    /\ dead = {} /\ dlq = {} /\ gone = {} /\ faults = 0

-----------------------------------------------------------------------------
(* The source and the poller. *)

Fault == faults < MaxFaults /\ faults' = faults + 1

\* An item is published, or edited in place.
Publish ==
    \E i \in Items :
        /\ published[i] < Edits[i]
        /\ published' = [published EXCEPT ![i] = @ + 1]
        /\ UNCHANGED <<pollVars, jobs, workVars, rows, ch, dlqVars, faults>>

\* poll: a page of the items past the cursor, and some already paged (the
\* inclusive boundary of the window, the stale ones reconcile asks for).
FetchTick ==
    /\ fetched = {}
    /\ \E page \in SUBSET {i \in Items \ mem : published[i] > 0},
          again \in SUBSET mem :
        /\ resends + Cardinality(again) <= MaxResends
        /\ page \cup again # {}
        /\ resends' = resends + Cardinality(again)
        /\ fetched' = {<<i, published[i]>> : i \in page \cup again}
    /\ UNCHANGED <<published, cursor, mem, jobs, workVars, rows, ch, dlqVars, faults>>

NewJob(content) ==
    [item |-> content[1], rev |-> content[2], tries |-> 0, state |-> "ready"]

NextCursor == mem \cup {content[1] : content \in fetched}

\* Mutant: the jobs of a later tick are sent ahead of those queued.
CommitAhead ==
    /\ cursor' = NextCursor
    /\ \E order \in SetToSeqs(fetched) :
          jobs' = [k \in DOMAIN order |-> NewJob(order[k])] \o jobs

\* commitTick: every job and the cursor, or nothing.
Commit ==
    /\ cursor' = NextCursor
    /\ \E order \in SetToSeqs(fetched) :
          jobs' = jobs \o [k \in DOMAIN order |-> NewJob(order[k])]

CommitTick ==
    /\ fetched # {}
    /\ Commit
    /\ mem' = NextCursor /\ fetched' = {}
    /\ UNCHANGED <<published, resends, workVars, rows, ch, dlqVars, faults>>

\* The transaction fails, or it commits and the poller is told that it failed:
\* the poller's own cursor stays.
CommitFails ==
    /\ fetched # {} /\ Fault
    /\ Commit \/ UNCHANGED <<cursor, jobs>>
    /\ fetched' = {}
    /\ UNCHANGED <<published, mem, resends, workVars, rows, ch, dlqVars>>

\* The process dies and is booted again: it loads the cursor, and the job its
\* worker held stays active until pg-boss expires it.
Restart ==
    /\ Fault
    /\ mem' = cursor /\ fetched' = {}
    /\ pc' = "idle" /\ found' = 0
    /\ jobs' = [k \in DOMAIN jobs |->
                  IF jobs[k].state = "active" THEN [jobs[k] EXCEPT !.state = "orphan"]
                                              ELSE jobs[k]]
    /\ UNCHANGED <<published, cursor, resends, rows, ch, dlqVars>>

-----------------------------------------------------------------------------
(* pg-boss: how a job is served, retried and dead-lettered. *)

First(state) ==
    CHOOSE k \in DOMAIN jobs :
        /\ jobs[k].state = state
        /\ \A j \in 1..(k - 1) : jobs[j].state # state

Active == jobs[First("active")]

\* A failed or expired job waits for its next try, or goes to the dead letters.
GiveBack(k) ==
    IF jobs[k].tries < RetryLimit
    THEN /\ jobs' = [jobs EXCEPT ![k].tries = @ + 1, ![k].state = "waiting"]
         /\ UNCHANGED dead
    ELSE /\ jobs' = RemoveAt(jobs, k)
         /\ dead' = dead \cup {<<jobs[k].item, jobs[k].rev>>}

BackoffElapses ==
    \E k \in DOMAIN jobs :
        /\ jobs[k].state = "waiting"
        /\ jobs' = [jobs EXCEPT ![k].state = "ready"]
        /\ UNCHANGED <<published, pollVars, workVars, rows, ch, dlqVars, faults>>

Expire ==
    \E k \in DOMAIN jobs :
        /\ jobs[k].state = "orphan"
        /\ GiveBack(k)
        /\ UNCHANGED <<published, pollVars, workVars, rows, ch, dlq, gone, faults>>

\* OffChainArchiveDlqBridge.
Bridge ==
    \E content \in dead :
        /\ dead' = dead \ {content}
        /\ dlq' = dlq \cup {content}
        /\ UNCHANGED <<published, pollVars, jobs, workVars, rows, ch, gone, faults>>

\* Its deliveries all fail, and that queue has no dead letters of its own.
BridgeGivesUp ==
    \E content \in dead :
        /\ Fault
        /\ dead' = dead \ {content}
        /\ gone' = gone \cup {content}
        /\ UNCHANGED <<published, pollVars, jobs, workVars, rows, ch, dlq>>

-----------------------------------------------------------------------------
(* The worker: consume, around applyOffChainMutableLatest. *)

\* Mutant: an item that has a row is taken for unchanged, whatever its content.
KnownIsUnchanged(row, job) == row.ver > 0

\* The row found by external id already names the content of the job.
Unchanged(row, job) == row.ver > 0 /\ row.rev = job.rev

\* The next job, and findByExternalId: unchanged content is only acknowledged.
Take ==
    /\ pc = "idle"
    /\ \E k \in DOMAIN jobs : jobs[k].state = "ready"
    /\ LET job == jobs[First("ready")]
           row == rows[job.item]
       IN /\ jobs' = [jobs EXCEPT ![First("ready")].state = "active"]
          /\ found' = row.ver
          /\ pc' = IF job.item \in Unmapped THEN "reject"
                   ELSE IF Unchanged(row, job) THEN "ack"
                   ELSE "write"
    /\ UNCHANGED <<published, pollVars, rows, ch, dlqVars, faults>>

\* An unmapped item goes straight to ingestion_dlq.
Reject ==
    /\ pc = "reject"
    /\ dlq' = dlq \cup {<<Active.item, Active.rev>>}
    /\ pc' = "ack"
    /\ UNCHANGED <<published, pollVars, jobs, found, rows, ch, dead, gone, faults>>

NextVersion == found + 1

\* Mutant: a failed insert into ClickHouse is swallowed.
WriteArchiveSwallows ==
    /\ pc = "write"
    /\ ch' \in {ch, ch \cup {[item |-> Active.item, ver |-> NextVersion,
                              rev |-> Active.rev]}}
    /\ pc' = "row"
    /\ UNCHANGED <<published, pollVars, jobs, found, rows, dlqVars, faults>>

\* ClickHouse first ...
WriteArchive ==
    /\ pc = "write"
    /\ ch' = ch \cup {[item |-> Active.item, ver |-> NextVersion, rev |-> Active.rev]}
    /\ pc' = "row"
    /\ UNCHANGED <<published, pollVars, jobs, found, rows, dlqVars, faults>>

\* ... then the row: inserted if there was none (ON CONFLICT DO NOTHING), else
\* re-archived if its version is still lower, all its watermarks reset.
WriteRow ==
    /\ pc = "row"
    /\ rows' = IF IF found = 0 THEN rows[Active.item].ver > 0
                               ELSE rows[Active.item].ver >= NextVersion
               THEN rows
               ELSE [rows EXCEPT ![Active.item] =
                        [NoRow EXCEPT !.rev = Active.rev, !.ver = NextVersion]]
    /\ pc' = "ack"
    /\ UNCHANGED <<published, pollVars, jobs, found, ch, dlqVars, faults>>

\* The handler returned: pg-boss completes the job.
Ack ==
    /\ pc = "ack"
    /\ jobs' = RemoveAt(jobs, First("active"))
    /\ pc' = "idle" /\ found' = 0
    /\ UNCHANGED <<published, pollVars, rows, ch, dlqVars, faults>>

\* A call of the handler throws, or the completion of its job does.
HandlerFails ==
    /\ pc # "idle" /\ Fault
    /\ GiveBack(First("active"))
    /\ pc' = "idle" /\ found' = 0
    /\ UNCHANGED <<published, pollVars, rows, ch, dlq, gone>>

Poll == FetchTick \/ CommitTick
Work == Take \/ Reject \/ WriteArchive \/ WriteRow \/ Ack
Serve == BackoffElapses \/ Expire \/ Bridge
Faults == CommitFails \/ BridgeGivesUp \/ HandlerFails

ArchiveStep == Publish \/ Poll \/ Work \/ Serve \/ Faults

ArchiveNext == ArchiveStep \/ Restart

ArchiveSpec == ArchiveInit /\ [][ArchiveNext]_archiveVars

-----------------------------------------------------------------------------
(* Properties. *)

IsArchived(content) ==
    \E c \in ch : c.item = content[1] /\ c.rev = content[2]

Queued(content) ==
    \E k \in DOMAIN jobs : jobs[k].item = content[1] /\ jobs[k].rev = content[2]

\* A queued job, or the dead letter it became, is still owed ...
Owed(content) == Queued(content) \/ content \in dead

\* ... until its item's row shows it, or it is in ingestion_dlq, or it is lost:
\* the bridge could not deliver its dead letter.
Settled(content) == rows[content[1]].rev = content[2] \/ content \in dlq \cup gone

\* A row vouches for ClickHouse: the version and content it names are there.
\* However often a job is retried, ClickHouse is at most one version ahead of
\* the row, so that the next write is always the greatest.
RowIsArchived ==
    \A i \in Items \ Unmapped :
        /\ rows[i].ver > 0 => [item |-> i, ver |-> rows[i].ver, rev |-> rows[i].rev] \in ch
        /\ \A c \in ch : c.item = i => c.ver <= rows[i].ver + 1

\* Whatever fails or restarts, what was queued, an edit as much as a first sight,
\* stays owed until its item's row shows it or it is in ingestion_dlq; an item is
\* paged past only when a job of it was queued; and once the source rests every
\* published item is paged and nothing is owed.  One exception, by name: a job of
\* `gone`, whose dead letter the bridge gave up, is lost by the code.
QueueDrains ==
    /\ [][\A i \in Items :
            /\ \A r \in 1..Edits[i] :
                  Owed(<<i, r>>) => Owed(<<i, r>>)' \/ Settled(<<i, r>>)'
            /\ i \in mem' \ mem =>
                  \E r \in 1..Edits[i] : Owed(<<i, r>>)' \/ Settled(<<i, r>>)'
         ]_archiveVars
    /\ []<>(\A i \in Items :
                /\ published[i] > 0 => i \in mem
                /\ \A r \in 1..Edits[i] : ~Owed(<<i, r>>))

\* archive-event-repository.ts reArchiveOffchain: "an out-of-order older edit
\* cannot clobber a newer one".  So it is while no call has failed and no job has
\* been overtaken: it takes the order of the queue, and every resend of an edit
\* behind the edit.
CalmOlderEditIsNoOp ==
    [][faults = 0 => \A i \in Items : rows'[i].rev >= rows[i].rev]_archiveVars
=============================================================================
