------------------------------ MODULE AiBatches ------------------------------
(***************************************************************************)
(* One feature of the AI worker: summaries of proposals, made in batches   *)
(* by two drivers on timers of their own (the live one and the full-       *)
(* history backfill), and at once for a proposal about to be decided, by a *)
(* job.  Outputs are found again by the hash of their input; the content   *)
(* of a proposal does not change here.                                     *)
(***************************************************************************)
EXTENDS Naturals, FiniteSets, FiniteSetsExt, SequencesExt

CONSTANTS
    Proposals,     \* 1..n, in the order of the backfill's keyset
    Live,          \* those pending or active
    PageSize,      \* AI_BACKFILL_PAGE_SIZE
    Cap,           \* monthly cap, in calls
    JobRetryLimit, \* pg-boss: retries of a job
    Handles,       \* bound: batches known at once
    MaxFailures    \* bound: failed calls, results that never come, crashes

ASSUME AiAssumption ==
    /\ Proposals \subseteq Nat \ {0} /\ IsFiniteSet(Proposals) /\ Live \subseteq Proposals
    /\ PageSize \in Nat \ {0} /\ Cap \in Nat \ {0}
    /\ JobRetryLimit \in Nat /\ MaxFailures \in Nat
    /\ Handles \subseteq Nat \ {0} /\ IsFiniteSet(Handles) /\ Cardinality(Handles) >= 3

Drivers == {"live", "backfill"}

NoHandle == 0
NoCursor == 0
Nobody == 0

VARIABLES
    open,      \* ai_batch: handles of the open batches, oldest first
    batch,     \* handle -> what was submitted under it, and what came of it
    outputs,   \* ai_output
    letters,   \* ai_dlq: results that violate the schema
    spend,     \* ai_cost_log of this month, no further than Cap
    cursor,    \* ai_backfill_cursor
    pc,        \* driver -> where its tick is
    hand,      \* driver -> the handle it works on
    items,     \* driver -> what it is about to submit
    pageEnd,   \* pageCursor of the backfill
    tries,     \* proposal -> tries left of its queued job, 0 without one
    urgent,    \* the proposal whose job is running
    step,      \* of that job
    disabled,  \* AiBudgetState
    failures

tableVars == <<open, outputs, letters, cursor>>
driverVars == <<pc, hand, items, pageEnd>>
jobVars == <<tries, urgent, step>>
aiVars == <<open, batch, outputs, letters, spend, cursor, pc, hand, items, pageEnd,
          tries, urgent, step, disabled, failures>>

Batch == [of : SUBSET Proposals, cursor : Proposals \cup {NoCursor},
          status : {"in_progress", "ended", "unreadable"},
          good : SUBSET Proposals, bad : SUBSET Proposals]

Unused == [of |-> {}, cursor |-> NoCursor, status |-> "in_progress", good |-> {}, bad |-> {}]

AiTypeOK ==
    /\ open \in Seq(Handles) /\ IsInjective(open)
    /\ batch \in [Handles -> Batch]
    /\ outputs \in SUBSET Proposals /\ letters \in SUBSET Proposals
    /\ spend \in 0..Cap
    /\ cursor \in Proposals \cup {NoCursor}
    /\ pc \in [Drivers -> {"idle", "fetched", "scan", "submit", "record"}]
    /\ hand \in [Drivers -> Handles \cup {NoHandle}]
    /\ items \in [Drivers -> SUBSET Proposals]
    /\ pageEnd \in Proposals \cup {NoCursor}
    /\ tries \in [Proposals -> 0..(JobRetryLimit + 1)]
    /\ urgent \in Proposals \cup {Nobody}
    /\ step \in {"idle", "call", "cost"}
    /\ disabled \in BOOLEAN
    /\ failures \in 0..MaxFailures

AiInit ==
    /\ open = <<>>
    /\ batch = [h \in Handles |-> Unused]
    /\ outputs = {} /\ letters = {} /\ spend = 0 /\ cursor = NoCursor
    /\ pc = [d \in Drivers |-> "idle"] /\ hand = [d \in Drivers |-> NoHandle]
    /\ items = [d \in Drivers |-> {}] /\ pageEnd = NoCursor
    /\ tries = [p \in Proposals |-> 0] /\ urgent = Nobody /\ step = "idle"
    /\ disabled = FALSE
    /\ failures = 0

IsOpen(h) == h \in Range(open)
InHand == {hand[d] : d \in Drivers}

Failure == failures < MaxFailures /\ failures' = failures + 1

\* one row of ai_cost_log for each of n calls
Book(n) == spend' = Min({spend + n, Cap})

-----------------------------------------------------------------------------
(* The two batch drivers over one DurableBatch.                            *)

\* `ticking = false`; a driver has one tick at a time.
EndTick(d) ==
    /\ pc' = [pc EXCEPT ![d] = "idle"]
    /\ hand' = [hand EXCEPT ![d] = NoHandle]
    /\ items' = [items EXCEPT ![d] = {}]
    /\ pageEnd' = IF d = "backfill" THEN NoCursor ELSE pageEnd

\* The live driver stops here when the budget is used up; the backfill goes on to
\* what is open.
TicksOn(d) == pc[d] = "idle" /\ (d = "live" => ~disabled)

\* pollOpen fetches the oldest open batch, and has its results when it ended.
\* One in progress ends the tick, and so does fetchBatch when it throws, as it
\* does each time if a result is a refusal, is cut short or is no JSON, or if
\* the batch has no output at all.
Fetch(d) ==
    /\ TicksOn(d) /\ open # <<>> /\ batch[open[1]].status = "ended"
    /\ pc' = [pc EXCEPT ![d] = "fetched"]
    /\ hand' = [hand EXCEPT ![d] = open[1]]
    /\ UNCHANGED <<tableVars, batch, spend, items, pageEnd, jobVars, disabled, failures>>

Returned(h) == batch[h].good \cup batch[h].bad

\* Every item of the batch came back.
Complete(h) == batch[h].of \subseteq Returned(h)

\* persistBatchItemResult of every result.
PersistResults(h) ==
    /\ outputs' = outputs \cup batch[h].good
    /\ letters' = letters \cup batch[h].bad
    /\ Book(Cardinality(Returned(h)))

\* Mutant: the cursor moves past what the provider has not returned.
CommitCursorAnyway(h) ==
    cursor' = IF batch[h].cursor # NoCursor THEN batch[h].cursor ELSE cursor

\* The cursor of the page, with its last result or not at all.
CommitCursor(h) ==
    cursor' = IF batch[h].cursor # NoCursor /\ Complete(h) THEN batch[h].cursor ELSE cursor

DropRow(h) == \E i \in DOMAIN open : open[i] = h /\ open' = RemoveAt(open, i)

\* Mutant: a batch with missing results stays, to be asked for again.
DeleteCompleteRow(h) == IF IsOpen(h) /\ Complete(h) THEN DropRow(h) ELSE UNCHANGED open

\* No row is no error: the other driver may have been first.
DeleteRow(h) == IF IsOpen(h) THEN DropRow(h) ELSE UNCHANGED open

\* Bookkeeping: a handle neither in ai_batch nor in a tick is free again.
Free(d, h) ==
    batch' = IF h \in Range(open') \/ \E other \in Drivers \ {d} : hand[other] = h
             THEN batch ELSE [batch EXCEPT ![h] = Unused]

\* The transaction of pollOpen.
Drain(d) ==
    /\ pc[d] = "fetched"
    /\ PersistResults(hand[d]) /\ CommitCursor(hand[d]) /\ DeleteRow(hand[d])
    /\ Free(d, hand[d])
    /\ EndTick(d)
    /\ UNCHANGED <<jobVars, disabled, failures>>

Page == LET later == {p \in Proposals : p > cursor}
        IN {p \in later : Cardinality({q \in later : q < p}) < PageSize}

\* findCandidates and findAllForBackfill.
FindCandidates(d) == IF d = "live" THEN Live ELSE Page

\* pollOpen finds nothing open, and the budget was not used up: by the time the
\* scan has answered either may have changed.
NothingOpen(d) ==
    /\ TicksOn(d) /\ open = <<>> /\ ~disabled
    /\ pc' = [pc EXCEPT ![d] = "scan"]
    /\ UNCHANGED <<tableVars, batch, spend, hand, items, pageEnd, jobVars, disabled, failures>>

\* What is to be submitted, but for what is in ai_output by then.
Collect(d) ==
    /\ pc[d] = "scan" /\ FindCandidates(d) \ outputs # {}
    /\ items' = [items EXCEPT ![d] = FindCandidates(d) \ outputs]
    /\ pageEnd' = IF d = "backfill" THEN Max(Page) ELSE pageEnd
    /\ pc' = [pc EXCEPT ![d] = "submit"]
    /\ UNCHANGED <<tableVars, batch, spend, hand, jobVars, disabled, failures>>

\* Nothing is: a page of the backfill that is all in ai_output is stepped over.
NothingToSubmit(d) ==
    /\ pc[d] = "scan" /\ FindCandidates(d) \subseteq outputs
    /\ cursor' = IF d = "backfill" /\ Page # {} THEN Max(Page) ELSE cursor
    /\ EndTick(d)
    /\ UNCHANGED <<open, batch, outputs, letters, spend, jobVars, disabled, failures>>

\* submitBatch: from here on the provider works, and is paid.
Submit(d) ==
    /\ pc[d] = "submit"
    /\ \E h \in Handles :
          /\ ~IsOpen(h) /\ h \notin InHand
          /\ \A other \in Handles : ~IsOpen(other) /\ other \notin InHand => h <= other
          /\ batch' = [batch EXCEPT ![h] =
                [of |-> items[d], status |-> "in_progress", good |-> {}, bad |-> {},
                 cursor |-> IF d = "live" THEN NoCursor ELSE pageEnd]]
          /\ hand' = [hand EXCEPT ![d] = h]
    /\ pc' = [pc EXCEPT ![d] = "record"]
    /\ UNCHANGED <<open, outputs, letters, cursor, spend, items, pageEnd, jobVars, disabled,
                   failures>>

Record(d) ==
    /\ pc[d] = "record"
    /\ open' = Append(open, hand[d])
    /\ EndTick(d)
    /\ UNCHANGED <<batch, outputs, letters, cursor, spend, jobVars, disabled, failures>>

\* A call or a transaction of the tick fails; the tick is over.
TickFails(d) ==
    /\ pc[d] # "idle" /\ Failure
    /\ EndTick(d)
    /\ UNCHANGED <<tableVars, batch, spend, jobVars, disabled>>

-----------------------------------------------------------------------------
(* The provider.                                                           *)

Running(h) ==
    /\ batch[h].status = "in_progress" /\ batch[h].of # {}
    /\ IsOpen(h) \/ h \in InHand

\* An item without a result was refused by the API, or expired.
ProviderEnds(h) ==
    /\ Running(h)
    /\ \E good, bad \in SUBSET batch[h].of :
          /\ good \cap bad = {}
          /\ IF good \cup bad = batch[h].of THEN UNCHANGED failures ELSE Failure
          /\ batch' = [batch EXCEPT ![h].status = "ended", ![h].good = good, ![h].bad = bad]
    /\ UNCHANGED <<tableVars, spend, driverVars, jobVars, disabled>>

ProviderGarbles(h) ==
    /\ Running(h) /\ Failure
    /\ batch' = [batch EXCEPT ![h].status = "unreadable"]
    /\ UNCHANGED <<tableVars, spend, driverVars, jobVars, disabled>>

-----------------------------------------------------------------------------
(* The job of a proposal.                                                  *)

\* A scan enqueues a job; the throttle allows one in its window.
Trigger(p) ==
    /\ ~disabled /\ tries[p] = 0 /\ p \in Live
    /\ tries' = [tries EXCEPT ![p] = JobRetryLimit + 1]
    /\ UNCHANGED <<tableVars, batch, spend, driverVars, urgent, step, disabled, failures>>

Acked(p) == tries' = [tries EXCEPT ![p] = 0]

\* Acknowledged without a call: the budget is used up, the deadline is far, or
\* there is an output.
AckUndone(p) ==
    /\ urgent = Nobody /\ tries[p] > 0
    /\ Acked(p)
    /\ UNCHANGED <<tableVars, batch, spend, driverVars, urgent, step, disabled, failures>>

\* An urgent proposal without an output.
TakeUrgent(p) ==
    /\ urgent = Nobody /\ tries[p] > 0
    /\ ~disabled /\ p \notin outputs
    /\ urgent' = p /\ step' = "call"
    /\ UNCHANGED <<tableVars, batch, spend, driverVars, tries, disabled, failures>>

EndJob == urgent' = Nobody /\ step' = "idle"

\* The cost and the output, in one transaction; an output that is there stays.
Summarized ==
    /\ step = "call"
    /\ outputs' = outputs \cup {urgent} /\ Book(1)
    /\ Acked(urgent) /\ EndJob
    /\ UNCHANGED <<open, batch, letters, cursor, driverVars, disabled, failures>>

\* Two answers violate the schema: the letter first.
DeadLetter ==
    /\ step = "call"
    /\ letters' = letters \cup {urgent}
    /\ step' = "cost"
    /\ UNCHANGED <<open, batch, outputs, cursor, spend, driverVars, tries, urgent,
                   disabled, failures>>

\* Then, in a statement of its own, what the two cost.
BookLetter ==
    /\ step = "cost"
    /\ Book(2)
    /\ Acked(urgent) /\ EndJob
    /\ UNCHANGED <<tableVars, batch, driverVars, disabled, failures>>

\* pg-boss tries again, or moves the job to its dead letters.
Retried == tries' = [tries EXCEPT ![urgent] = @ - 1]

JobFails ==
    /\ urgent # Nobody /\ Failure
    /\ Retried /\ EndJob
    /\ UNCHANGED <<tableVars, batch, spend, driverVars, disabled>>

-----------------------------------------------------------------------------
(* The budget, and the process.                                            *)

BudgetTick ==
    /\ disabled # (spend >= Cap) /\ disabled' = ~disabled
    /\ UNCHANGED <<tableVars, batch, spend, driverVars, jobVars, failures>>

\* The sum is since the first of the month.
NewMonth ==
    /\ spend > 0 /\ spend' = 0
    /\ UNCHANGED <<tableVars, batch, driverVars, jobVars, disabled, failures>>

\* The process ends and starts again: ticks and the running job are gone, and
\* every feature counts as enabled until a budget tick, the first at bootstrap,
\* could read the costs.
WorkerRestart ==
    /\ Failure
    /\ pc' = [d \in Drivers |-> "idle"] /\ hand' = [d \in Drivers |-> NoHandle]
    /\ items' = [d \in Drivers |-> {}] /\ pageEnd' = NoCursor
    /\ IF urgent = Nobody THEN UNCHANGED tries ELSE Retried
    /\ EndJob
    /\ disabled' = FALSE
    /\ UNCHANGED <<tableVars, batch, spend>>

-----------------------------------------------------------------------------
DriverStep(d) ==
    \/ Fetch(d) \/ Drain(d)
    \/ NothingOpen(d) \/ Collect(d) \/ NothingToSubmit(d) \/ Submit(d) \/ Record(d)

JobStep == \/ \E p \in Proposals : AckUndone(p) \/ TakeUrgent(p)
           \/ Summarized \/ DeadLetter \/ BookLetter

AiNext ==
    \/ \E d \in Drivers : DriverStep(d) \/ TickFails(d)
    \/ \E h \in Handles : ProviderEnds(h) \/ ProviderGarbles(h)
    \/ \E p \in Proposals : Trigger(p)
    \/ JobStep \/ JobFails
    \/ BudgetTick \/ NewMonth \/ WorkerRestart

-----------------------------------------------------------------------------
(* Properties.                                                             *)

Settled(p) == p \in outputs \cup letters

\* pollOpen commits the cursor of a page with its results and only when all of
\* them came: whatever the provider leaves out, whoever drains the batch and
\* wherever the process dies, what the backfill walked past has its output or a
\* letter.
WalkedIsSettled == \A p \in Proposals : p <= cursor => Settled(p)

\* The oldest open batch can be read by nobody: nothing is drained any more.
Wedged == open # <<>> /\ batch[open[1]].status = "unreadable"

\* Each proposal comes to its output or a letter, through failed calls, missing
\* results, restarts, two drivers that share one open batch and a budget that is
\* used up in one month and again in the next, unless an unreadable batch blocks
\* the feature.
EachSettles == \A p \in Proposals : <>Settled(p) \/ <>[]Wedged

AiSpec == AiInit /\ [][AiNext]_aiVars

\* Between the batch it drains and the one it submits the live driver leaves an
\* interval of its timer, and the backfill ticks at that interval too: if again
\* and again nothing is open and the budget is not used up, some of its ticks
\* find it so.
BackfillHasItsTurn ==
    []<>(open = <<>> /\ ~disabled) => []<><<NothingOpen("backfill")>>_aiVars

\* The timers of the drivers and the budget fire, their calls end, the provider
\* ends its batches and months go by; a trigger is not needed for the batches.
AiFairness ==
    /\ \A d \in Drivers : WF_aiVars(DriverStep(d))
    /\ BackfillHasItsTurn
    /\ WF_aiVars(JobStep) /\ WF_aiVars(BudgetTick) /\ WF_aiVars(NewMonth)
    /\ \A h \in Handles : WF_aiVars(ProviderEnds(h))

AiFairSpec == AiSpec /\ AiFairness
=============================================================================
