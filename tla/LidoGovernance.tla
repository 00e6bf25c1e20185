--------------------------- MODULE LidoGovernance ---------------------------
(***************************************************************************)
(* Lido: Aragon votes and the Dual Governance (DG) proposals their         *)
(* enactment submits (ADR-0074).  Both sources are archived on their own   *)
(* and derived by one worker; a submission is correlated with the vote     *)
(* enacted in its transaction and then drives that vote's proposal row     *)
(* through the DG ledger.  A rage quit vetoes the pending ones.            *)
(***************************************************************************)
EXTENDS DerivationQueue

CONSTANTS
    Votes,            \* bound: the Aragon votes
    MaxDg,            \* bound: how many submissions Dual Governance takes
    MetaMissingSkip   \* META_MISSING_SKIP_ATTEMPTS

ASSUME LidoAssumption ==
    /\ {"aragon_voting", "dual_governance"} \subseteq DOMAIN ChainOf
    /\ MaxDg \in Nat \ {0} /\ MetaMissingSkip \in Nat

VARIABLES
    state,     \* proposal.state
    ledger,    \* dual_governance_proposal
    history,   \* dual_governance_state_history: its rage_quit transitions
    stage,     \* how far the handler of the first row of the batch is
    todo,      \* the submissions whose proposal.state it has yet to write
    overtaken  \* history: submissions whose vote's ExecuteVote came later

DgIds == 1..MaxDg
Aragon(v) == <<"aragon_voting", v>>
Direct(d) == <<"dual_governance", d>>

Keys == {Aragon(v) : v \in Votes} \cup {Direct(d) : d \in DgIds}

Table == INSTANCE ProposalTable WITH Proposals <- Keys

dgVars == <<ledger, history, stage, todo>>
vars == <<queueVars, state, dgVars, overtaken>>

Event == [src : {"aragon_voting"}, typ : {"StartVote", "ExecuteVote"}, id : Votes,
          tx : Positions, block : Positions]
    \cup [src : {"dual_governance"}, id : DgIds, tx : Positions, block : Positions,
          typ : {"ProposalSubmitted", "ProposalSubmittedMeta", "ProposalScheduled",
                 "ProposalExecuted", "ProposalsCancelledTill", "RageQuit"}]

NoEntry == [status |-> "none"]
Entry == [status : {"submitted", "scheduled", "executed", "cancelled"},
          proposal : Keys, submittedAt : Nat, cancelledAt : Nat]

LidoTypeOK ==
    /\ QueueTypeOK /\ log \in Seq(Event)
    /\ Table!StateTypeOK
    /\ ledger \in [DgIds -> Entry \cup {NoEntry}]
    /\ history \subseteq Nat
    /\ stage \in {"idle", "inserted", "written"} /\ todo \subseteq DgIds
    /\ stage # "idle" => batch # {}
    /\ overtaken \subseteq DgIds

Init ==
    /\ QueueInit
    /\ Table!StateInit
    /\ ledger = [d \in DgIds |-> NoEntry]
    /\ history = {} /\ stage = "idle" /\ todo = {}
    /\ overtaken = {}

-----------------------------------------------------------------------------
(* The contracts.  A transaction may share the block of the one before;    *)
(* that matters where the one before is Aragon's.                          *)

Logged(typ, id) == \E i \in DOMAIN log : log[i].typ = typ /\ log[i].id = id

LastBlock == IF log = <<>> THEN 0 ELSE log[Len(log)].block

Blocks ==
    IF log # <<>> /\ log[Len(log)].src = "aragon_voting"
    THEN {LastBlock, LastBlock + 1} ELSE {LastBlock + 1}

Transact(calls) ==
    \E block \in Blocks :
        Emit([k \in DOMAIN calls |->
                [src |-> calls[k][1], typ |-> calls[k][2], id |-> calls[k][3],
                 tx |-> Len(log) + 1, block |-> block]])

\* Bound: votes start before anything else, as they are open for days.
StartVote(v) ==
    /\ ~Logged("StartVote", v) /\ \A i \in DOMAIN log : log[i].typ = "StartVote"
    /\ Transact(<< <<"aragon_voting", "StartVote", v>> >>)

Submission(d) ==
    << <<"dual_governance", "ProposalSubmitted", d>>,
       <<"dual_governance", "ProposalSubmittedMeta", d>> >>

NextDg(d) == d \in DgIds /\ \A e \in DgIds : e < d <=> Logged("ProposalSubmitted", e)

\* The vote's script runs first, so its own event is the last of the
\* transaction; the script may submit to Dual Governance or act directly.
Enact(v) ==
    /\ Logged("StartVote", v) /\ ~Logged("ExecuteVote", v)
    /\ \/ Transact(<< <<"aragon_voting", "ExecuteVote", v>> >>)
       \/ \E d \in DgIds :
             /\ NextDg(d)
             /\ Transact(Submission(d) \o << <<"aragon_voting", "ExecuteVote", v>> >>)

SubmitDirectly ==
    /\ \E d \in DgIds : NextDg(d) /\ Transact(Submission(d))

CancelledOnChain(d) == \E e \in DgIds : e >= d /\
    \E i, j \in DOMAIN log :
        /\ log[i].typ = "ProposalSubmitted" /\ log[i].id = d
        /\ log[j].typ = "ProposalsCancelledTill" /\ log[j].id = e /\ i < j

\* The timelock schedules and executes what is not cancelled; a bulk cancel
\* names the last submission.
Timelock ==
    /\ \E d \in DgIds :
          /\ Logged("ProposalSubmitted", d)
          /\ \/ /\ ~CancelledOnChain(d) /\ ~Logged("ProposalScheduled", d)
                /\ Transact(<< <<"dual_governance", "ProposalScheduled", d>> >>)
             \/ /\ ~CancelledOnChain(d)
                /\ Logged("ProposalScheduled", d) /\ ~Logged("ProposalExecuted", d)
                /\ Transact(<< <<"dual_governance", "ProposalExecuted", d>> >>)
             \/ /\ ~Logged("ProposalSubmitted", d + 1)
                /\ ~Logged("ProposalsCancelledTill", d)
                /\ Transact(<< <<"dual_governance", "ProposalsCancelledTill", d>> >>)

\* At most one: a second one adds no case.
RageQuit ==
    /\ ~Logged("RageQuit", 1)
    /\ Transact(<< <<"dual_governance", "RageQuit", 1>> >>)

\* What the indexer does depends on the logs it has archived and not on when
\* the chain emitted the rest, so the chain moves first.
Contracts ==
    /\ Archived = {}
    /\ \/ \E v \in Votes : StartVote(v) \/ Enact(v)
       \/ SubmitDirectly \/ Timelock \/ RageQuit
    /\ UNCHANGED <<received, rowVars, faults, state, dgVars, overtaken>>

RageQuits(i) == Cardinality({j \in 1..i : log[j].typ = "RageQuit"})

\* Rage quits happen at even times; what is archived after the nth one and
\* before the next is so at 2n + 1.
TimeOf(i) == 2 * RageQuits(i)

\* A row is archived after its block; how long after is up to the poller.
\* A row archived between two writes of a handler is of no effect on it.
ArchiveRow ==
    /\ stage = "idle"
    /\ \E i \in DOMAIN log :
          \E n \in RageQuits(i)..RageQuits(Len(log)) : Archive(i, 2 * n + 1)
    /\ UNCHANGED <<log, rowVars, faults, state, dgVars, overtaken>>

-----------------------------------------------------------------------------
(* The derivation worker.                                                  *)

chainVars == <<log, received>>
Row == log[First]

Begin ==
    /\ BeginTick
    /\ UNCHANGED <<chainVars, derived, attempts, held, quarantined, faults, state,
                   dgVars, overtaken>>

MarkDerived == derived' = derived \cup {First} /\ batch' = batch \ {First}

\* Left as it is, neither counted nor held, for a later tick.
Defer ==
    /\ batch' = batch \ {First}
    /\ UNCHANGED <<derived, attempts, quarantined, faults, state, dgVars, overtaken>>

\* AragonProposalProjectionApplier: the change and derived_at commit together.
ApplyAragon ==
    /\ CASE Row.typ = "StartVote" -> Table!InsertProposal(Aragon(Row.id), "active")
         [] Row.typ = "ExecuteVote" -> Table!AdvanceState(Aragon(Row.id), "executed")
    /\ MarkDerived

AragonRow ==
    /\ batch # {} /\ Row.src = "aragon_voting"
    /\ ApplyAragon
    /\ overtaken' = IF Row.typ = "StartVote" THEN overtaken
          ELSE overtaken \cup {d \in DgIds :
                  ledger[d] # NoEntry /\ ledger[d].proposal = Aragon(Row.id)}
    /\ UNCHANGED <<chainVars, attempts, held, quarantined, faults, dgVars>>

\* Mutant: the block itself is not enough.
CoveredStrictly ==
    \E i \in Archived : log[i].src = "aragon_voting" /\ log[i].block > Row.block

\* aragonArchiveCovers: maxArchivedBlock has reached the row's block.
Covered ==
    \E i \in Archived : log[i].src = "aragon_voting" /\ log[i].block >= Row.block

\* findEnactmentVoteId
EnactedIn(tx) ==
    {log[i].id : i \in {j \in Archived : log[j].tx = tx /\ log[j].typ = "ExecuteVote"}}

MetaArchived ==
    \E i \in Archived : log[i].tx = Row.tx /\ log[i].typ = "ProposalSubmittedMeta"

\* upsertSubmission: the first one stays.
Upsert(proposal) ==
    ledger' = IF ledger[Row.id] # NoEntry THEN ledger
        ELSE [ledger EXCEPT ![Row.id] =
                [status |-> "submitted", proposal |-> proposal,
                 submittedAt |-> received[First], cancelledAt |-> 0]]

\* Mutant: with no ExecuteVote in the archive it is direct, covered or not.
IsDirectUngated == EnactedIn(Row.tx) = {} /\ MetaArchived

IsDirect == Covered /\ EnactedIn(Row.tx) = {} /\ MetaArchived

\* The submission of an enacted vote; a direct one has its proposal by now.
Submitted ==
    /\ \/ \E v \in EnactedIn(Row.tx) :
             Covered /\ Table!Exists(Aragon(v)) /\ Upsert(Aragon(v))
       \/ stage = "inserted" /\ Upsert(Direct(Row.id))
    /\ todo' = {Row.id}
    /\ UNCHANGED <<state, history>>

\* Mutant: an execution needs its schedule.
BeforeStrictly(to) == IF to = "scheduled" THEN {"submitted"} ELSE {"scheduled"}

\* markScheduled, markExecuted: the statuses they move an entry from.
Before(to) == IF to = "scheduled" THEN {"submitted"} ELSE {"submitted", "scheduled"}

Advance(to) ==
    /\ ledger[Row.id] # NoEntry
    /\ ledger' = IF ledger[Row.id].status \in Before(to)
                 THEN [ledger EXCEPT ![Row.id].status = to] ELSE ledger
    /\ todo' = {Row.id}
    /\ UNCHANGED <<state, history>>

Cancellable(boundary) ==
    {d \in DgIds : d <= boundary /\ ledger[d].status \in {"submitted", "scheduled"}}

\* cancelThrough returns the entries it has cancelled, and no others.
CancelThrough ==
    /\ Covered
    /\ todo' = Cancellable(Row.id)
    /\ ledger' = [d \in DgIds |->
          IF d \in Cancellable(Row.id)
          THEN [ledger[d] EXCEPT !.status = "cancelled", !.cancelledAt = received[First]]
          ELSE ledger[d]]
    /\ UNCHANGED <<state, history>>

\* findResolvableByDao: a cancelled proposal can turn vetoed, an executed not.
Resolvable == {d \in DgIds : ledger[d].status \in {"submitted", "scheduled", "cancelled"}}

RecordRageQuit ==
    /\ history' = history \cup {TimeOf(First)}
    /\ todo' = Resolvable
    /\ UNCHANGED <<state, ledger>>

\* ensureDirectProposal, committed on its own.
InsertDirect ==
    /\ batch # {} /\ stage = "idle" /\ stage' = "inserted"
    /\ Row.typ = "ProposalSubmitted" /\ IsDirect
    /\ Table!InsertProposal(Direct(Row.id), "queued")
    /\ UNCHANGED <<chainVars, rowVars, faults, ledger, history, todo, overtaken>>

\* A DG handler's write to the ledger or the history, committed on its own.
WriteLedger ==
    /\ batch # {} /\ stage' = "written"
    /\ stage = "idle" \/ stage = "inserted"
    /\ CASE Row.typ = "ProposalSubmitted" -> Submitted
         [] Row.typ = "ProposalScheduled" -> Advance("scheduled")
         [] Row.typ = "ProposalExecuted" -> Advance("executed")
         [] Row.typ = "ProposalsCancelledTill" -> CancelThrough
         [] Row.typ = "RageQuit" -> RecordRageQuit
         [] OTHER -> FALSE
    /\ UNCHANGED <<chainVars, rowVars, faults, overtaken>>

\* Mutant: when the proposal was submitted is left out.
CoversOlder(at, entry) == entry.cancelledAt = 0 \/ at <= entry.cancelledAt

\* Chain time of the rage quit against archive time of the submission and
\* of the cancellation.
Covers(at, entry) ==
    /\ at >= entry.submittedAt
    /\ entry.cancelledAt = 0 \/ at <= entry.cancelledAt

\* resolveUnifiedProposalState
Resolve(entry) ==
    IF entry.status # "executed" /\ \E at \in history : Covers(at, entry) THEN "vetoed"
    ELSE CASE entry.status \in {"submitted", "scheduled"} -> "queued"
           [] entry.status = "executed" -> "executed"
           [] entry.status = "cancelled" -> "canceled"

\* Mutant: the write spares terminal states, as advanceState does.
WriteStateGuarded(d) ==
    state' = IF state[ledger[d].proposal] \in Table!Terminal THEN state
             ELSE [state EXCEPT ![ledger[d].proposal] = Resolve(ledger[d])]

\* applyUnifiedProposalState
WriteState(d) == Table!SetState(ledger[d].proposal, Resolve(ledger[d]))

ApplyState ==
    /\ \E d \in todo :
          /\ WriteState(d)
          /\ todo' = todo \ {d} /\ overtaken' = overtaken \ {d}
    /\ UNCHANGED <<chainVars, rowVars, faults, ledger, history, stage>>

FinishHandler ==
    /\ stage = "written" /\ todo = {} /\ stage' = "idle"
    /\ MarkDerived
    /\ UNCHANGED <<chainVars, attempts, held, quarantined, faults, state, ledger,
                   history, todo, overtaken>>

\* Meta rows are drained; a direct submission whose meta never came is
\* skipped after META_MISSING_SKIP_ATTEMPTS.
MetaMissing ==
    Row.typ = "ProposalSubmitted" /\ Covered /\ EnactedIn(Row.tx) = {} /\ ~MetaArchived

DrainRow ==
    /\ batch # {}
    /\ \/ Row.typ = "ProposalSubmittedMeta"
       \/ MetaMissing /\ attempts[First] >= MetaMissingSkip
    /\ MarkDerived
    /\ UNCHANGED <<chainVars, attempts, held, quarantined, faults, state, dgVars, overtaken>>

MustWait ==
    CASE Row.typ = "ProposalSubmitted" ->
            ~Covered \/ \E v \in EnactedIn(Row.tx) : ~Table!Exists(Aragon(v))
      [] Row.typ \in {"ProposalScheduled", "ProposalExecuted"} -> ledger[Row.id] = NoEntry
      [] Row.typ = "ProposalsCancelledTill" -> ~Covered
      [] OTHER -> FALSE

DeferRow ==
    /\ batch # {} /\ stage = "idle" /\ MustWait
    /\ Defer
    /\ UNCHANGED <<chainVars, held>>

Fail ==
    /\ CountFailure(First)
    /\ batch' = batch \ {First}
    /\ stage' = "idle" /\ todo' = {}

\* A direct submission whose meta is not archived yet counts as failed.
MetaFails ==
    /\ batch # {} /\ MetaMissing /\ attempts[First] < MetaMissingSkip
    /\ Fail
    /\ UNCHANGED <<chainVars, derived, held, faults, state, ledger, history,
                   overtaken>>

\* Any statement of a handler can fail; an Aragon one rolls back.
RowFails ==
    /\ batch # {} /\ Fault /\ Fail
    /\ UNCHANGED <<chainVars, derived, held, state, ledger, history, overtaken>>

RunFails ==
    /\ batch # {} /\ stage = "idle" /\ Fault /\ SkipRun
    /\ UNCHANGED <<chainVars, derived, attempts, held, quarantined, state, dgVars, overtaken>>

\* The indexer restarts: the tick in flight is lost.
Restart ==
    /\ Fault
    /\ batch' = {} /\ stage' = "idle" /\ todo' = {}
    /\ UNCHANGED <<chainVars, derived, attempts, held, quarantined, state, ledger,
                   history, overtaken>>

-----------------------------------------------------------------------------
Worker ==
    \/ Begin \/ AragonRow
    \/ InsertDirect \/ WriteLedger \/ ApplyState \/ FinishHandler
    \/ DrainRow \/ DeferRow \/ MetaFails

Next ==
    \/ Contracts \/ ArchiveRow \/ Worker
    \/ RowFails \/ RunFails \/ Restart

Spec == Init /\ [][Next]_vars

\* The pollers and the worker run on timers; the chain need not move.
FairSpec == Spec /\ WF_vars(ArchiveRow) /\ WF_vars(Worker)

-----------------------------------------------------------------------------
(* Properties.                                                             *)

\* The ledger's proposals whose rows are all applied: no archived row of
\* Dual Governance waits, and no handler is between two writes.
DgSettled ==
    /\ stage = "idle"
    /\ \A i \in Archived : log[i].src = "dual_governance" => i \in derived

Shown(d) == state[ledger[d].proposal] = Resolve(ledger[d])

\* ADR-0074: once a vote is enacted through Dual Governance the state of its
\* proposal is f(ledger status), which "reclassifies the Aragon layer's
\* premature executed" (proposal-repository.ts setStateFromDerivation).  Whatever
\* the order of rows and the failed writes, it is so of every proposal except
\* one whose ExecuteVote was applied after its submission, and one whose
\* cancellation was interrupted: cancelThrough returns nothing the second time.
UnifiedStateFollowsLedger ==
    DgSettled => \A d \in DgIds :
        \/ ledger[d] = NoEntry \/ d \in overtaken
        \/ ledger[d].status = "cancelled" /\ faults > 0
        \/ Shown(d)

\* A submission counts as direct only when its transaction enacts no vote,
\* however late the Aragon source is archived.  The gate compares blocks, so
\* an earlier Aragon log of the same block opens it too soon.
DirectMeansNoVote ==
    \A d \in DgIds : \A i, j \in DOMAIN log :
        (/\ ledger[d] # NoEntry /\ ledger[d].proposal = Direct(d)
         /\ log[i].typ = "ProposalSubmitted" /\ log[i].id = d
         /\ log[j].typ = "ExecuteVote" /\ log[j].tx = log[i].tx)
        => \E k \in 1..(j - 1) :
              log[k].src = "aragon_voting" /\ log[k].block = log[j].block

\* A proposal is shown as vetoed only when a rage quit followed its
\* submission on chain, although the two are dated by different clocks and
\* rows are applied late, twice or out of order.
VetoFollowsSubmission ==
    \A d \in DgIds :
        (ledger[d] # NoEntry /\ state[ledger[d].proposal] = "vetoed")
        => \E i, j \in DOMAIN log :
              /\ log[i].typ = "ProposalSubmitted" /\ log[i].id = d
              /\ log[j].typ = "RageQuit" /\ i < j

\* An execution whose row is applied is in the ledger, whether or not the
\* schedule before it was: only a cancellation after it can outrun it.
ExecutionReachesLedger ==
    DgSettled => \A i \in Archived :
        (log[i].typ = "ProposalExecuted" /\ ledger[log[i].id] # NoEntry)
        => \/ ledger[log[i].id].status = "executed"
           \/ \E j \in DOMAIN log : j > i /\ log[j].typ = "ProposalsCancelledTill"

\* A submission the Aragon archive comes to cover is correlated in the end,
\* or given up, unless its vote's creation was.
SubmissionSettled(i) ==
    (/\ i \in Archived /\ log[i].typ = "ProposalSubmitted"
     /\ \E j \in DOMAIN log :
           log[j].src = "aragon_voting" /\ log[j].block >= log[i].block)
    => i \in derived \cup quarantined

SubmissionsSettle ==
    <>[]((\E j \in quarantined : log[j].typ = "StartVote")
         \/ \A i \in Positions : SubmissionSettled(i))
=============================================================================
