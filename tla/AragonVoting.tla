----------------------------- MODULE AragonVoting -----------------------------
(***************************************************************************)
(* Lido's Aragon votes as the indexer sees them: the proposal applier, the *)
(* vote applier with replaced votes, the dead letters of both, the         *)
(* operator's retry and replay, and the reconciler that reads getVote for  *)
(* how a vote closed and for what its row is missing (ADR-0049).           *)
(***************************************************************************)
EXTENDS DerivationQueue, ProposalTable

CONSTANT MaxOps   \* bound: what the operator does

ASSUME OpsAssumption == MaxOps \in Nat
ASSUME AragonAssumption == "aragon_voting" \in DOMAIN ChainOf

VARIABLES
    votes,     \* the vote table
    stage,     \* "written": the vote in hand is in the vote table, not marked
    onchain,   \* getVote of each vote at the confirmed head
    actions,   \* proposals whose proposal_action rows are inserted
    pct,       \* proposals whose support_required_pct is filled
    checked,   \* proposals whose last_reconcile_check_block is within the gap
    tick,      \* what the reconcile tick in flight has read
    rows,      \* the proposals it has yet to look at
    at,        \* the one it is looking at, and the statement that comes next
    ops,
    early      \* history: rows applied before an earlier row of their proposal

Table == INSTANCE VoteTable WITH Ballots <- Positions

tableVars == <<state, votes>>
reconcileVars == <<actions, pct, checked, tick, rows, at>>
vars == <<queueVars, tableVars, stage, onchain, reconcileVars, ops, early>>

Event == [src : {"aragon_voting"}, id : Proposals,
          typ : {"StartVote", "CastVote", "ExecuteVote"}]

Phases == {"none", "open", "passed", "rejected", "executed"}

Idle == [view |-> [p \in Proposals |-> "none"], state |-> [p \in Proposals |-> "none"],
         pct |-> {}]

AtRest == [next |-> "none"]

TypeOK ==
    /\ QueueTypeOK
    /\ log \in Seq(Event)
    /\ StateTypeOK /\ Table!VoteTypeOK
    /\ stage \in {"idle", "written"} /\ (stage = "written" => batch # {})
    /\ onchain \in [Proposals -> Phases]
    /\ actions \subseteq Proposals /\ pct \subseteq Proposals /\ checked \subseteq Proposals
    /\ tick \in [view : [Proposals -> Phases], state : [Proposals -> States \cup {"none"}],
                 pct : SUBSET Proposals]
    /\ rows \subseteq Proposals
    /\ at \in {AtRest} \cup [p : Proposals, next : {"actions", "pct", "close"}]
    /\ ops \in 0..MaxOps
    /\ early \subseteq Positions

Init ==
    /\ QueueInit /\ StateInit /\ Table!VotesInit
    /\ stage = "idle"
    /\ onchain = [p \in Proposals |-> "none"]
    /\ actions = {} /\ pct = {} /\ checked = {}
    /\ tick = Idle /\ rows = {} /\ at = AtRest
    /\ ops = 0 /\ early = {}

-----------------------------------------------------------------------------
(* The voting contract.                                                    *)

Becomes(p, from, to) == onchain[p] = from /\ onchain' = [onchain EXCEPT ![p] = to]

Logs(typ, p) == Emit(<< [src |-> "aragon_voting", typ |-> typ, id |-> p] >>)

\* While it is open a voter may vote again; a passed vote can be enacted any
\* time later.  Of voters there is one: the rows of two do not meet.
Contract ==
    /\ \E p \in Proposals :
          \/ Becomes(p, "none", "open") /\ Logs("StartVote", p)
          \/ Becomes(p, "open", "open") /\ Logs("CastVote", p)
          \/ Becomes(p, "passed", "executed") /\ Logs("ExecuteVote", p)
          \/ /\ Becomes(p, "open", "passed") \/ Becomes(p, "open", "rejected")
             /\ UNCHANGED log
    /\ UNCHANGED <<received, rowVars, faults, tableVars, stage, reconcileVars, ops, early>>

ArchiveRow ==
    /\ \E i \in DOMAIN log : Archive(i, 1)
    /\ UNCHANGED <<log, rowVars, faults, tableVars, stage, onchain, reconcileVars, ops, early>>

-----------------------------------------------------------------------------
(* The appliers.                                                           *)

Row == log[First]

Begin ==
    /\ BeginTick
    /\ UNCHANGED <<log, received, derived, attempts, held, quarantined, faults, tableVars,
                   stage, onchain, reconcileVars, ops, early>>

MarkDerived == derived' = derived \cup {First} /\ batch' = batch \ {First}

Skipped(i) == \E j \in Archived \ derived : j < i /\ log[j].id = log[i].id

NoteOrder == early' = IF Skipped(First) THEN early \cup {First} ELSE early

\* AragonProposalProjectionApplier: one transaction with derived_at.
ApplyRow ==
    /\ batch # {}
    /\ \/ Row.typ = "StartVote" /\ InsertProposal(Row.id, "active")
       \/ Row.typ = "ExecuteVote" /\ AdvanceState(Row.id, "executed")
    /\ MarkDerived /\ NoteOrder
    /\ UNCHANGED <<log, received, attempts, held, quarantined, faults, votes, stage,
                   onchain, reconcileVars, ops>>

Rivals(p) == {i \in DOMAIN log : log[i].typ = "CastVote" /\ log[i].id = p}

\* Mutant: a row derived again is taken for a vote of its own.
InsertRowAlways ==
    LET current == Table!CurrentVote(Rivals(Row.id)) IN
    votes' = IF current = First
             THEN [votes EXCEPT ![First] = Table!SupersededAt(First, First)]
             ELSE Table!VoteRows(First, current)

\* A row that is the current one is left as it is.
InsertRow ==
    IF Table!CurrentVote(Rivals(Row.id)) = First THEN UNCHANGED votes
    ELSE Table!InsertVote(First, Rivals(Row.id))

\* AragonVoteProjectionApplier: the vote table first, derived_at after it,
\* in two databases.
WriteVote ==
    /\ batch # {} /\ stage = "idle"
    /\ Row.typ = "CastVote" /\ Exists(Row.id)
    /\ InsertRow
    /\ stage' = "written" /\ NoteOrder
    /\ UNCHANGED <<queueVars, state, onchain, reconcileVars, ops>>

MarkVote ==
    /\ stage = "written" /\ stage' = "idle"
    /\ MarkDerived
    /\ UNCHANGED <<log, received, attempts, held, quarantined, faults, tableVars, onchain,
                   reconcileVars, ops, early>>

\* Mutant: the row is marked although its write failed.
FailMarks == CountFailure(First) /\ MarkDerived

\* failAndMaybeDlq
Fail == CountFailure(First) /\ batch' = batch \ {First} /\ UNCHANGED derived

NoProposal ==
    /\ batch # {} /\ Row.typ = "CastVote" /\ ~Exists(Row.id)
    /\ Fail
    /\ UNCHANGED <<log, received, held, faults, tableVars, stage, onchain, reconcileVars,
                   ops, early>>

\* A statement fails: the transaction rolls back, or the vote table has the
\* row and archive_event does not say so.
RowFails ==
    /\ batch # {} /\ Fault
    /\ Fail /\ stage' = "idle"
    /\ UNCHANGED <<log, received, held, tableVars, onchain, reconcileVars, ops, early>>

\* fetchPayloads or the block timestamps throw.
RunFails ==
    /\ batch # {} /\ stage = "idle" /\ Fault /\ SkipRun
    /\ UNCHANGED <<log, received, derived, attempts, held, quarantined, tableVars, stage,
                   onchain, reconcileVars, ops, early>>

-----------------------------------------------------------------------------
(* The operator.                                                           *)

Operates == ops < MaxOps /\ ops' = ops + 1

\* dlq retry of a projection-stage letter
DlqRetry ==
    /\ Operates
    /\ \E i \in quarantined :
          /\ quarantined' = quarantined \ {i}
          /\ derived' = derived \ {i}
          /\ attempts' = [attempts EXCEPT ![i] = 0]
    /\ UNCHANGED <<log, received, held, batch, faults, tableVars, stage, onchain,
                   reconcileVars, early>>

\* derive replay: letters stay, and keep their rows from being derived.
Replay ==
    /\ Operates /\ derived # {}
    /\ derived' = {} /\ attempts' = [i \in Positions |-> 0]
    /\ UNCHANGED <<log, received, held, quarantined, batch, faults, tableVars, stage,
                   onchain, reconcileVars, early>>

-----------------------------------------------------------------------------
(* ReconcileDriver and AragonStateReconciler.                              *)

\* Mutant: a vote that is no longer active has nothing to be filled.
StaleActive(p) == state[p] = "active"

\* findStaleForReconciliation
Stale(p) == state[p] = "active" \/ (Exists(p) /\ p \notin pct)

BeginReconcile ==
    /\ rows = {} /\ at = AtRest
    /\ rows' = {p \in Proposals \ checked : Stale(p)} /\ rows' # {}
    /\ tick' = [view |-> onchain, state |-> state, pct |-> pct]
    /\ UNCHANGED <<queueVars, tableVars, stage, onchain, actions, pct, checked, at, ops, early>>

\* The tick keeps nothing of what it has read once it is through.
Rest == tick' = IF rows' = {} /\ at' = AtRest THEN Idle ELSE tick

\* An executed vote the row does not show is a missed event; an open one is
\* left; any other has closed one way or the other.
Closing(p) ==
    IF tick.view[p] = "open" \/ (tick.view[p] = "executed" /\ tick.state[p] # "executed")
    THEN AtRest ELSE [p |-> p, next |-> "close"]

\* getVote is read at the tick's head and the check recorded.
CheckVote ==
    /\ at = AtRest
    /\ \E p \in rows :
          /\ rows' = rows \ {p} /\ checked' = checked \cup {p}
          /\ at' = IF p \in tick.pct THEN Closing(p) ELSE [p |-> p, next |-> "actions"]
    /\ Rest
    /\ UNCHANGED <<queueVars, tableVars, stage, onchain, actions, pct, ops, early>>

\* insertActions, then fillSupportQuorum, which ends the enrichment.
Enrich ==
    \/ /\ at.next = "actions" /\ at' = [at EXCEPT !.next = "pct"]
       /\ actions' = actions \cup {at.p} /\ UNCHANGED pct
    \/ /\ at.next = "pct" /\ at' = Closing(at.p)
       /\ pct' = pct \cup {at.p} /\ UNCHANGED actions

EnrichRow ==
    /\ Enrich /\ UNCHANGED <<rows, checked>>
    /\ Rest
    /\ UNCHANGED <<queueVars, tableVars, stage, onchain, ops, early>>

\* isPassing
Closed(p) == IF tick.view[p] = "rejected" THEN "defeated" ELSE "succeeded"

\* Mutant: whatever the row has become meanwhile.
CorrectBlindly(p) == SetState(p, Closed(p))

\* reconcileState
Correct(p) == ReconcileState(p, {"active"}, Closed(p))

WriteState ==
    /\ at.next = "close" /\ at' = AtRest
    /\ Correct(at.p) /\ UNCHANGED <<rows, checked>>
    /\ Rest
    /\ UNCHANGED <<queueVars, votes, stage, onchain, actions, pct, ops, early>>

ReconcileFails ==
    /\ Fault
    /\ \/ at # AtRest /\ at' = AtRest /\ UNCHANGED rows
       \/ at = AtRest /\ UNCHANGED at /\ \E p \in rows : rows' = rows \ {p}
    /\ Rest
    /\ UNCHANGED <<log, received, rowVars, tableVars, stage, onchain, actions, pct, checked,
                   ops, early>>

\* recheckGapBlocks more blocks are confirmed.
GapPasses ==
    /\ checked # {} /\ rows = {} /\ at = AtRest
    /\ checked' = {}
    /\ UNCHANGED <<queueVars, tableVars, stage, onchain, actions, pct, tick, rows, at, ops,
                   early>>

Restart ==
    /\ Fault
    /\ batch' = {} /\ stage' = "idle" /\ rows' = {} /\ at' = AtRest /\ tick' = Idle
    /\ UNCHANGED <<log, received, derived, attempts, held, quarantined, tableVars, onchain,
                   actions, pct, checked, ops, early>>

-----------------------------------------------------------------------------
Worker == Begin \/ ApplyRow \/ WriteVote \/ MarkVote \/ NoProposal
Reconciler == BeginReconcile \/ CheckVote \/ EnrichRow \/ WriteState

Next ==
    \/ Contract \/ ArchiveRow \/ Worker \/ RowFails \/ RunFails
    \/ DlqRetry \/ Replay
    \/ Reconciler \/ ReconcileFails \/ GapPasses \/ Restart

Spec == Init /\ [][Next]_vars

\* Timers and confirmed heads drive the indexer; nobody else need act.
FairSpec ==
    /\ Spec
    /\ WF_vars(ArchiveRow) /\ WF_vars(Worker) /\ WF_vars(Reconciler)
    /\ WF_vars(GapPasses)

-----------------------------------------------------------------------------
(* Properties.                                                             *)

\* ADR-0021: one current vote per voter, the newest of those written,
\* whatever the order they are derived in and however often: after a failed
\* watermark, a late row, a retried letter or a replay.
CurrentIsNewest ==
    \A p \in Proposals : \A i \in Rivals(p) \cap Table!Written :
        votes[i] = Table!Current <=> \A j \in Rivals(p) \cap Table!Written : j <= i

\* Two databases and no transaction: a cast vote marked as derived is in the
\* vote table, and stays there.
DerivedVoteIsWritten ==
    \A i \in derived : log[i].typ = "CastVote" => i \in Table!Written

\* The tally ADR-0021 takes at any time counts the voter's last vote before
\* it, as long as rows are derived in order and once.
TallyAtAnyTime ==
    (early = {} /\ ops = 0) =>
        \A p \in Proposals : \A time \in Positions :
            LET cast == {i \in Rivals(p) \cap Table!Written : i <= time} IN
            Table!CountAt(time, Rivals(p)) = {i \in cast : \A j \in cast : j <= i}

\* The percentages say that a proposal's actions are in, though the pass
\* that fills them may stop between any two statements.
PctMeansActions == pct \subseteq actions

\* A reconciler that read the vote before its execution was derived does not
\* take the execution back.
ExecutedIsFinal ==
    [][\A p \in Proposals : state[p] = "executed" => state'[p] = "executed"]_vars

\* ADR-0049: after succeeded "execution arrives via the event path".  The
\* guard of advanceState does not let it in.
ExecutionIsShown ==
    early = {} =>
        \A i \in derived : log[i].typ = "ExecuteVote" => state[log[i].id] = "executed"

\* In the end every row is derived or dead-lettered, a proposal shows how its
\* vote closed, and it has its percentages and actions, even if it was executed before
\* the reconciler came to it.
Settles ==
    <>[](/\ Archived \subseteq derived \cup quarantined
         /\ \A p \in Proposals : Exists(p) =>
               /\ onchain[p] # "open" => state[p] # "active" \/ onchain[p] = "executed"
               /\ p \in pct \cap actions)
=============================================================================
