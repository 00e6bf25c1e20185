-------------------------- MODULE CompoundGovernance --------------------------
(***************************************************************************)
(* Compound governors (alpha, bravo, oz): the proposal applier and the     *)
(* on-chain reconciler (ADR-0049), two writers of one proposal table.  The *)
(* governor's events carry queued, executed and canceled; that a vote has  *)
(* opened, was defeated or has expired in the timelock is silent, and the  *)
(* reconciler asks the contract for it at the confirmed head.              *)
(***************************************************************************)
EXTENDS DerivationQueue, ProposalTable

ASSUME CompoundAssumption == "compound_governor" \in DOMAIN ChainOf

VARIABLES
    onchain,   \* the governor's state() of each proposal at the confirmed head
    queuedAt,  \* proposals whose queued_at_block is in compound_proposal_meta
    checked,   \* proposals whose last_reconcile_check_block is within the gap
    tick,      \* the reconcile tick in flight: what it has read
    rows,      \* the stale proposals it has yet to look at
    writing,   \* the proposals it is about to correct, at most one
    early,     \* history: rows applied before an earlier row of their proposal
    reverted   \* history: proposals whose queued a reconciler's older active replaced

tableVars == <<state, queuedAt>>
reconcileVars == <<checked, tick, rows, writing>>
historyVars == <<early, reverted>>
vars == <<queueVars, tableVars, onchain, reconcileVars, historyVars>>

Codes == {"pending", "active", "canceled", "defeated", "succeeded", "queued",
          "expired", "executed", "none"}

Event == [src : {"compound_governor"}, id : Proposals,
          typ : {"ProposalCreated", "ProposalQueued", "ProposalExecuted", "ProposalCanceled"}]

Idle == [view |-> [p \in Proposals |-> "none"], state |-> [p \in Proposals |-> "none"],
         queuedAt |-> {}]

TypeOK ==
    /\ QueueTypeOK /\ log \in Seq(Event)
    /\ StateTypeOK
    /\ onchain \in [Proposals -> Codes]
    /\ queuedAt \subseteq {p \in Proposals : Exists(p)} /\ checked \subseteq Proposals
    /\ tick \in [view : [Proposals -> Codes], state : [Proposals -> States \cup {"none"}],
                 queuedAt : SUBSET Proposals]
    /\ rows \subseteq Proposals /\ writing \subseteq Proposals
    /\ early \subseteq derived /\ reverted \subseteq Proposals

Init ==
    /\ QueueInit /\ StateInit
    /\ onchain = [p \in Proposals |-> "none"]
    /\ queuedAt = {} /\ checked = {} /\ rows = {} /\ writing = {}
    /\ early = {} /\ reverted = {}
    /\ tick = Idle

-----------------------------------------------------------------------------
(* The governor contract.                                                  *)

Becomes(p, from, to) == onchain[p] \in from /\ onchain' = [onchain EXCEPT ![p] = to]

Logs(typ, p) == Emit(<< [src |-> "compound_governor", typ |-> typ, id |-> p] >>)

\* Bravo cancels in any state but executed.
Transact(p) ==
    /\ \/ Becomes(p, {"none"}, "pending") /\ Logs("ProposalCreated", p)
       \/ Becomes(p, {"succeeded"}, "queued") /\ Logs("ProposalQueued", p)
       \/ Becomes(p, {"queued"}, "executed") /\ Logs("ProposalExecuted", p)
       \/ /\ Becomes(p, Codes \ {"none", "executed", "canceled"}, "canceled")
          /\ Logs("ProposalCanceled", p)
    /\ UNCHANGED <<received, rowVars, faults, tableVars, reconcileVars, historyVars>>

TimePasses(p) ==
    /\ \/ Becomes(p, {"pending"}, "active")
       \/ Becomes(p, {"active"}, "defeated") \/ Becomes(p, {"active"}, "succeeded")
       \/ Becomes(p, {"queued"}, "expired")
    /\ UNCHANGED <<queueVars, tableVars, reconcileVars, historyVars>>

ArchiveRow ==
    /\ \E i \in DOMAIN log : Archive(i, 1)
    /\ UNCHANGED <<log, rowVars, faults, tableVars, onchain, reconcileVars, historyVars>>

-----------------------------------------------------------------------------
(* GovernorProjectionApplier.                                              *)

Row == log[First]

Begin ==
    /\ BeginTick
    /\ UNCHANGED <<log, received, derived, attempts, held, quarantined, faults,
                   tableVars, onchain, reconcileVars, historyVars>>

Target ==
    CASE Row.typ = "ProposalQueued" -> "queued"
      [] Row.typ = "ProposalExecuted" -> "executed"
      [] Row.typ = "ProposalCanceled" -> "canceled"

\* Mutant: a cancellation finds only what is not queued yet.
TransitionUnlessQueued(p) ==
    /\ Row.typ # "ProposalCreated"
    /\ IF Target = "canceled" /\ state[p] = "queued" THEN UNCHANGED state
       ELSE AdvanceState(p, Target)
    /\ queuedAt' = IF Target = "queued" /\ Advances(p, "queued")
                   THEN queuedAt \cup {p} ELSE queuedAt

\* A transition that finds no row in an allowed state is derived all the same.
Transition(p) ==
    /\ Row.typ # "ProposalCreated"
    /\ AdvanceState(p, Target)
    /\ queuedAt' = IF Target = "queued" /\ Advances(p, "queued")
                   THEN queuedAt \cup {p} ELSE queuedAt

Created(p) ==
    /\ Row.typ = "ProposalCreated"
    /\ InsertProposal(p, "pending")
    /\ UNCHANGED queuedAt

Skipped(i) == \E j \in Archived \ derived : j < i /\ log[j].id = log[i].id

\* One transaction with derived_at.
ApplyRow ==
    /\ batch # {}
    /\ Created(Row.id) \/ Transition(Row.id)
    /\ derived' = derived \cup {First} /\ batch' = batch \ {First}
    /\ early' = IF Skipped(First) THEN early \cup {First} ELSE early
    /\ UNCHANGED <<log, received, attempts, held, quarantined, faults, onchain,
                   reconcileVars, reverted>>

\* incrementAttemptCount alone: this applier has no dead letters.
Count(i) ==
    /\ attempts' = [attempts EXCEPT ![i] = IF @ < DlqThreshold THEN @ + 1 ELSE @]
    /\ UNCHANGED quarantined

\* Its payload is missing, or the transaction rolls back.
RowFails ==
    /\ batch # {} /\ Fault
    /\ Count(First)
    /\ batch' = batch \ {First}
    /\ UNCHANGED <<log, received, derived, held, tableVars, onchain, reconcileVars, historyVars>>

\* fetchPayloads throws.
RunFails ==
    /\ batch # {} /\ Fault /\ SkipRun
    /\ UNCHANGED <<log, received, derived, attempts, held, quarantined, tableVars,
                   onchain, reconcileVars, historyVars>>

-----------------------------------------------------------------------------
(* ReconcileDriver and CompoundStateReconciler.                            *)

\* A canceled proposal's deadlines count as passed: it is only reported.
Opened(p) == onchain[p] \notin {"none", "pending"}
Closed(p) == Opened(p) /\ onchain[p] # "active"
PastQueue(p) == onchain[p] \in {"queued", "expired", "executed", "canceled"}

\* Mutant: what is queued is left to its events.
StaleUnqueued(p) ==
    \/ state[p] \in {"pending", "active", "succeeded"} /\ Closed(p)
    \/ state[p] = "pending" /\ Opened(p)

\* findStaleForReconciliation
Stale(p) ==
    \/ state[p] \in {"pending", "active", "succeeded"} /\ Closed(p)
    \/ state[p] = "pending" /\ Opened(p)
    \/ state[p] = "queued" /\ (IF p \in queuedAt THEN PastQueue(p) ELSE Closed(p))

\* inFlight: one tick at a time.
BeginReconcile ==
    /\ rows = {} /\ writing = {}
    /\ rows' = {p \in Proposals \ checked : Stale(p)} /\ rows' # {}
    /\ tick' = [view |-> onchain, state |-> state, queuedAt |-> queuedAt]
    /\ UNCHANGED <<queueVars, tableVars, onchain, checked, writing, historyVars>>

\* Mutant: the contract's codes are off by one.
OnchainStateShifted(p) ==
    IF tick.view[p] = "succeeded" THEN "defeated" ELSE tick.view[p]

\* readOnchainState, mapGovernorStateCode
OnchainState(p) == tick.view[p]

\* What is not silent is a missed event, reported and left.
Corrects(p) ==
    /\ OnchainState(p) # tick.state[p]
    /\ \/ OnchainState(p) \in {"defeated", "active"}
       \/ OnchainState(p) = "expired" /\ p \in tick.queuedAt

\* The tick keeps nothing of what it has read once it is through.
Rest == tick' = IF rows' = {} /\ writing' = {} THEN Idle ELSE tick

\* state() is read at the tick's head and the check recorded; the timestamps
\* a correction needs are read after that.
CheckState ==
    /\ writing = {}
    /\ \E p \in rows :
          /\ rows' = rows \ {p}
          /\ checked' = checked \cup {p}
          /\ writing' = {q \in {p} : Corrects(q)}
    /\ Rest
    /\ UNCHANGED <<queueVars, tableVars, onchain, historyVars>>

\* Mutant: the states the tick may leave are not checked.
CorrectBlindly(p) == SetState(p, OnchainState(p))

\* reconcileState
Correct(p) ==
    ReconcileState(p, {"pending", "active", "succeeded", "queued"}, OnchainState(p))

WriteState ==
    /\ \E p \in writing : Correct(p)
    /\ writing' = {} /\ UNCHANGED <<rows, checked>>
    /\ Rest
    /\ reverted' = reverted \cup {p \in Proposals : state[p] = "queued" /\ state'[p] = "active"}
    /\ UNCHANGED <<queueVars, queuedAt, onchain, early>>

\* A call fails: before the check is recorded, or for good until the gap is over.
ReconcileFails ==
    /\ Fault
    /\ \/ writing # {} /\ writing' = {} /\ UNCHANGED rows
       \/ writing = {} /\ UNCHANGED writing /\ \E p \in rows : rows' = rows \ {p}
    /\ Rest
    /\ UNCHANGED <<log, received, rowVars, tableVars, onchain, checked, historyVars>>

\* recheckGapBlocks more blocks are confirmed.
GapPasses ==
    /\ checked # {} /\ rows = {} /\ writing = {}
    /\ checked' = {}
    /\ UNCHANGED <<queueVars, tableVars, onchain, tick, rows, writing, historyVars>>

Restart ==
    /\ Fault
    /\ batch' = {} /\ rows' = {} /\ writing' = {} /\ tick' = Idle
    /\ UNCHANGED <<log, received, derived, attempts, held, quarantined, tableVars,
                   onchain, checked, historyVars>>

-----------------------------------------------------------------------------
Contract == \E p \in Proposals : Transact(p) \/ TimePasses(p)
Worker == Begin \/ ApplyRow
Reconciler == BeginReconcile \/ CheckState \/ WriteState

Next ==
    \/ Contract \/ ArchiveRow \/ Worker \/ RowFails \/ RunFails
    \/ Reconciler \/ ReconcileFails \/ GapPasses \/ Restart

Spec == Init /\ [][Next]_vars

\* Timers and confirmed heads drive the indexer; the contract may stop.
FairSpec ==
    /\ Spec
    /\ WF_vars(ArchiveRow) /\ WF_vars(Worker) /\ WF_vars(Reconciler)
    /\ WF_vars(GapPasses)

-----------------------------------------------------------------------------
(* Properties.                                                             *)

\* What the table shows has been so on chain, though the reconciler writes
\* what it read earlier and beside the applier: only opening is outlived,
\* and a cancellation may come after the end that was shown.
ShownWasTrue ==
    \A p \in Proposals :
        /\ state[p] = "active" => Opened(p)
        /\ state[p] = "queued" => PastQueue(p)
        /\ state[p] \in {"executed", "canceled"} => onchain[p] = state[p]
        /\ state[p] \in {"defeated", "expired"} => onchain[p] \in {state[p], "canceled"}

Orderly(p) == \A i \in early : log[i].id # p

\* While each row of a proposal is applied after the earlier ones, no
\* transition is lost, neither to the guard of advanceState nor to a reconciler
\* that read the row before, but for one: reconcileState takes a queued row, so
\* the `active` of a tick that read before the proposal was queued replaces
\* `queued` (reverted).  A proposal once queued keeps its queued_at_block.
InOrderIsKept ==
    \A i \in {j \in derived : Orderly(log[j].id)} :
        LET p == log[i].id IN
        CASE log[i].typ = "ProposalCreated" -> Exists(p)
          [] log[i].typ = "ProposalQueued" ->
                /\ p \in queuedAt
                /\ \/ state[p] \in {"queued", "executed", "canceled", "expired"}
                   \/ state[p] = "active" /\ p \in reverted
          [] log[i].typ = "ProposalExecuted" -> state[p] = "executed"
          [] log[i].typ = "ProposalCanceled" ->
                state[p] \in {"canceled", "defeated", "expired"}

\* An end is final: no correction of a tick that read the row before, and no
\* late event, takes a proposal out of it.
Final == {"executed", "canceled", "defeated", "expired"}
EndsAreFinal ==
    [][\A p \in Proposals : state[p] \in Final => state'[p] = state[p]]_vars

\* Silent or not, the end a proposal comes to on chain is shown in the end,
\* after failed calls and restarts, unless a transition was applied early or
\* the governor canceled what the table shows as defeated or expired.
EndsAreShown ==
    <>[](\A p \in Proposals :
            (onchain[p] \in Final /\ Orderly(p))
            => \/ state[p] = onchain[p]
               \/ onchain[p] = "canceled" /\ state[p] \in {"defeated", "expired"})
=============================================================================
