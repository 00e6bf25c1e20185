---------------------------- MODULE AaveStitching ----------------------------
(***************************************************************************)
(* Aave governance v3 (ADR-0065): one proposal spread over mainnet's       *)
(* Governance, the VotingMachine of one voting chain and the               *)
(* PayloadsController of a destination chain.  Each source is archived on  *)
(* its own, so a vote or a payload may be derived before the proposal or   *)
(* the declaration it belongs to: such a row is held and tried again.      *)
(* Proposals and payloads expire without an event: two reconcilers read    *)
(* that from the contracts and write it to the rows the appliers write.    *)
(* All votes are on one voting chain, as Aave's are, so the refusal of a   *)
(* vote from a second one (single_voting_chain_violation) does not arise.  *)
(***************************************************************************)
EXTENDS DerivationQueue, ProposalTable

VARIABLES
    governance,  \* the Governance contract's state of each proposal
    voting,      \* proposals whose vote the VotingMachine has started
    controller,  \* the PayloadsController's state of each proposal's payload
    bound,       \* proposals with a voting_chain_id
    votes,       \* the rows in vote_events_projection
    status,      \* aave_proposal_payload.status, "none" before the row exists
    actions,     \* payloads with their proposal_action rows
    titled,      \* proposals that show what their IPFS document has for a title
    letters,     \* proposals with a letter of stage aave_ipfs_title_fetch
    expiring,    \* rows a reconciler has read as expired and not written yet
    stage,       \* how far the handler of the first row of the batch is
    torn         \* history: proposals one of whose votes was interrupted unbound

chainVars == <<governance, voting, controller>>
proposalVars == <<state, bound, titled, letters>>
payloadVars == <<status, actions>>
vars == <<queueVars, chainVars, proposalVars, payloadVars, votes, expiring, stage, torn>>

Gov == "aave_governance_v3"
Machine == "aave_voting_machine"
Controller == "aave_payloads_controller"

ASSUME AaveAssumption == {Gov, Machine, Controller} \subseteq DOMAIN ChainOf

Event == [src : {Gov}, id : Proposals,
          typ : {"ProposalCreated", "VotingActivated", "ProposalQueued", "PayloadSent",
                 "ProposalExecuted", "ProposalFailed", "ProposalCanceled"}]
    \cup [src : {Machine}, id : Proposals, typ : {"ProposalVoteStarted", "VoteEmitted"}]
    \cup [src : {Controller}, id : Proposals,
          typ : {"PayloadCreated", "PayloadQueued", "PayloadExecuted", "PayloadCancelled"}]

GovernanceStates == {"none", "created", "active", "queued", "executed", "failed", "canceled",
                     "expired"}

PayloadStates == {"created", "queued", "executed", "cancelled", "expired"}

TypeOK ==
    /\ QueueTypeOK /\ log \in Seq(Event)
    /\ StateTypeOK
    /\ governance \in [Proposals -> GovernanceStates]
    /\ voting \subseteq Proposals
    /\ controller \in [Proposals -> PayloadStates \cup {"none"}]
    /\ bound \cup titled \cup letters \subseteq {p \in Proposals : Exists(p)}
    /\ votes \subseteq Positions
    /\ status \in [Proposals -> PayloadStates \cup {"declared", "none"}]
    /\ actions \subseteq {p \in Proposals : status[p] # "none"}
    /\ expiring \subseteq {"proposal", "payload"} \X Proposals
    /\ stage \in {"idle", "written", "bound", "fetch", "resolved"}
    /\ stage # "idle" => batch # {}
    /\ torn \subseteq Proposals

Init ==
    /\ QueueInit /\ StateInit
    /\ governance = [p \in Proposals |-> "none"] /\ voting = {}
    /\ controller = [p \in Proposals |-> "none"]
    /\ bound = {} /\ votes = {} /\ titled = {} /\ letters = {}
    /\ status = [p \in Proposals |-> "none"] /\ actions = {} /\ expiring = {}
    /\ stage = "idle" /\ torn = {}

-----------------------------------------------------------------------------
(* The contracts.  What a handler does depends on the rows derived before  *)
(* it and not on when the chains emitted the rest, and of what a contract  *)
(* answers a reconciler only `expired` has an effect, which is final: so   *)
(* the chains move first.                                                  *)

Events(src, typs, p) ==
    [k \in DOMAIN typs |-> [src |-> src, typ |-> typs[k], id |-> p]]

Governs(p, from, to, typs) ==
    /\ governance[p] \in from
    /\ governance' = [governance EXCEPT ![p] = to]
    /\ Emit(Events(Gov, typs, p))
    /\ UNCHANGED <<voting, controller>>

\* Voting and payload sources are indexed from an active_from_block.
EmitOrMiss(src, typ, p) ==
    \/ Emit(Events(src, <<typ>>, p))
    \/ (\A i \in DOMAIN log : log[i].src # src) /\ UNCHANGED log

Governance(p) ==
    \/ Governs(p, {"none"}, "created", <<"ProposalCreated">>)
    \/ Governs(p, {"created"}, "active", <<"VotingActivated">>)
    \/ p \in voting /\ Governs(p, {"active"}, "queued", <<"ProposalQueued">>)
    \/ p \in voting /\ Governs(p, {"active"}, "failed", <<"ProposalFailed">>)
    \/ Governs(p, {"queued"}, "executed", <<"PayloadSent", "ProposalExecuted">>)
    \/ Governs(p, {"created", "active", "queued"}, "canceled", <<"ProposalCanceled">>)

\* Of votes there is one: a second one can only bind what the first has not.
VotingMachine(p) ==
    /\ \/ /\ governance[p] = "active" /\ p \notin voting
          /\ voting' = voting \cup {p}
          /\ EmitOrMiss(Machine, "ProposalVoteStarted", p)
       \/ /\ p \in voting /\ governance[p] = "active" /\ UNCHANGED voting
          /\ \A i \in DOMAIN log : log[i].typ # "VoteEmitted"
          /\ Emit(Events(Machine, <<"VoteEmitted">>, p))
    /\ UNCHANGED <<governance, controller>>

Moves(p, from, to, typ) ==
    /\ controller[p] \in from
    /\ controller' = [controller EXCEPT ![p] = to]
    /\ EmitOrMiss(Controller, typ, p)
    /\ UNCHANGED <<governance, voting>>

\* A payload is created before the proposal that names it.  That of an expired
\* proposal is never declared, and one row that waits for it is enough.
PayloadsController(p) ==
    /\ governance[p] # "expired"
    /\ \/ governance[p] = "none" /\ Moves(p, {"none"}, "created", "PayloadCreated")
       \/ governance[p] = "executed" /\ Moves(p, {"created"}, "queued", "PayloadQueued")
       \/ Moves(p, {"queued"}, "executed", "PayloadExecuted")
       \/ Moves(p, {"created", "queued"}, "cancelled", "PayloadCancelled")

\* What is open for too long is expired, and no event tells.  A payload is shown
\* only once its proposal is executed, so that of others need not expire.
Expiry(p) ==
    /\ \/ /\ governance[p] \in {"created", "active", "queued"} /\ controller[p] # "cancelled"
          /\ governance' = [governance EXCEPT ![p] = "expired"] /\ UNCHANGED controller
       \/ /\ governance[p] = "executed" /\ controller[p] \in {"created", "queued"}
          /\ controller' = [controller EXCEPT ![p] = "expired"] /\ UNCHANGED governance
    /\ UNCHANGED <<log, voting>>

Contracts ==
    /\ Archived = {}
    /\ \E p \in Proposals :
          Governance(p) \/ VotingMachine(p) \/ PayloadsController(p) \/ Expiry(p)
    /\ UNCHANGED <<received, rowVars, faults, proposalVars, payloadVars, votes, expiring, stage,
                   torn>>

\* The log is full, or the proposals have ended before it could be.
Emitted ==
    \/ Len(log) = MaxLog
    \/ \A p \in Proposals : governance[p] \in {"canceled", "expired"}

\* No handler reads the archive, so it is enough to look between ticks.  A
\* shorter log is a longer one whose last rows are not archived yet.
ArchiveRow ==
    /\ batch = {} /\ Emitted
    /\ \E i \in DOMAIN log : Archive(i, 1)
    /\ UNCHANGED <<log, rowVars, faults, chainVars, proposalVars, payloadVars, votes, expiring,
                   stage, torn>>

-----------------------------------------------------------------------------
(* A tick.                                                                 *)

Row == log[First]
At(src, at) == batch # {} /\ stage = at /\ Row.src = src

queueFixed == <<log, received, quarantined, faults, chainVars, expiring>>

Begin ==
    /\ BeginTick
    /\ UNCHANGED <<queueFixed, derived, attempts, held, proposalVars, payloadVars, votes,
                   stage, torn>>

MarkDerived == derived' = derived \cup {First} /\ batch' = batch \ {First}

-----------------------------------------------------------------------------
(* AaveGovernanceProjectionApplier: one transaction with derived_at.       *)

Target ==
    CASE Row.typ = "VotingActivated" -> "active"
      [] Row.typ = "ProposalQueued" -> "queued"
      [] Row.typ = "ProposalExecuted" -> "executed"
      [] Row.typ = "ProposalCanceled" -> "canceled"
      [] Row.typ = "ProposalFailed" -> "defeated"

\* The letter is written with the proposal; the title is fetched after that.
ApplyCreated ==
    /\ At(Gov, "idle") /\ Row.typ = "ProposalCreated"
    /\ InsertProposal(Row.id, "pending")
    /\ derived' = derived \cup {First}
    /\ IF Exists(Row.id)
       THEN batch' = batch \ {First} /\ UNCHANGED <<letters, stage>>
       ELSE letters' = letters \cup {Row.id} /\ stage' = "fetch" /\ UNCHANGED batch
    /\ UNCHANGED <<queueFixed, attempts, held, bound, titled, payloadVars, votes, torn>>

\* applyNonCreateProjection, and insertDeclaredPayload for PayloadSent
ApplyTransition ==
    /\ At(Gov, "idle") /\ Row.typ # "ProposalCreated" /\ Exists(Row.id)
    /\ IF Row.typ = "PayloadSent"
       THEN /\ status' = IF status[Row.id] = "none"
                         THEN [status EXCEPT ![Row.id] = "declared"] ELSE status
            /\ UNCHANGED state
       ELSE AdvanceState(Row.id, Target) /\ UNCHANGED status
    /\ MarkDerived
    /\ UNCHANGED <<queueFixed, attempts, held, bound, titled, letters, actions, votes, stage,
                   torn>>

\* fail: the attempts of a governance row are counted, but nothing reads them
\* and there are no dead letters.
NoProposal ==
    /\ At(Gov, "idle") /\ Row.typ # "ProposalCreated" /\ ~Exists(Row.id)
    /\ batch' = batch \ {First}
    /\ UNCHANGED <<queueFixed, derived, attempts, held, proposalVars, payloadVars, votes, stage, torn>>

Enrich(title, letter, next) ==
    /\ titled' = IF title THEN titled \cup {Row.id} ELSE titled
    /\ letters' = IF letter THEN letters \ {Row.id} ELSE letters
    /\ stage' = next
    /\ batch' = IF next = "idle" THEN batch \ {First} ELSE batch

\* Mutant: the letter is resolved before the title is written.
HandleIpfsEnrichmentLetterFirst ==
    \/ stage = "fetch" /\ Fault /\ Enrich(FALSE, FALSE, "idle")
    \/ UNCHANGED faults /\ stage = "fetch" /\ Enrich(FALSE, TRUE, "resolved")
    \/ UNCHANGED faults /\ stage = "resolved" /\ Enrich(TRUE, FALSE, "idle")

\* The gateway does not answer, or the title is written and then the letter
\* resolved.
HandleIpfsEnrichment ==
    \/ stage = "fetch" /\ Fault /\ Enrich(FALSE, FALSE, "idle")
    \/ UNCHANGED faults /\ stage = "fetch" /\ Enrich(TRUE, FALSE, "resolved")
    \/ UNCHANGED faults /\ stage = "resolved" /\ Enrich(FALSE, TRUE, "idle")

FetchTitle ==
    /\ HandleIpfsEnrichment
    /\ UNCHANGED <<log, received, quarantined, chainVars, derived, attempts, held, state, bound,
                   payloadVars, votes, expiring, torn>>

-----------------------------------------------------------------------------
(* Holding.                                                                *)

\* Mutant: the row stays at the head of the queue.
HoldSpins == batch' = batch \ {First} /\ UNCHANGED <<held, attempts>>
\* markHeld
Hold == held' = held \cup {First} /\ batch' = batch \ {First} /\ UNCHANGED attempts

\* A hold outlasts the ticks it takes to derive what is derivable meanwhile.
HoldElapses(due) ==
    /\ batch = {} /\ Derivable = {} /\ due # {}
    /\ held' = held \ due
    /\ UNCHANGED <<queueFixed, derived, attempts, batch, proposalVars, payloadVars, votes,
                   stage, torn>>

-----------------------------------------------------------------------------
(* AaveVoteProjectionApplier: the vote table, the binding and derived_at   *)
(* are written one after the other.                                        *)

HoldVote ==
    /\ At(Machine, "idle") /\ ~Exists(Row.id)
    /\ Hold
    /\ UNCHANGED <<queueFixed, derived, proposalVars, payloadVars, votes, stage, torn>>

\* Mutant: only the start of the vote binds the proposal.
NextUnbound == "bound"

\* setVotingChainBinding comes next.
NextAfterWrite == "written"

\* A voter votes once, so a current vote is the row's own: it is there from a
\* try that did not get to derived_at.
WriteVote ==
    /\ At(Machine, "idle") /\ Row.typ = "VoteEmitted" /\ Exists(Row.id)
    /\ IF First \in votes THEN MarkDerived /\ UNCHANGED <<votes, stage>>
       ELSE votes' = votes \cup {First} /\ stage' = NextAfterWrite /\ UNCHANGED <<derived, batch>>
    /\ UNCHANGED <<queueFixed, attempts, held, proposalVars, payloadVars, torn>>

\* setVotingChainBinding, where voting_chain_id is null.
Bind ==
    /\ \/ At(Machine, "written")
       \/ At(Machine, "idle") /\ Row.typ = "ProposalVoteStarted" /\ Exists(Row.id)
    /\ bound' = bound \cup {Row.id} /\ stage' = "bound"
    /\ UNCHANGED <<queueFixed, derived, attempts, held, batch, state, titled, letters,
                   payloadVars, votes, torn>>

MarkVote ==
    /\ stage = "bound" /\ stage' = "idle"
    /\ MarkDerived
    /\ UNCHANGED <<queueFixed, attempts, held, proposalVars, payloadVars, votes, torn>>

-----------------------------------------------------------------------------
(* AavePayloadStitchApplier.                                               *)

\* findDeclaredPayload
Declared(p) == status[p] # "none"

HoldPayload ==
    /\ At(Controller, "idle") /\ ~Declared(Row.id)
    /\ Hold
    /\ UNCHANGED <<queueFixed, derived, proposalVars, payloadVars, votes, stage, torn>>

PayloadStatus ==
    CASE Row.typ = "PayloadCreated" -> "created"
      [] Row.typ = "PayloadQueued" -> "queued"
      [] Row.typ = "PayloadExecuted" -> "executed"
      [] Row.typ = "PayloadCancelled" -> "cancelled"

\* Mutant: an execution takes a queued payload.
StatusFromQueued(target) ==
    CASE target = "created" -> {"declared"}
      [] target = "queued" -> {"declared", "created"}
      [] target = "executed" -> {"queued"}
      [] target = "cancelled" -> {"declared", "created", "queued"}

\* statusTransitionFor
StatusFrom(target) ==
    CASE target = "created" -> {"declared"}
      [] target = "queued" -> {"declared", "created"}
      [] target \in {"executed", "cancelled"} -> {"declared", "created", "queued"}

InsertActions ==
    actions' = IF Row.typ = "PayloadCreated" THEN actions \cup {Row.id} ELSE actions

\* advancePayloadStatus, insertActions and derived_at commit together.
StitchPayload ==
    /\ At(Controller, "idle") /\ Declared(Row.id)
    /\ status' = IF status[Row.id] \in StatusFrom(PayloadStatus)
                 THEN [status EXCEPT ![Row.id] = PayloadStatus] ELSE status
    /\ InsertActions
    /\ MarkDerived
    /\ UNCHANGED <<queueFixed, attempts, held, proposalVars, votes, stage, torn>>

-----------------------------------------------------------------------------
(* AaveGovernanceStateReconciler and AavePayloadStateReconciler: a driver  *)
(* each, one stale row at a time.  last_reconcile_check_block only delays  *)
(* the next look at a row.                                                 *)

OpenStates == {"pending", "active", "queued"}
OpenStatuses == {"created", "queued"}

Reading(kind) == \E p \in Proposals : <<kind, p>> \in expiring

\* findStaleForReconciliation, and the state the contract answers.
ReadProposal(p) ==
    /\ ~Reading("proposal")
    /\ state[p] \in OpenStates /\ governance[p] = "expired"
    /\ expiring' = expiring \cup {<<"proposal", p>>}
    /\ UNCHANGED <<state, status>>

ReadPayload(p) ==
    /\ ~Reading("payload")
    /\ status[p] \in OpenStatuses /\ controller[p] = "expired"
    /\ expiring' = expiring \cup {<<"payload", p>>}
    /\ UNCHANGED <<state, status>>

\* reconcileState
ExpireProposal(p) ==
    /\ <<"proposal", p>> \in expiring
    /\ expiring' = expiring \ {<<"proposal", p>>}
    /\ ReconcileState(p, OpenStates, "expired") /\ UNCHANGED status

\* expirePayload
ExpirePayload(p) ==
    /\ <<"payload", p>> \in expiring
    /\ expiring' = expiring \ {<<"payload", p>>}
    /\ status' = IF status[p] \in OpenStatuses THEN [status EXCEPT ![p] = "expired"] ELSE status
    /\ UNCHANGED state

Reconcile ==
    /\ \E p \in Proposals :
          ReadProposal(p) \/ ReadPayload(p) \/ ExpireProposal(p) \/ ExpirePayload(p)
    /\ UNCHANGED <<queueVars, chainVars, bound, titled, letters, actions, votes, stage, torn>>

\* The expiration time, a block or the write fails after the state was read.
ReconcileFails ==
    /\ Fault
    /\ \E item \in expiring : expiring' = expiring \ {item}
    /\ UNCHANGED <<log, received, rowVars, chainVars, proposalVars, payloadVars, votes, stage,
                   torn>>

-----------------------------------------------------------------------------
(* Failures.                                                               *)

\* A vote that is in the table and has bound nothing yet.
Tear == torn' = IF stage = "written" THEN torn \cup {Row.id} ELSE torn

\* A statement of the handler fails.  Governance rows have no dead letters.
RowFails ==
    /\ batch # {} /\ Fault
    /\ IF Row.src = Gov THEN UNCHANGED <<attempts, quarantined>> ELSE CountFailure(First)
    /\ batch' = batch \ {First} /\ stage' = "idle" /\ Tear
    /\ UNCHANGED <<log, received, derived, held, chainVars, proposalVars, payloadVars, votes,
                   expiring>>

\* fetchPayloads or the block timestamps throw.
RunFails ==
    /\ batch # {} /\ stage = "idle" /\ Fault /\ SkipRun
    /\ UNCHANGED <<log, received, derived, attempts, held, quarantined, chainVars,
                   proposalVars, payloadVars, votes, expiring, stage, torn>>

\* The indexer restarts: the ticks in flight are lost.
Restart ==
    /\ batch # {} \/ expiring # {}
    /\ Fault
    /\ batch' = {} /\ stage' = "idle" /\ expiring' = {} /\ Tear
    /\ UNCHANGED <<log, received, derived, attempts, held, quarantined, chainVars,
                   proposalVars, payloadVars, votes>>

-----------------------------------------------------------------------------
Handler ==
    \/ ApplyCreated \/ ApplyTransition \/ NoProposal \/ FetchTitle
    \/ HoldVote \/ WriteVote \/ Bind \/ MarkVote
    \/ HoldPayload \/ StitchPayload

Next ==
    \/ Contracts \/ ArchiveRow
    \/ Begin \/ Handler
    \/ \E due \in SUBSET held : HoldElapses(due)
    \/ Reconcile
    \/ RowFails \/ RunFails \/ ReconcileFails \/ Restart

Spec == Init /\ [][Next]_vars

\* Timers drive poller, worker and reconcilers, and every hold lapses.  The poller
\* does not wait for the worker: that ArchiveRow is between ticks is the model's.
FairSpec ==
    /\ Spec
    /\ SF_vars(ArchiveRow) /\ WF_vars(Begin) /\ WF_vars(Handler)
    /\ SF_vars(HoldElapses(held))
    /\ WF_vars(Reconcile)

-----------------------------------------------------------------------------
(* Properties.                                                             *)

Derived(p, typ) == \E i \in derived : log[i].id = p /\ log[i].typ = typ

Ended(p) ==
    \E typ \in {"ProposalExecuted", "ProposalCanceled", "ProposalFailed"} : Derived(p, typ)

Furthest(p) ==
    IF Derived(p, "ProposalQueued") THEN "queued"
    ELSE IF Derived(p, "VotingActivated") THEN "active"
    ELSE IF Exists(p) THEN "pending" ELSE "none"

\* A proposal shows the furthest of its derived transitions, in whatever
\* order failures and retries have had them applied.  The reconciler alone
\* may take it further, to the expired its contract has ended in: no derived
\* end is overwritten, and nothing opens again what has expired.
StateIsFurthest ==
    \A p \in Proposals :
        /\ Exists(p) <=> Derived(p, "ProposalCreated")
        /\ Derived(p, "ProposalExecuted") => state[p] = "executed"
        /\ Derived(p, "ProposalCanceled") => state[p] = "canceled"
        /\ Derived(p, "ProposalFailed") => state[p] = "defeated"
        /\ ~Ended(p) => \/ state[p] = Furthest(p)
                        \/ state[p] = "expired" /\ governance[p] = "expired"

Settled(p) == \E typ \in {"PayloadExecuted", "PayloadCancelled"} : Derived(p, typ)

FurthestStatus(p) ==
    IF Derived(p, "PayloadQueued") THEN "queued"
    ELSE IF Derived(p, "PayloadCreated") THEN "created"
    ELSE IF Declared(p) THEN "declared" ELSE "none"

\* So does a payload, although its rows are held and come back out of order,
\* its first ones may never have been indexed, and its declaration is derived
\* from another chain's log; what its controller has let expire may show that
\* instead, once it was more than declared.  Its actions are in once its
\* creation is derived, be it after its execution or its expiry.
PayloadIsFurthest ==
    \A p \in Proposals :
        /\ Declared(p) <=> Derived(p, "PayloadSent")
        /\ Derived(p, "PayloadExecuted") => status[p] = "executed"
        /\ Derived(p, "PayloadCancelled") => status[p] = "cancelled"
        /\ ~Settled(p) =>
              \/ status[p] = FurthestStatus(p)
              \/ /\ status[p] = "expired" /\ controller[p] = "expired"
                 /\ FurthestStatus(p) \in {"created", "queued"}
        /\ Derived(p, "PayloadCreated") => p \in actions

\* ADR-0065: waiting for another chain "does not increment DLQ counters".  A
\* vote's or a payload's attempts, and its dead letter, come from failed
\* calls only, however long and often it was held.
HoldsAreNotFailures ==
    \A i \in DOMAIN log : log[i].src # Gov =>
        /\ attempts[i] <= faults
        /\ i \in quarantined => faults >= DlqThreshold

\* ADR-0065: a derived vote has bound its proposal to the voting chain, even
\* if the vote's start was never indexed, unless the handler was interrupted
\* between the vote table and the binding.
VotedIsBound ==
    \A p \in Proposals : Derived(p, "VoteEmitted") => p \in bound \/ p \in torn

\* A proposal that still shows its placeholder title has a letter by which
\* `dlq retry` can fetch the title, wherever the enrichment was interrupted.
TitleOrLetter == \A p \in Proposals : Exists(p) => p \in titled \/ p \in letters

Waits(i) ==
    /\ log[i].src = Controller
    /\ \A j \in Archived : log[j].typ = "PayloadSent" => log[j].id # log[i].id

\* What is still shown as open has not expired on its chain.
NoneOverdue ==
    \A p \in Proposals :
        /\ governance[p] = "expired" => state[p] \notin OpenStates
        /\ controller[p] = "expired" => status[p] \notin OpenStatuses

\* Held rows do not keep the queue from what they wait for: in the end all
\* that is archived is derived or dead-lettered, but for the rows of a payload
\* that no executed proposal has declared.  What has expired without an event
\* is shown as expired in the end, whenever its rows were derived.
Stitched ==
    <>[](/\ \A i \in Archived : i \in derived \cup quarantined \/ Waits(i)
         /\ NoneOverdue)
=============================================================================
