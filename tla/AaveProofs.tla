------------------------------ MODULE AaveProofs ------------------------------
(***************************************************************************)
(* Proofs about AaveStitching, for every set of proposals, every log of    *)
(* the three sources, and every batch, threshold and number of faults.     *)
(***************************************************************************)
EXTENDS AaveStitching, DerivationQueueProofs

USE QueueAssumption, AaveAssumption

-----------------------------------------------------------------------------
(* Types.                                                                  *)

Shape == QueueShape /\ TypeOK

LEMMA ShapeInit == Init => Shape
<1> SUFFICES ASSUME Init PROVE Shape
  OBVIOUS
<1>1. QueueShape
  BY QueueShapeInit DEF Init
<1>2. log \in Seq(Event)
  BY DEF Init, QueueInit
<1> QED
  BY <1>1, <1>2
  DEF Init, StateInit, Shape, TypeOK, QueueShape, StateTypeOK, States, GovernanceStates

\* The row that is applied is one of the log.
LEMMA RowIsLogged ==
    ASSUME Shape, batch # {}
    PROVE  First \in batch /\ First \in 1..Len(log) /\ First \in Positions /\ Row \in Event
<1>1. batch \subseteq Positions /\ batch \subseteq 1..Len(log)
  BY DEF Shape, QueueShape, QueueTypeOK, Archived, Positions
<1>2. \A i \in batch : log[i] \in Event
  BY <1>1 DEF Shape, TypeOK
<1>3. \A i \in batch : log[i].src \in DOMAIN ChainOf
  BY <1>2 DEF Event, AaveAssumption
<1>4. First \in batch
  BY <1>1, <1>3, FirstIsFirst
<1> QED
  BY <1>1, <1>2, <1>4 DEF Row

\* What the row in hand has written so far.
InHand ==
    /\ stage # "idle" => Exists(Row.id)
    /\ stage \in {"written", "bound"} => Row.src = Machine
    /\ stage = "bound" => Row.id \in bound
    /\ stage = "resolved" => Row.id \in titled

\* A proposal's transitions leave its contracts in states of their own.
Fits(p, typ) ==
    /\ typ = "ProposalQueued" => governance[p] \in {"queued", "executed", "canceled", "expired"}
    /\ typ = "ProposalExecuted" => governance[p] = "executed"
    /\ typ = "ProposalFailed" => governance[p] = "failed"
    /\ typ = "ProposalCanceled" => governance[p] = "canceled"
    /\ typ = "PayloadExecuted" => controller[p] = "executed"
    /\ typ = "PayloadCancelled" => controller[p] = "cancelled"

\* What a reconciler has in hand has expired for good.
Moved ==
    /\ \A i \in 1..Len(log) : Fits(log[i].id, log[i].typ)
    /\ \A p \in Proposals :
          /\ <<"proposal", p>> \in expiring => governance[p] = "expired"
          /\ <<"payload", p>> \in expiring => controller[p] = "expired"

LEMMA EventsAppend ==
    ASSUME Shape, NEW src, NEW typs, NEW n \in Nat, NEW p \in Proposals,
           DOMAIN typs = 1..n,
           \A k \in 1..n : [src |-> src, typ |-> typs[k], id |-> p] \in Event,
           Emit(Events(src, typs, p))
    PROVE  /\ log' \in Seq(Event) /\ Len(log) \in Nat /\ Len(log') = Len(log) + n
           /\ Len(log') <= MaxLog
           /\ \A i \in 1..Len(log) : log'[i] = log[i]
           /\ \A k \in 1..n : log'[Len(log) + k] = [src |-> src, typ |-> typs[k], id |-> p]
<1> DEFINE events == Events(src, typs, p)
<1>1. /\ events = [k \in 1..n |-> [src |-> src, typ |-> typs[k], id |-> p]]
      /\ log \in Seq(Event) /\ Len(log) \in Nat
  BY DEF Events, Shape, TypeOK
<1>2. events \in Seq(Event) /\ Len(events) = n
  BY <1>1
<1>3. \A k \in 1..n : events[k] = [src |-> src, typ |-> typs[k], id |-> p]
  BY <1>1
<1> HIDE DEF events
<1>4. /\ log' \in Seq(Event) /\ Len(log') = Len(log) + n /\ Len(log') <= MaxLog
      /\ \A i \in 1..Len(log) : log'[i] = log[i]
      /\ \A k \in 1..n : log'[Len(log) + k] = events[k]
  <2>1. Emit(events)
    BY DEF events
  <2> QED
    BY <1>1, <1>2, <2>1, EmitAppends
<1> QED
  BY <1>1, <1>3, <1>4

\* What a contract emits fits the state it moves to, and goes on to.
LEMMA ContractEmits ==
    ASSUME Shape, NEW p \in Proposals,
           Governance(p) \/ VotingMachine(p) \/ PayloadsController(p) \/ Expiry(p)
    PROVE  \/ log' = log
           \/ \E src \in {Gov, Machine, Controller}, n \in {1, 2} : \E typs :
                 /\ DOMAIN typs = 1..n /\ Emit(Events(src, typs, p))
                 /\ \A k \in 1..n : /\ [src |-> src, typ |-> typs[k], id |-> p] \in Event
                                   /\ Fits(p, typs[k])'
<1> DEFINE Emits(src, typs, n) ==
              /\ DOMAIN typs = 1..n /\ Emit(Events(src, typs, p))
              /\ \A k \in 1..n : /\ [src |-> src, typ |-> typs[k], id |-> p] \in Event
                                /\ Fits(p, typs[k])'
<1>1. governance \in [Proposals -> GovernanceStates]
      /\ controller \in [Proposals -> PayloadStates \cup {"none"}]
  BY DEF Shape, TypeOK
<1>2. ASSUME NEW src \in {Gov, Machine, Controller}, NEW typ,
             [src |-> src, typ |-> typ, id |-> p] \in Event,
             Emit(Events(src, <<typ>>, p)), Fits(p, typ)'
      PROVE  \E n \in {1, 2} : \E typs : Emits(src, typs, n)
  <2>1. DOMAIN <<typ>> = 1..1 /\ \A k \in 1..1 : k = 1 /\ <<typ>>[k] = typ
    OBVIOUS
  <2>2. Emits(src, <<typ>>, 1)
    BY <1>2, <2>1
  <2> HIDE DEF Emits
  <2> QED
    BY <2>2
<1>3. ASSUME Governance(p)
      PROVE  \E n \in {1, 2} : \E typs : Emits(Gov, typs, n)
  <2>1. ASSUME NEW from, NEW to, NEW typ, Governs(p, from, to, <<typ>>),
               [src |-> Gov, typ |-> typ, id |-> p] \in Event,
               typ \notin {"PayloadExecuted", "PayloadCancelled"},
               /\ typ = "ProposalQueued" => to \in {"queued", "executed", "canceled", "expired"}
               /\ typ = "ProposalExecuted" => to = "executed"
               /\ typ = "ProposalFailed" => to = "failed"
               /\ typ = "ProposalCanceled" => to = "canceled"
        PROVE  \E n \in {1, 2} : \E typs : Emits(Gov, typs, n)
    <3>1. Fits(p, typ)'
      BY <1>1, <2>1 DEF Governs, Fits
    <3> HIDE DEF Emits
    <3> QED
      BY <1>2, <2>1, <3>1 DEF Governs
  <2>2. CASE Governs(p, {"queued"}, "executed", <<"PayloadSent", "ProposalExecuted">>)
    <3> DEFINE typs == <<"PayloadSent", "ProposalExecuted">>
    <3>1. DOMAIN typs = 1..2 /\ typs[1] = "PayloadSent" /\ typs[2] = "ProposalExecuted"
      OBVIOUS
    <3>2. Emit(Events(Gov, typs, p)) /\ governance'[p] = "executed"
      BY <1>1, <2>2 DEF Governs
    <3> HIDE DEF typs
    <3>3. \A k \in 1..2 : k = 1 \/ k = 2
      OBVIOUS
    <3>4. Emits(Gov, typs, 2)
      BY <3>1, <3>2, <3>3 DEF Event, Fits
    <3> HIDE DEF Emits
    <3> QED
      BY <3>4
  <2> HIDE DEF Emits
  <2>3. \A typ \in {"ProposalCreated", "VotingActivated", "ProposalQueued", "ProposalFailed",
                   "ProposalCanceled"} : [src |-> Gov, typ |-> typ, id |-> p] \in Event
    BY DEF Event
  <2> QED
    BY <1>3, <2>1, <2>2, <2>3 DEF Governance
<1>4. ASSUME VotingMachine(p)
      PROVE  log' = log \/ \E n \in {1, 2} : \E typs : Emits(Machine, typs, n)
  <2>1. \A typ \in {"ProposalVoteStarted", "VoteEmitted"} :
            [src |-> Machine, typ |-> typ, id |-> p] \in Event /\ Fits(p, typ)'
    BY DEF Event, Fits
  <2> HIDE DEF Emits
  <2> QED
    BY <1>2, <1>4, <2>1 DEF VotingMachine, EmitOrMiss
<1>5. ASSUME PayloadsController(p)
      PROVE  log' = log \/ \E n \in {1, 2} : \E typs : Emits(Controller, typs, n)
  <2>1. ASSUME NEW from, NEW to, NEW typ, Moves(p, from, to, typ),
               [src |-> Controller, typ |-> typ, id |-> p] \in Event,
               typ \in {"PayloadCreated", "PayloadQueued", "PayloadExecuted", "PayloadCancelled"},
               typ = "PayloadExecuted" => to = "executed",
               typ = "PayloadCancelled" => to = "cancelled"
        PROVE  log' = log \/ \E n \in {1, 2} : \E typs : Emits(Controller, typs, n)
    <3>1. Fits(p, typ)'
      BY <1>1, <2>1 DEF Moves, Fits
    <3> HIDE DEF Emits
    <3> QED
      BY <1>2, <2>1, <3>1 DEF Moves, EmitOrMiss
  <2>2. \A typ \in {"PayloadCreated", "PayloadQueued", "PayloadExecuted", "PayloadCancelled"} :
            [src |-> Controller, typ |-> typ, id |-> p] \in Event
    BY DEF Event
  <2> HIDE DEF Emits
  <2> QED
    BY <1>5, <2>1, <2>2 DEF PayloadsController
<1> HIDE DEF Emits
<1>6. log' = log \/ \E src \in {Gov, Machine, Controller}, n \in {1, 2} : \E typs : Emits(src, typs, n)
  BY <1>3, <1>4, <1>5 DEF Expiry
<1> QED
  BY <1>6, Zenon DEF Emits

LEMMA ContractsKeep ==
    ASSUME Shape, Moved, Contracts
    PROVE  /\ Moved' /\ log' \in Seq(Event) /\ Len(log) \in Nat /\ Len(log') \in Nat
           /\ Len(log) <= Len(log') /\ Len(log') <= MaxLog
           /\ governance' \in [Proposals -> GovernanceStates]
           /\ voting' \subseteq Proposals
           /\ controller' \in [Proposals -> PayloadStates \cup {"none"}]
<1>1. PICK p \in Proposals :
         Governance(p) \/ VotingMachine(p) \/ PayloadsController(p) \/ Expiry(p)
  BY DEF Contracts
<1>2. /\ governance' \in [Proposals -> GovernanceStates]
      /\ voting' \subseteq Proposals
      /\ controller' \in [Proposals -> PayloadStates \cup {"none"}]
      /\ \A q \in Proposals :
            /\ governance[q] \in {"queued", "executed", "canceled", "expired"} =>
                  governance'[q] \in {"queued", "executed", "canceled", "expired"}
            /\ governance[q] \in {"executed", "failed", "canceled", "expired"} =>
                  governance'[q] = governance[q]
            /\ controller[q] \in {"executed", "cancelled", "expired"} =>
                  controller'[q] = controller[q]
  <2> USE DEF Shape, TypeOK, GovernanceStates
  <2>1. CASE Governance(p)
    <3>1. PICK from \in {{"none"}, {"created"}, {"active"}, {"queued"},
                        {"created", "active", "queued"}}, to \in GovernanceStates :
             /\ \E typs : Governs(p, from, to, typs)
             /\ "queued" \in from => to \in {"executed", "canceled"}
      BY <2>1 DEF Governance
    <3> QED
      BY <3>1 DEF Governs
  <2>2. CASE VotingMachine(p)
    BY <2>2 DEF VotingMachine
  <2>3. CASE PayloadsController(p)
    <3>1. PICK from \in SUBSET {"none", "created", "queued"}, to \in PayloadStates :
             \E typ : Moves(p, from, to, typ)
      BY <2>3 DEF PayloadsController, PayloadStates
    <3> QED
      BY <3>1 DEF Moves
  <2>4. CASE Expiry(p)
    BY <2>4 DEF Expiry, PayloadStates
  <2> QED
    BY <1>1, <2>1, <2>2, <2>3, <2>4
<1>3. expiring' = expiring
  BY DEF Contracts
<1>4. log \in Seq(Event) /\ Len(log) \in Nat /\ Len(log) <= MaxLog
      /\ \A i \in 1..Len(log) : log[i].id \in Proposals
  <2>1. \A i \in 1..Len(log) : log[i] \in Event
    BY DEF Shape, TypeOK
  <2> QED
    BY <2>1 DEF Shape, TypeOK, QueueShape, QueueTypeOK, Event
<1>5. CASE log' = log
  BY <1>2, <1>3, <1>4, <1>5 DEF Moved, Fits
<1>6. ASSUME NEW src \in {Gov, Machine, Controller}, NEW typs, NEW n \in {1, 2},
             DOMAIN typs = 1..n, Emit(Events(src, typs, p)),
             \A k \in 1..n : /\ [src |-> src, typ |-> typs[k], id |-> p] \in Event
                            /\ Fits(p, typs[k])'
      PROVE  /\ Moved' /\ log' \in Seq(Event) /\ Len(log') \in Nat
             /\ Len(log) <= Len(log') /\ Len(log') <= MaxLog
  <2>1. /\ log' \in Seq(Event) /\ Len(log') = Len(log) + n /\ Len(log') <= MaxLog
        /\ \A i \in 1..Len(log) : log'[i] = log[i]
        /\ \A k \in 1..n : log'[Len(log) + k] = [src |-> src, typ |-> typs[k], id |-> p]
    <3>1. n \in Nat
      BY <1>6
    <3>2. \A k \in 1..n : [src |-> src, typ |-> typs[k], id |-> p] \in Event
      BY <1>6
    <3>3. DOMAIN typs = 1..n /\ Emit(Events(src, typs, p))
      BY <1>6
    <3>4. \A k \in 1..n : log'[Len(log) + k] = [src |-> src, typ |-> typs[k], id |-> p]
      BY <3>1, <3>2, <3>3, EventsAppend, ZenonT(60)
    <3>5. /\ log' \in Seq(Event) /\ Len(log') = Len(log) + n /\ Len(log') <= MaxLog
          /\ \A i \in 1..Len(log) : log'[i] = log[i]
      BY <3>1, <3>2, <3>3, EventsAppend
    <3> QED
      BY <3>4, <3>5, Zenon
  <2>2. ASSUME NEW i \in 1..Len(log') PROVE Fits(log[i].id, log[i].typ)'
    <3>1. CASE i \in 1..Len(log)
      <4>1. Fits(log[i].id, log[i].typ) /\ log[i].id \in Proposals /\ log'[i] = log[i]
        BY <1>4, <2>1, <3>1 DEF Moved
      <4> QED
        BY <1>2, <4>1 DEF Fits
    <3>2. CASE i \notin 1..Len(log)
      <4>1. PICK k \in 1..n : i = Len(log) + k
        <5>1. i - Len(log) \in 1..n /\ i = Len(log) + (i - Len(log))
          BY <1>4, <2>1, <3>2
        <5> QED
          BY <5>1
      <4>2. log'[i] = [src |-> src, typ |-> typs[k], id |-> p]
        BY <2>1, <4>1, Zenon
      <4>3. Fits(p, typs[k])'
        BY <1>6
      <4> QED
        BY <4>1, <4>2, <4>3 DEF Fits
    <3> QED
      BY <3>1, <3>2
  <2> QED
    <3>1. \A q \in Proposals :
             /\ <<"proposal", q>> \in expiring' => governance'[q] = "expired"
             /\ <<"payload", q>> \in expiring' => controller'[q] = "expired"
      BY <1>2, <1>3 DEF Moved
    <3> QED
      BY <1>4, <2>1, <2>2, <3>1 DEF Moved
<1> QED
  BY <1>1, <1>2, <1>4, <1>5, <1>6, ContractEmits

-----------------------------------------------------------------------------
(* The steps keep the types.                                               *)

LEMMA TransitionTarget ==
    ASSUME Row.typ \in {"VotingActivated", "ProposalQueued", "ProposalExecuted",
                        "ProposalCanceled", "ProposalFailed"}
    PROVE  Target \in {"active", "queued", "executed", "canceled", "defeated"}
BY DEF Target

LEMMA PayloadTarget ==
    ASSUME Row.typ \in {"PayloadCreated", "PayloadQueued", "PayloadExecuted", "PayloadCancelled"}
    PROVE  PayloadStatus \in PayloadStates
BY DEF PayloadStatus, PayloadStates

\* A reconciler takes a row from open to expired, if the contract has, and
\* touches nothing else.
LEMMA ReconcileExpires ==
    ASSUME Shape, Moved, Reconcile \/ ReconcileFails
    PROVE  /\ UNCHANGED <<log, received, rowVars, chainVars, bound, titled, letters, actions,
                         votes, stage, torn>>
           /\ state' \in [Proposals -> States \cup {"none"}]
           /\ status' \in [Proposals -> PayloadStates \cup {"declared", "none"}]
           /\ \A p \in Proposals :
                 /\ \/ state'[p] = state[p]
                    \/ /\ state[p] \in OpenStates /\ state'[p] = "expired"
                       /\ governance[p] = "expired"
                 /\ \/ status'[p] = status[p]
                    \/ /\ status[p] \in OpenStatuses /\ status'[p] = "expired"
                       /\ controller[p] = "expired"
           /\ expiring' \subseteq {"proposal", "payload"} \X Proposals
           /\ \A p \in Proposals :
                 /\ <<"proposal", p>> \in expiring' => governance[p] = "expired"
                 /\ <<"payload", p>> \in expiring' => controller[p] = "expired"
           /\ faults' \in {faults, faults + 1} /\ faults' \in 0..MaxFaults
<1> USE DEF Shape, TypeOK, StateTypeOK
<1>1. faults \in 0..MaxFaults
  BY DEF QueueShape, QueueTypeOK
<1>2. CASE ReconcileFails
  BY <1>1, <1>2, FaultIsBounded DEF ReconcileFails, Fault, proposalVars, payloadVars, Moved
<1>3. CASE Reconcile
  <2>1. PICK p \in Proposals :
           ReadProposal(p) \/ ReadPayload(p) \/ ExpireProposal(p) \/ ExpirePayload(p)
    BY <1>3 DEF Reconcile
  <2>2. UNCHANGED <<log, received, rowVars, chainVars, bound, titled, letters, actions, votes,
                    stage, torn, faults>>
    BY <1>3 DEF Reconcile, queueVars
  <2>3. CASE ReadProposal(p) \/ ReadPayload(p)
    BY <1>1, <2>2, <2>3 DEF ReadProposal, ReadPayload, Moved
  <2>4. CASE ExpireProposal(p)
    BY <1>1, <2>2, <2>4 DEF ExpireProposal, ReconcileState, Moved, States
  <2>5. CASE ExpirePayload(p)
    BY <1>1, <2>2, <2>5 DEF ExpirePayload, Moved, PayloadStates
  <2> QED
    BY <2>1, <2>3, <2>4, <2>5
<1> QED
  BY <1>2, <1>3

LEMMA ShapeStep == ASSUME Shape, InHand, Moved, Next PROVE Shape'
<1> USE DEF Shape
<1>1. QueueTypeOK /\ Len(log) \in Nat /\ batch \subseteq Archived /\ derived \subseteq Archived
      /\ Archived \subseteq Positions
  BY DEF QueueShape, Archived
<1>2. CASE Contracts
  <2>1. batch = {} /\ stage = "idle"
    BY <1>1, <1>2 DEF Contracts, TypeOK
  <2>2. QueueShape'
    BY <1>2, ContractsKeep, QueueShapeEmit DEF Contracts
  <2> QED
    BY <1>2, <2>1, <2>2, ContractsKeep
    DEF Contracts, rowVars, proposalVars, payloadVars, TypeOK, QueueShape, StateTypeOK, Exists
<1>3. CASE ArchiveRow
  <2>1. PICK i \in 1..Len(log) : Archive(i, 1)
    BY <1>3 DEF ArchiveRow, TypeOK
  <2>2. QueueShape'
    BY <1>3, <2>1, QueueShapeArchive DEF ArchiveRow
  <2> QED
    BY <1>3, <2>2
    DEF ArchiveRow, rowVars, chainVars, proposalVars, payloadVars, TypeOK, QueueShape,
        StateTypeOK, Exists
<1>4. CASE Begin
  <2>1. QueueShape'
    BY <1>1, <1>4, QueueShapeWork
    DEF Begin, queueFixed, BeginTick, Derivable, QueueShape, QueueTypeOK
  <2>2. stage = "idle"
    BY <1>4 DEF Begin, BeginTick, TypeOK
  <2> QED
    BY <1>4, <2>1, <2>2
    DEF Begin, queueFixed, chainVars, proposalVars, payloadVars, TypeOK, QueueShape,
        StateTypeOK, Exists
\* A handler works on the rows it has.
<1>5. ASSUME UNCHANGED <<log, received>>, batch' \subseteq batch,
             derived' \subseteq derived \cup batch, held' \subseteq held \cup batch,
             attempts' \in [Positions -> 0..DlqThreshold], quarantined' \subseteq Positions,
             faults' \in 0..MaxFaults
      PROVE  QueueShape' /\ log' \in Seq(Event)
  BY <1>1, <1>5, QueueShapeWork DEF QueueTypeOK, TypeOK
<1>6. batch # {} => First \in batch /\ Row \in Event
  BY RowIsLogged
<1>7. \A row \in Event : row.id \in Proposals
  BY DEF Event
<1>8. ASSUME MarkDerived, batch # {}, UNCHANGED queueFixed, attempts' = attempts, held' = held
      PROVE  QueueShape' /\ log' \in Seq(Event)
  <2>1. batch' \subseteq batch /\ derived' \subseteq derived \cup batch
    BY <1>6, <1>8 DEF MarkDerived
  <2> QED
    BY <1>1, <1>5, <1>8, <2>1 DEF queueFixed, QueueTypeOK
<1>9. CASE ApplyCreated
  <2> DEFINE p == Row.id
  <2>1. p \in Proposals /\ batch # {} /\ First \in batch
    BY <1>6, <1>7, <1>9 DEF ApplyCreated, At
  <2>2. QueueShape' /\ log' \in Seq(Event)
    <3>1. batch' \subseteq batch /\ derived' \subseteq derived \cup batch
      BY <1>9, <2>1 DEF ApplyCreated
    <3> QED
      BY <1>1, <1>5, <1>9, <3>1 DEF ApplyCreated, queueFixed, QueueTypeOK
  <2> HIDE DEF p
  <2>3. /\ state' \in [Proposals -> States \cup {"none"}] /\ state'[p] # "none"
        /\ \A q \in Proposals : state[q] # "none" => state'[q] # "none"
    <3>1. (state' = state /\ Exists(p)) \/ state' = [state EXCEPT ![p] = "pending"]
      BY <1>9 DEF ApplyCreated, InsertProposal, p
    <3> QED
      BY <2>1, <3>1 DEF TypeOK, StateTypeOK, Exists, States
  <2>4. letters' \subseteq letters \cup {p} /\ stage' \in {"idle", "fetch"}
        /\ (stage' = "fetch" => batch' # {})
    BY <1>9, <2>1 DEF ApplyCreated, At, p
  <2>5. UNCHANGED <<governance, voting, controller, bound, titled, status, actions, votes, expiring,
                    torn>>
    BY <1>9 DEF ApplyCreated, queueFixed, chainVars, payloadVars
  <2> QED
    BY <2>1, <2>2, <2>3, <2>4, <2>5 DEF TypeOK, QueueShape, StateTypeOK, Exists
<1>10. CASE ApplyTransition
  <2> DEFINE p == Row.id
  <2>1. p \in Proposals /\ batch # {} /\ Exists(p)
    BY <1>6, <1>7, <1>10 DEF ApplyTransition, At
  <2>2. QueueShape' /\ log' \in Seq(Event)
    BY <1>8, <1>10, <2>1 DEF ApplyTransition
  <2>3. Row.typ # "PayloadSent" => Target \in States \ {"none"}
    <3>1. Row.typ # "PayloadSent" => Row.typ \in {"VotingActivated", "ProposalQueued",
                             "ProposalExecuted", "ProposalCanceled", "ProposalFailed"}
      BY <1>6, <1>10, <2>1 DEF ApplyTransition, At, Event, Gov, Machine, Controller
    <3> HIDE DEF Row
    <3> QED
      BY <3>1, TransitionTarget DEF States
  <2> HIDE DEF p
  <2>4. /\ state' \in [Proposals -> States \cup {"none"}]
        /\ \A q \in Proposals : Exists(q) => Exists(q)'
    <3>1. CASE UNCHANGED state
      BY <3>1 DEF TypeOK, StateTypeOK, Exists
    <3>2. CASE Row.typ # "PayloadSent" /\ AdvanceState(p, Target)
      <4> DEFINE t == Target
      <4> HIDE DEF t
      <4> QED
        BY <2>1, <2>3, <3>2 DEF AdvanceState, TypeOK, StateTypeOK, Exists, t
    <3> QED
      BY <1>10, <3>1, <3>2 DEF ApplyTransition, p
  <2>5. status' \in [Proposals -> PayloadStates \cup {"declared", "none"}]
        /\ \A q \in Proposals : status[q] # "none" => status'[q] # "none"
    BY <1>10, <2>1 DEF ApplyTransition, TypeOK, p
  <2>6. stage' = "idle"
        /\ UNCHANGED <<governance, voting, controller, bound, titled, letters, actions, votes,
                      expiring, torn>>
    BY <1>10 DEF ApplyTransition, queueFixed, chainVars, At
  <2> QED
    BY <2>2, <2>4, <2>5, <2>6 DEF TypeOK, QueueShape, StateTypeOK
\* What leaves both tables as they are.
<1>11. ASSUME QueueShape', log' \in Seq(Event), stage' \in {"idle", "written", "bound"},
              stage' # "idle" => batch' # {},
              UNCHANGED <<chainVars, state, titled, letters, payloadVars>>,
              bound' = bound \/ (bound' = bound \cup {Row.id} /\ Exists(Row.id) /\ Row \in Event),
              votes' \subseteq votes \cup batch, expiring' \subseteq expiring,
              torn' \subseteq Proposals
       PROVE  Shape'
  <2>1. bound' \subseteq {p \in Proposals : Exists(p)}
    BY <1>7, <1>11 DEF TypeOK
  <2>2. votes' \subseteq Positions
    BY <1>1, <1>11 DEF TypeOK
  <2> QED
    BY <1>11, <2>1, <2>2 DEF chainVars, payloadVars, TypeOK, QueueShape, StateTypeOK, Exists
<1>12. CASE NoProposal \/ HoldVote \/ HoldPayload
  <2>1. batch # {} /\ stage = "idle" /\ stage' = "idle" /\ batch' \subseteq batch
        /\ held' \subseteq held \cup {First}
        /\ UNCHANGED <<queueFixed, derived, attempts, proposalVars, payloadVars, votes, torn>>
    BY <1>12 DEF NoProposal, HoldVote, HoldPayload, Hold, At
  <2>2. QueueShape' /\ log' \in Seq(Event)
    BY <1>1, <1>5, <1>6, <2>1 DEF queueFixed, QueueTypeOK
  <2>3. UNCHANGED <<chainVars, state, titled, letters, payloadVars, bound, votes, expiring, torn>>
    BY <2>1 DEF queueFixed, proposalVars
  <2> QED
    BY <1>11, <2>1, <2>2, <2>3 DEF TypeOK
<1>13. CASE FetchTitle
  <2>1. batch # {} /\ Exists(Row.id) /\ Row.id \in Proposals
    BY <1>6, <1>7, <1>13 DEF FetchTitle, HandleIpfsEnrichment, InHand, TypeOK
  <2>2. /\ stage' \in {"idle", "resolved"} /\ batch' \subseteq batch
        /\ (stage' # "idle" => batch' = batch)
        /\ faults' \in 0..MaxFaults
        /\ titled' \subseteq titled \cup {Row.id} /\ letters' \subseteq letters
    BY <1>1, <1>13, FaultIsBounded
    DEF FetchTitle, HandleIpfsEnrichment, Enrich, QueueTypeOK
  <2>3. /\ UNCHANGED <<log, received, quarantined, derived, attempts, held, governance, voting,
                      controller, state, bound, status, actions, votes, expiring, torn>>
    BY <1>13 DEF FetchTitle, chainVars, payloadVars
  <2>4. QueueShape' /\ log' \in Seq(Event)
    BY <1>1, <1>5, <2>2, <2>3 DEF QueueTypeOK
  <2> QED
    BY <2>1, <2>2, <2>3, <2>4 DEF TypeOK, QueueShape, StateTypeOK, Exists
<1>14. ASSUME NEW due \in SUBSET held, HoldElapses(due) PROVE Shape'
  <2>1. batch' = batch /\ held' \subseteq held
        /\ UNCHANGED <<queueFixed, derived, attempts, proposalVars, payloadVars, votes, stage, torn>>
    BY <1>14 DEF HoldElapses
  <2>2. QueueShape' /\ log' \in Seq(Event)
    BY <1>1, <1>5, <2>1 DEF queueFixed, QueueTypeOK
  <2> QED
    BY <1>14, <2>1, <2>2 DEF HoldElapses, queueFixed, chainVars, proposalVars, payloadVars,
       TypeOK, QueueShape, StateTypeOK, Exists
<1>15. CASE WriteVote
  <2>1. batch # {} /\ First \in batch
    BY <1>6, <1>15 DEF WriteVote, At
  <2>2. \/ MarkDerived /\ UNCHANGED <<votes, stage>>
        \/ votes' = votes \cup {First} /\ stage' = "written" /\ UNCHANGED <<derived, batch>>
    BY <1>15 DEF WriteVote, NextAfterWrite
  <2>3. UNCHANGED <<queueFixed, attempts, held, proposalVars, payloadVars, torn>> /\ stage = "idle"
    BY <1>15 DEF WriteVote, At
  <2>4. QueueShape' /\ log' \in Seq(Event)
    BY <1>1, <1>5, <1>8, <2>1, <2>2, <2>3 DEF queueFixed, QueueTypeOK
  <2> QED
    BY <1>11, <2>1, <2>2, <2>3, <2>4 DEF queueFixed, proposalVars, TypeOK
<1>16. CASE Bind
  <2>1. batch # {} /\ Row \in Event /\ Exists(Row.id)
    BY <1>6, <1>16 DEF Bind, At, InHand
  <2>2. /\ bound' = bound \cup {Row.id} /\ stage' = "bound" /\ batch' = batch
        /\ UNCHANGED <<queueFixed, derived, attempts, held, state, titled, letters, payloadVars,
                      votes, torn>>
    BY <1>16 DEF Bind
  <2>3. QueueShape' /\ log' \in Seq(Event)
    BY <1>1, <1>5, <2>2 DEF queueFixed, QueueTypeOK
  <2> QED
    BY <1>11, <2>1, <2>2, <2>3 DEF queueFixed, TypeOK
<1>17. CASE MarkVote
  <2>1. batch # {} /\ MarkDerived /\ stage' = "idle"
        /\ UNCHANGED <<queueFixed, attempts, held, proposalVars, payloadVars, votes, torn>>
    BY <1>17 DEF MarkVote, TypeOK
  <2>2. QueueShape' /\ log' \in Seq(Event)
    BY <1>8, <2>1
  <2> QED
    BY <1>11, <2>1, <2>2 DEF queueFixed, proposalVars, TypeOK
<1>18. CASE StitchPayload
  <2> DEFINE p == Row.id
  <2>1. batch # {} /\ p \in Proposals /\ status[p] # "none" /\ stage = "idle"
    BY <1>6, <1>7, <1>18 DEF StitchPayload, At, Declared
  <2>2. QueueShape' /\ log' \in Seq(Event)
    BY <1>8, <1>18, <2>1 DEF StitchPayload
  <2>3. PayloadStatus \in PayloadStates
    <3>1. Row.typ \in {"PayloadCreated", "PayloadQueued", "PayloadExecuted", "PayloadCancelled"}
      BY <1>6, <1>18, <2>1 DEF StitchPayload, At, Event, Gov, Machine, Controller
    <3> QED
      BY <3>1, PayloadTarget
  <2>4. /\ status' \in [Proposals -> PayloadStates \cup {"declared", "none"}]
        /\ \A q \in Proposals : status[q] # "none" => status'[q] # "none"
        /\ actions' \subseteq actions \cup {p}
        /\ UNCHANGED <<queueFixed, proposalVars, votes, stage, torn>>
    <3> DEFINE t == PayloadStatus
    <3>1. status' = status \/ status' = [status EXCEPT ![p] = t]
      BY <1>18 DEF StitchPayload
    <3>2. t \in PayloadStates /\ t # "none"
      BY <2>3 DEF PayloadStates
    <3> HIDE DEF t, p
    <3>3. /\ status' \in [Proposals -> PayloadStates \cup {"declared", "none"}]
          /\ \A q \in Proposals : status[q] # "none" => status'[q] # "none"
      BY <2>1, <3>1, <3>2 DEF TypeOK
    <3> QED
      BY <1>18, <3>3 DEF StitchPayload, InsertActions, p
  <2> HIDE DEF p
  <2> QED
    BY <2>1, <2>2, <2>4 DEF queueFixed, chainVars, proposalVars, TypeOK, QueueShape, StateTypeOK,
       Exists
<1>19. CASE RowFails
  <2>1. batch # {} /\ First \in batch /\ Row \in Event
    BY <1>6, <1>19 DEF RowFails
  <2>2. /\ faults' \in 0..MaxFaults /\ attempts' \in [Positions -> 0..DlqThreshold]
        /\ quarantined' \subseteq Positions
    BY <1>1, <1>19, <2>1, FaultIsBounded, CountIsBounded DEF RowFails, CountFailure, QueueTypeOK
  <2>3. /\ batch' \subseteq batch /\ stage' = "idle" /\ torn' \subseteq Proposals
        /\ UNCHANGED <<log, received, derived, held, chainVars, proposalVars, payloadVars, votes,
                      expiring>>
    BY <1>7, <1>19, <2>1 DEF RowFails, Tear, TypeOK
  <2>4. QueueShape' /\ log' \in Seq(Event)
    BY <1>5, <2>2, <2>3
  <2> QED
    BY <1>11, <2>3, <2>4 DEF proposalVars
<1>20. CASE RunFails \/ Restart
  <2>1. stage = "written" => Row \in Event
    BY <1>6 DEF TypeOK
  <2>2. /\ faults' \in 0..MaxFaults /\ batch' \subseteq batch /\ stage' = "idle"
        /\ torn' \subseteq Proposals /\ expiring' \subseteq expiring
        /\ UNCHANGED <<log, received, derived, attempts, held, quarantined, chainVars,
                      proposalVars, payloadVars, votes>>
    BY <1>1, <1>7, <1>20, <2>1, FaultIsBounded
    DEF RunFails, Restart, SkipRun, Tear, TypeOK, QueueTypeOK
  <2>3. QueueShape' /\ log' \in Seq(Event)
    BY <1>1, <1>5, <2>2 DEF QueueTypeOK
  <2> QED
    BY <1>11, <2>2, <2>3 DEF proposalVars
<1>21. CASE Reconcile \/ ReconcileFails
  <2>1. UNCHANGED <<log, received, rowVars, chainVars, bound, titled, letters, actions, votes,
                    stage, torn>>
        /\ faults' \in 0..MaxFaults
    BY <1>21, ReconcileExpires
  <2>2. QueueShape' /\ log' \in Seq(Event)
    BY <1>1, <1>5, <2>1 DEF rowVars, QueueTypeOK
  <2>3. \A p \in Proposals : (state[p] # "none" => state'[p] # "none")
                             /\ (status[p] # "none" => status'[p] # "none")
    BY <1>21, ReconcileExpires
  <2>4. /\ state' \in [Proposals -> States \cup {"none"}]
        /\ status' \in [Proposals -> PayloadStates \cup {"declared", "none"}]
        /\ expiring' \subseteq {"proposal", "payload"} \X Proposals
    BY <1>21, ReconcileExpires
  <2> QED
    BY <2>1, <2>2, <2>3, <2>4 DEF rowVars, chainVars, TypeOK, QueueShape, StateTypeOK, Exists
<1> QED
  BY <1>2, <1>3, <1>4, <1>9, <1>10, <1>12, <1>13, <1>14, <1>15, <1>16, <1>17, <1>18, <1>19, <1>20,
     <1>21
  DEF Next, Handler

-----------------------------------------------------------------------------
(* What a handler has done for the row in hand, and what the contracts have *)
(* emitted.                                                                *)

LEMMA RowKept == ASSUME UNCHANGED <<log, batch>> PROVE First' = First /\ Row' = Row
BY DEF First, Row, Precedes

LEMMA InHandStep == ASSUME Shape, InHand, Moved, Next PROVE InHand'
<1>1. /\ batch = {} => stage = "idle"
      /\ stage \in {"idle", "written", "bound", "fetch", "resolved"}
  BY DEF Shape, TypeOK
<1>2. ASSUME stage' = "idle" PROVE InHand'
  BY <1>2 DEF InHand
<1>3. CASE Contracts \/ ArchiveRow \/ Begin \/ \E due \in SUBSET held : HoldElapses(due)
  <2>1. stage' = stage
    BY <1>3 DEF Contracts, ArchiveRow, Begin, HoldElapses
  <2>2. stage = "idle"
    <3>1. Archived = {} => batch = {}
      BY DEF Shape, QueueShape
    <3> QED
      BY <1>1, <1>3, <3>1 DEF Contracts, ArchiveRow, Begin, BeginTick, HoldElapses
  <2> QED
    BY <1>2, <2>1, <2>2
<1>4. CASE ApplyTransition \/ NoProposal \/ HoldVote \/ MarkVote \/ HoldPayload \/ StitchPayload
           \/ RowFails \/ RunFails \/ Restart
  <2>1. stage' = "idle"
    BY <1>4 DEF ApplyTransition, NoProposal, HoldVote, MarkVote, HoldPayload, StitchPayload,
       RowFails, RunFails, Restart, At
  <2> QED
    BY <1>2, <2>1
<1>5. CASE ApplyCreated
  <2>1. CASE Exists(Row.id)
    BY <1>2, <1>5, <2>1 DEF ApplyCreated, At
  <2>2. CASE ~Exists(Row.id)
    <3> DEFINE p == Row.id
    <3>1. stage' = "fetch" /\ UNCHANGED <<log, batch>> /\ state' = [state EXCEPT ![p] = "pending"]
      BY <1>5, <2>2 DEF ApplyCreated, queueFixed, InsertProposal
    <3>2. p \in Proposals /\ state \in [Proposals -> States \cup {"none"}]
      BY <1>5, RowIsLogged DEF ApplyCreated, At, Event, Shape, TypeOK, StateTypeOK
    <3>3. Row' = Row
      BY <3>1, RowKept
    <3> HIDE DEF p
    <3>4. state'[p] # "none"
      BY <3>1, <3>2
    <3> QED
      BY <3>1, <3>3, <3>4 DEF InHand, Exists, p
  <2> QED
    BY <2>1, <2>2
<1>6. CASE FetchTitle
  <2>1. CASE stage' = "idle"
    BY <1>2, <2>1
  <2>2. CASE stage' # "idle"
    <3>1. stage = "fetch" /\ stage' = "resolved" /\ UNCHANGED <<log, batch, state>>
          /\ titled' = titled \cup {Row.id}
      BY <1>6, <2>2 DEF FetchTitle, HandleIpfsEnrichment, Enrich
    <3> QED
      BY <3>1, RowKept DEF InHand, Exists
  <2> QED
    BY <2>1, <2>2
<1>7. CASE WriteVote
  <2>1. CASE First \in votes
    BY <1>2, <1>7, <2>1 DEF WriteVote, At
  <2>2. CASE First \notin votes
    <3>1. stage' = "written" /\ UNCHANGED <<log, batch, state>> /\ Row.src = Machine
          /\ Exists(Row.id)
      BY <1>7, <2>2 DEF WriteVote, NextAfterWrite, At, queueFixed, proposalVars
    <3> QED
      BY <3>1, RowKept DEF InHand, Exists
  <2> QED
    BY <2>1, <2>2
<1>8. CASE Bind
  <2>1. stage' = "bound" /\ UNCHANGED <<log, batch, state>> /\ Row.src = Machine
        /\ Exists(Row.id) /\ bound' = bound \cup {Row.id}
    BY <1>8 DEF Bind, At, queueFixed, InHand
  <2> QED
    BY <2>1, RowKept DEF InHand, Exists
<1>9. CASE Reconcile \/ ReconcileFails
  <2>1. UNCHANGED <<log, batch, stage, bound, titled>>
    BY <1>9, ReconcileExpires DEF rowVars
  <2>2. stage # "idle" => Row.id \in Proposals
    BY RowIsLogged DEF Shape, TypeOK, Event
  <2>3. \A p \in Proposals : Exists(p) => Exists(p)'
    BY <1>9, ReconcileExpires DEF Exists
  <2> QED
    BY <2>1, <2>2, <2>3, RowKept DEF InHand
<1> QED
  BY <1>3, <1>4, <1>5, <1>6, <1>7, <1>8, <1>9 DEF Next, Handler

\* Only the contracts append, and only they move.
LEMMA WorkKeepsLog ==
    ASSUME Next, ~Contracts PROVE UNCHANGED <<log, governance, controller>>
BY DEF Next, Handler, ArchiveRow, Begin, ApplyCreated, ApplyTransition, NoProposal, FetchTitle,
   HoldVote, WriteVote, Bind, MarkVote, HoldPayload, StitchPayload, HoldElapses, RowFails,
   RunFails, Restart, Reconcile, ReconcileFails, queueFixed, queueVars, chainVars

LEMMA MovedStep == ASSUME Shape, Moved, Next PROVE Moved'
<1>1. CASE Contracts
  BY <1>1, ContractsKeep
<1>2. CASE Reconcile \/ ReconcileFails
  <2>1. UNCHANGED <<log, chainVars>>
    BY <1>2, ReconcileExpires
  <2>2. \A p \in Proposals :
           /\ <<"proposal", p>> \in expiring' => governance[p] = "expired"
           /\ <<"payload", p>> \in expiring' => controller[p] = "expired"
    BY <1>2, ReconcileExpires
  <2> QED
    BY <2>1, <2>2 DEF chainVars, Moved, Fits
<1>3. CASE ~Contracts /\ ~Reconcile /\ ~ReconcileFails
  <2>1. expiring' \subseteq expiring
    BY <1>3 DEF Next, Handler, ArchiveRow, Begin, ApplyCreated, ApplyTransition, NoProposal,
       FetchTitle, HoldVote, WriteVote, Bind, MarkVote, HoldPayload, StitchPayload, HoldElapses,
       RowFails, RunFails, Restart, queueFixed
  <2> QED
    BY <1>3, <2>1, WorkKeepsLog DEF Moved, Fits
<1> QED
  BY <1>1, <1>2, <1>3

-----------------------------------------------------------------------------
(* Titles and votes.                                                       *)

\* No step but an insert makes a proposal exist.
LEMMA OnlyCreatedInserts ==
    ASSUME Shape, Moved, Next, ~ApplyCreated
    PROVE  \A p \in Proposals : Exists(p)' => Exists(p)
<1>1. CASE ApplyTransition
  BY <1>1 DEF ApplyTransition, AdvanceState, Exists, Shape, TypeOK, StateTypeOK
<1>2. CASE Reconcile \/ ReconcileFails
  <2>1. \A p \in Proposals : state'[p] = state[p] \/ state[p] \in OpenStates
    BY <1>2, ReconcileExpires
  <2> QED
    BY <2>1 DEF Exists, OpenStates
<1>3. CASE ~ApplyTransition /\ ~Reconcile /\ ~ReconcileFails
  <2>1. state' = state
    BY <1>3 DEF Next, Handler, Contracts, ArchiveRow, Begin, NoProposal, FetchTitle,
       HoldVote, WriteVote, Bind, MarkVote, HoldPayload, StitchPayload, HoldElapses, RowFails,
       RunFails, Restart, proposalVars
  <2> QED
    BY <2>1 DEF Exists
<1> QED
  BY <1>1, <1>2, <1>3

LEMMA TitleStep == ASSUME Shape, InHand, Moved, TitleOrLetter, Next PROVE TitleOrLetter'
<1>1. CASE ApplyCreated
  <2> DEFINE q == Row.id
  <2>1. /\ UNCHANGED titled
        /\ \/ UNCHANGED <<state, letters>>
           \/ state' = [state EXCEPT ![q] = "pending"] /\ letters' = letters \cup {q}
    BY <1>1 DEF ApplyCreated, InsertProposal
  <2> HIDE DEF q
  <2> QED
    BY <2>1 DEF TitleOrLetter, Exists, Shape, TypeOK, StateTypeOK
<1>2. CASE FetchTitle
  <2>1. \/ UNCHANGED <<titled, letters>>
        \/ titled' = titled \cup {Row.id} /\ letters' = letters
        \/ titled' = titled /\ letters' = letters \ {Row.id} /\ Row.id \in titled
    BY <1>2 DEF FetchTitle, HandleIpfsEnrichment, Enrich, InHand
  <2>2. state' = state
    BY <1>2 DEF FetchTitle
  <2> QED
    BY <2>1, <2>2 DEF TitleOrLetter, Exists
<1>3. CASE ~ApplyCreated /\ ~FetchTitle
  <2>1. UNCHANGED <<titled, letters>>
    BY <1>3 DEF Next, Handler, Contracts, ArchiveRow, Begin, ApplyTransition, NoProposal,
       HoldVote, WriteVote, Bind, MarkVote, HoldPayload, StitchPayload, HoldElapses, RowFails,
       RunFails, Restart, Reconcile, ReconcileFails, proposalVars
  <2> QED
    BY <1>3, <2>1, OnlyCreatedInserts DEF TitleOrLetter
<1> QED
  BY <1>1, <1>2, <1>3

\* A vote in the table has bound its proposal, unless its handler is about to
\* or never came to it.
VotesBound ==
    /\ votes \subseteq Archived
    /\ \A i \in votes :
          log[i].id \in bound \cup torn \/ (stage = "written" /\ batch # {} /\ i = First)
    /\ \A i \in derived : log[i].typ = "VoteEmitted" => log[i].id \in bound \cup torn

LEMMA VotesBoundStep == ASSUME Shape, InHand, Moved, VotesBound, Next PROVE VotesBound'
<1>1. /\ batch = {} => stage = "idle"
      /\ stage \in {"idle", "written", "bound", "fetch", "resolved"}
      /\ batch \subseteq Archived /\ derived \subseteq Archived
  BY DEF Shape, TypeOK, QueueShape
<1>2. batch # {} => First \in batch
  BY RowIsLogged
\* The steps that change none of it.
<1>3. ASSUME UNCHANGED <<log, votes, derived>>, Archived \subseteq Archived',
             bound \subseteq bound', torn \subseteq torn',
             stage = "written" => \/ log[First].id \in bound' \cup torn'
                                  \/ UNCHANGED <<stage, batch>>
      PROVE  VotesBound'
  <2>1. UNCHANGED <<log, batch>> => First' = First
    BY RowKept
  <2>2. ASSUME NEW i \in votes
        PROVE  \/ log[i].id \in bound' \cup torn'
               \/ stage' = "written" /\ batch' # {} /\ i = First'
    BY <1>3, <2>1, <2>2 DEF VotesBound
  <2>3. votes' \subseteq Archived'
    BY <1>3 DEF VotesBound
  <2>4. \A i \in derived : log[i].typ = "VoteEmitted" => log[i].id \in bound' \cup torn'
    BY <1>3 DEF VotesBound
  <2> QED
    BY <1>3, <2>2, <2>3, <2>4 DEF VotesBound
\* A row is marked when nothing is being written.
<1>4. ASSUME stage # "written", UNCHANGED <<log, votes, received, bound, torn>>,
             derived' \subseteq derived \cup {First}, batch # {},
             Row.typ = "VoteEmitted" => Row.id \in bound \cup torn
      PROVE  VotesBound'
  <2>1. Archived' = Archived
    BY <1>4 DEF Archived
  <2> QED
    BY <1>1, <1>2, <1>4, <2>1 DEF VotesBound, Row
<1>5. CASE Contracts
  <2>1. votes = {} /\ derived = {} /\ votes' = {} /\ derived' = {}
    BY <1>1, <1>5 DEF Contracts, VotesBound, rowVars
  <2> QED
    BY <2>1 DEF VotesBound
<1>6. CASE ArchiveRow
  <2>1. PICK i \in 1..Len(log) : Archive(i, 1)
    BY <1>6 DEF ArchiveRow, Shape, TypeOK
  <2>2. received' = [received EXCEPT ![i] = 1] /\ received \in [Positions -> Nat]
    BY <2>1 DEF Archive, Shape, QueueShape, QueueTypeOK
  <2>3. Archived \subseteq Archived'
    BY <2>2 DEF Archived
  <2> QED
    BY <1>1, <1>3, <1>6, <2>3 DEF ArchiveRow, rowVars, proposalVars
<1>7. CASE Begin \/ NoProposal \/ HoldVote \/ HoldPayload \/ FetchTitle \/ RunFails
           \/ \E due \in SUBSET held : HoldElapses(due)
  <2>1. stage # "written" /\ UNCHANGED <<log, received, votes, derived, bound, torn>>
    BY <1>1, <1>7 DEF Begin, BeginTick, NoProposal, HoldVote, HoldPayload, FetchTitle,
       HandleIpfsEnrichment, RunFails, HoldElapses, At, queueFixed, proposalVars
  <2>2. Archived' = Archived
    BY <2>1 DEF Archived
  <2> QED
    BY <1>3, <2>1, <2>2
<1>8. CASE ApplyCreated \/ ApplyTransition \/ StitchPayload
  <2>1. /\ stage # "written" /\ batch # {} /\ derived' = derived \cup {First}
        /\ UNCHANGED <<log, received, votes, bound, torn>> /\ Row.src \in {Gov, Controller}
    BY <1>8 DEF ApplyCreated, ApplyTransition, StitchPayload, At, MarkDerived, queueFixed,
       proposalVars
  <2>2. Row.typ # "VoteEmitted"
    BY <2>1, RowIsLogged DEF Event, Gov, Machine, Controller
  <2> QED
    BY <1>4, <2>1, <2>2
<1>9. CASE WriteVote
  <2>1. batch # {} /\ stage = "idle" /\ UNCHANGED <<log, received, bound, torn>>
    BY <1>9 DEF WriteVote, At, queueFixed, proposalVars
  <2>2. CASE First \in votes
    BY <1>4, <1>9, <2>1, <2>2 DEF WriteVote, MarkDerived, VotesBound, Row
  <2>3. CASE First \notin votes
    <3>1. votes' = votes \cup {First} /\ stage' = "written" /\ UNCHANGED <<derived, batch>>
      BY <1>9, <2>3 DEF WriteVote, NextAfterWrite
    <3>2. First' = First /\ Archived' = Archived
      BY <2>1, <3>1, RowKept DEF Archived
    <3>3. votes' \subseteq Archived'
      BY <1>1, <1>2, <2>1, <3>1, <3>2 DEF VotesBound
    <3> QED
      BY <2>1, <3>1, <3>2, <3>3 DEF VotesBound
  <2> QED
    BY <2>2, <2>3
<1>10. CASE Bind
  <2>1. UNCHANGED <<log, received, votes, derived, torn>> /\ bound' = bound \cup {log[First].id}
    BY <1>10 DEF Bind, queueFixed, Row
  <2>2. Archived' = Archived
    BY <2>1 DEF Archived
  <2> QED
    BY <1>3, <2>1, <2>2
<1>11. CASE MarkVote
  BY <1>1, <1>4, <1>11 DEF MarkVote, MarkDerived, InHand, queueFixed, proposalVars
<1>12. CASE RowFails \/ Restart
  <2>1. /\ UNCHANGED <<log, received, votes, derived, bound>> /\ torn \subseteq torn'
        /\ (stage = "written" => log[First].id \in torn')
    BY <1>12 DEF RowFails, Restart, Tear, proposalVars, Row
  <2>2. Archived' = Archived
    BY <2>1 DEF Archived
  <2> QED
    BY <1>3, <2>1, <2>2
<1>13. CASE Reconcile \/ ReconcileFails
  <2>1. UNCHANGED <<log, received, votes, derived, bound, torn, stage, batch>>
    BY <1>13, ReconcileExpires DEF rowVars
  <2>2. Archived' = Archived
    BY <2>1 DEF Archived
  <2> QED
    BY <1>3, <2>1, <2>2
<1> QED
  BY <1>5, <1>6, <1>7, <1>8, <1>9, <1>10, <1>11, <1>12, <1>13 DEF Next, Handler

-----------------------------------------------------------------------------
(* Failures are counted and holds are not.                                 *)

Counted ==
    \A i \in Positions : attempts[i] <= faults /\ (i \in quarantined => faults >= DlqThreshold)

LEMMA CountedStep == ASSUME Shape, Counted, Next PROVE Counted'
<1>1. CASE RowFails
  <2>1. faults' = faults + 1 /\ faults \in Nat
        /\ attempts \in [Positions -> 0..DlqThreshold]
    BY <1>1 DEF RowFails, Fault, Shape, QueueShape, QueueTypeOK
  <2>2. CASE UNCHANGED <<attempts, quarantined>>
    BY <2>1, <2>2 DEF Counted
  <2>3. CASE CountFailure(First)
    <3>1. /\ attempts' = [attempts EXCEPT ![First] = IF @ < DlqThreshold THEN @ + 1 ELSE @]
          /\ quarantined' = IF attempts[First] + 1 >= DlqThreshold
                            THEN quarantined \cup {First} ELSE quarantined
      BY <2>3 DEF CountFailure
    <3>2. First \in Positions
      BY <1>1, RowIsLogged DEF RowFails
    <3> QED
      BY <2>1, <3>1, <3>2 DEF Counted
  <2> QED
    BY <1>1, <2>2, <2>3 DEF RowFails
<1>2. CASE ~RowFails
  <2>1. faults \in Nat /\ attempts \in [Positions -> 0..DlqThreshold]
    BY DEF Shape, QueueShape, QueueTypeOK
  <2>2. UNCHANGED <<attempts, quarantined>>
    BY <1>2 DEF Next, Handler, Contracts, ArchiveRow, Begin, ApplyCreated, ApplyTransition,
       NoProposal, FetchTitle, HoldVote, WriteVote, Bind, MarkVote, HoldPayload,
       StitchPayload, Hold, HoldElapses, RunFails, Restart, Reconcile, ReconcileFails,
       queueFixed, queueVars, rowVars
  <2>3. faults' \in {faults, faults + 1}
    <3>1. CASE FetchTitle \/ RunFails \/ Restart \/ ReconcileFails
      BY <3>1 DEF FetchTitle, HandleIpfsEnrichment, RunFails, Restart, ReconcileFails, Fault
    <3>2. CASE ~FetchTitle /\ ~RunFails /\ ~Restart /\ ~ReconcileFails
      BY <1>2, <3>2 DEF Next, Handler, Contracts, ArchiveRow, Begin, ApplyCreated,
         ApplyTransition, NoProposal, HoldVote, WriteVote, Bind, MarkVote, HoldPayload,
         StitchPayload, HoldElapses, Reconcile, queueFixed, queueVars
    <3> QED
      BY <3>1, <3>2
  <2> QED
    BY <2>1, <2>2, <2>3 DEF Counted
<1> QED
  BY <1>1, <1>2

-----------------------------------------------------------------------------
(* What the two tables show.                                               *)

LEMMA RowJoins ==
    ASSUME Shape, batch # {}, derived' = derived \cup {First}, log' = log, NEW p, NEW typ
    PROVE  Derived(p, typ)' <=> Derived(p, typ) \/ (p = Row.id /\ typ = Row.typ)
<1>1. Derived(p, typ)' <=> \E i \in derived \cup {First} : log[i].id = p /\ log[i].typ = typ
  BY DEF Derived
<1>2. Derived(p, typ) <=> \E i \in derived : log[i].id = p /\ log[i].typ = typ
  BY DEF Derived
<1> QED
  BY <1>1, <1>2 DEF Row

\* The steps that leave the tables and what is derived alone: the contracts move
\* before anything is derived.
LEMMA NoRowJoins ==
    ASSUME Shape, Next, ~ApplyCreated, ~ApplyTransition, ~WriteVote, ~MarkVote, ~StitchPayload,
           ~Reconcile, ~ReconcileFails
    PROVE  /\ UNCHANGED <<state, status, actions>>
           /\ \A p, typ : Derived(p, typ)' <=> Derived(p, typ)
           /\ UNCHANGED <<governance, controller>> \/ \A p, typ : ~Derived(p, typ)
<1>1. UNCHANGED <<derived, state, status, actions>>
  BY DEF Next, Handler, Contracts, ArchiveRow, Begin, NoProposal, FetchTitle, HoldVote, Bind,
     HoldPayload, HoldElapses, RowFails, RunFails, Restart, rowVars, proposalVars, payloadVars
<1>2. CASE Contracts
  <2>1. derived = {}
    BY <1>2 DEF Contracts, Shape, QueueShape
  <2> QED
    BY <1>1, <2>1 DEF Derived
<1>3. CASE ~Contracts
  <2>1. UNCHANGED <<log, governance, controller>>
    BY <1>3, WorkKeepsLog
  <2> QED
    BY <1>1, <2>1 DEF Derived
<1> QED
  BY <1>1, <1>2, <1>3

\* A reconciler leaves what is derived alone, too.
LEMMA ReconcileJoinsNone ==
    ASSUME Shape, Moved, Reconcile \/ ReconcileFails
    PROVE  /\ UNCHANGED <<governance, controller, actions>>
           /\ \A p, typ : Derived(p, typ)' <=> Derived(p, typ)
<1>1. UNCHANGED <<log, derived, governance, controller, actions>>
  BY ReconcileExpires DEF rowVars, chainVars
<1> QED
  BY <1>1 DEF Derived

\* What is derived has been emitted.
LEMMA DerivedFits ==
    ASSUME Shape, Moved, NEW p, NEW typ, Derived(p, typ) PROVE Fits(p, typ)
<1>1. PICK i \in derived : log[i].id = p /\ log[i].typ = typ
  BY DEF Derived
<1>2. i \in 1..Len(log)
  BY <1>1 DEF Shape, QueueShape, QueueTypeOK, Archived, Positions
<1> QED
  BY <1>1, <1>2 DEF Moved

GovTypes == {"ProposalCreated", "VotingActivated", "ProposalQueued", "ProposalExecuted",
             "ProposalFailed", "ProposalCanceled"}

LEMMA StateStep == ASSUME Shape, InHand, Moved, StateIsFurthest, Next PROVE StateIsFurthest'
<1>1. CASE /\ ~ApplyCreated /\ ~ApplyTransition /\ ~WriteVote /\ ~MarkVote /\ ~StitchPayload
           /\ ~Reconcile /\ ~ReconcileFails
  <2>1. /\ state' = state
        /\ \A p, typ : Derived(p, typ)' <=> Derived(p, typ)
        /\ governance' = governance \/ \A p, typ : ~Derived(p, typ)
    BY <1>1, NoRowJoins
  <2> QED
    BY <2>1 DEF StateIsFurthest, Furthest, Exists, Ended
<1>4. CASE Reconcile \/ ReconcileFails
  <2>1. UNCHANGED governance /\ \A p, typ : Derived(p, typ)' <=> Derived(p, typ)
    BY <1>4, ReconcileJoinsNone
  <2>2. ASSUME NEW p \in Proposals
        PROVE  \/ state'[p] = state[p]
               \/ /\ state[p] \in {"pending", "active", "queued"} /\ state'[p] = "expired"
                  /\ governance[p] = "expired"
    BY <1>4, ReconcileExpires DEF OpenStates
  <2> QED
    BY <2>1, <2>2 DEF StateIsFurthest, Furthest, Exists, Ended
<1>2. CASE WriteVote \/ MarkVote \/ StitchPayload
  <2>1. state' = state /\ batch # {} /\ log' = log /\ Row.src \in {Machine, Controller}
        /\ derived' \in {derived, derived \cup {First}}
    BY <1>2 DEF WriteVote, MarkVote, StitchPayload, At, MarkDerived, queueFixed, proposalVars,
       InHand, Shape, TypeOK
  <2>2. Row.typ \notin GovTypes
    BY <2>1, RowIsLogged DEF Event, Gov, Machine, Controller, GovTypes
  <2>3. \A p : \A typ \in GovTypes : Derived(p, typ)' <=> Derived(p, typ)
    <3>1. CASE derived' = derived
      BY <2>1, <3>1 DEF Derived
    <3>2. CASE derived' = derived \cup {First}
      BY <2>1, <2>2, <3>2, RowJoins
    <3> QED
      BY <2>1, <3>1, <3>2
  <2> QED
    <3>1. governance' = governance
      BY <1>2 DEF WriteVote, MarkVote, StitchPayload, queueFixed, chainVars
    <3> QED
      BY <2>1, <2>3, <3>1 DEF StateIsFurthest, Furthest, Exists, Ended, GovTypes
<1>3. ASSUME ApplyCreated \/ ApplyTransition PROVE StateIsFurthest'
  <2>1. batch # {} /\ derived' = derived \cup {First} /\ log' = log /\ Row.src = Gov
    BY <1>3 DEF ApplyCreated, ApplyTransition, At, MarkDerived, queueFixed
  <2>2. PICK q \in Proposals, t \in GovTypes \cup {"PayloadSent"} : q = Row.id /\ t = Row.typ
    BY <2>1, RowIsLogged DEF Event, Gov, Machine, Controller, GovTypes
  <2>3. \A p, typ : Derived(p, typ)' <=> Derived(p, typ) \/ (p = q /\ typ = t)
    BY <2>1, <2>2, RowJoins
  <2>4. /\ t = "ProposalCreated" =>
              state' = IF state[q] # "none" THEN state ELSE [state EXCEPT ![q] = "pending"]
        /\ t # "ProposalCreated" => state[q] # "none"
        /\ t = "PayloadSent" => state' = state
        /\ t \notin {"ProposalCreated", "PayloadSent"} => AdvanceState(q, Target)
    BY <1>3, <2>2 DEF ApplyCreated, ApplyTransition, InsertProposal, Exists
  <2>5. /\ t = "VotingActivated" => Target = "active"
        /\ t = "ProposalQueued" => Target = "queued"
        /\ t = "ProposalExecuted" => Target = "executed"
        /\ t = "ProposalCanceled" => Target = "canceled"
        /\ t = "ProposalFailed" => Target = "defeated"
    BY <2>2 DEF Target
  <2>6. /\ t = "VotingActivated" => state' =
              IF state[q] = "pending" THEN [state EXCEPT ![q] = "active"] ELSE state
        /\ t = "ProposalQueued" => state' =
              IF state[q] \in {"pending", "active"} THEN [state EXCEPT ![q] = "queued"] ELSE state
        /\ t = "ProposalFailed" => state' =
              IF state[q] \in {"pending", "active"} THEN [state EXCEPT ![q] = "defeated"] ELSE state
        /\ t = "ProposalExecuted" => state' =
              IF state[q] \in {"pending", "queued", "active"}
              THEN [state EXCEPT ![q] = "executed"] ELSE state
        /\ t = "ProposalCanceled" => state' =
              IF state[q] \in {"pending", "queued", "active"}
              THEN [state EXCEPT ![q] = "canceled"] ELSE state
    BY <2>4, <2>5 DEF AdvanceState, Advances, AllowedFrom, Terminal
  <2>7. Fits(q, t) /\ \A typ : Derived(q, typ) => Fits(q, typ)
    <3>1. Fits(Row.id, Row.typ)
      BY <2>1, RowIsLogged DEF Moved, Row
    <3> QED
      BY <2>2, <3>1, DerivedFits
  <2>8. state \in [Proposals -> States \cup {"none"}]
    BY DEF Shape, TypeOK, StateTypeOK
  <2>9. ASSUME NEW p \in Proposals, p # q PROVE state'[p] = state[p]
    BY <2>2, <2>4, <2>6, <2>8, <2>9 DEF GovTypes
  <2> DEFINE is(typ) == Derived(q, typ)
             Shows(s, C, A, Q, X, N, F) ==
                 /\ (s # "none") <=> C
                 /\ X => s = "executed"
                 /\ N => s = "canceled"
                 /\ F => s = "defeated"
                 /\ ~(X \/ N \/ F) =>
                       \/ s = IF Q THEN "queued" ELSE IF A THEN "active"
                              ELSE IF s # "none" THEN "pending" ELSE "none"
                       \/ s = "expired" /\ governance[q] = "expired"
  <2>10. Shows(state[q], is("ProposalCreated"), is("VotingActivated"), is("ProposalQueued"),
               is("ProposalExecuted"), is("ProposalCanceled"), is("ProposalFailed"))
    BY <2>2 DEF StateIsFurthest, Furthest, Exists, Ended
  <2>11. Shows(state'[q],
               is("ProposalCreated") \/ t = "ProposalCreated",
               is("VotingActivated") \/ t = "VotingActivated",
               is("ProposalQueued") \/ t = "ProposalQueued",
               is("ProposalExecuted") \/ t = "ProposalExecuted",
               is("ProposalCanceled") \/ t = "ProposalCanceled",
               is("ProposalFailed") \/ t = "ProposalFailed")
    <3>1. /\ ~(is("ProposalExecuted") /\ t \in {"ProposalCanceled", "ProposalFailed"})
          /\ ~(is("ProposalCanceled") /\ t \in {"ProposalExecuted", "ProposalFailed"})
          /\ ~(is("ProposalFailed") /\ t \in {"ProposalCanceled", "ProposalExecuted", "ProposalQueued"})
          /\ ~(is("ProposalQueued") /\ t = "ProposalFailed")
          /\ t \in {"ProposalExecuted", "ProposalFailed", "ProposalCanceled"} =>
                governance[q] # "expired"
      BY <2>7 DEF Fits
    <3> HIDE DEF is
    <3>2. CASE t = "ProposalCreated"
      BY <2>2, <2>4, <2>8, <2>10, <3>2
    <3>3. CASE t = "VotingActivated"
      BY <2>2, <2>4, <2>6, <2>8, <2>10, <3>3
    <3>4. CASE t = "ProposalQueued"
      BY <2>2, <2>4, <2>6, <2>8, <2>10, <3>1, <3>4
    <3>5. CASE t = "ProposalExecuted"
      BY <2>2, <2>4, <2>6, <2>8, <2>10, <3>1, <3>5
    <3>6. CASE t = "ProposalFailed"
      BY <2>2, <2>4, <2>6, <2>8, <2>10, <3>1, <3>6
    <3>7. CASE t = "ProposalCanceled"
      BY <2>2, <2>4, <2>6, <2>8, <2>10, <3>1, <3>7
    <3>8. CASE t = "PayloadSent"
      BY <2>4, <2>10, <3>8
    <3> QED
      BY <2>2, <3>2, <3>3, <3>4, <3>5, <3>6, <3>7, <3>8 DEF GovTypes
  <2>12. Shows(state'[q], Derived(q, "ProposalCreated")', Derived(q, "VotingActivated")',
               Derived(q, "ProposalQueued")', Derived(q, "ProposalExecuted")',
               Derived(q, "ProposalCanceled")', Derived(q, "ProposalFailed")')
    <3>1. \A typ : Derived(q, typ)' <=> is(typ) \/ typ = t
      BY <2>3
    <3> HIDE DEF is
    <3> QED
      BY <2>11, <3>1
  <2>13. ASSUME NEW p \in Proposals, p # q, NEW typ PROVE Derived(p, typ)' <=> Derived(p, typ)
    BY <2>3, <2>13
  <2>14. governance' = governance
    BY <1>3 DEF ApplyCreated, ApplyTransition, queueFixed, chainVars
  <2> QED
    BY <2>9, <2>12, <2>13, <2>14 DEF StateIsFurthest, Furthest, Exists, Ended
<1> QED
  BY <1>1, <1>2, <1>3, <1>4

PayloadTypes == {"PayloadSent", "PayloadCreated", "PayloadQueued", "PayloadExecuted",
                 "PayloadCancelled"}

LEMMA PayloadStep == ASSUME Shape, InHand, Moved, PayloadIsFurthest, Next PROVE PayloadIsFurthest'
<1>1. CASE /\ ~ApplyCreated /\ ~ApplyTransition /\ ~WriteVote /\ ~MarkVote /\ ~StitchPayload
           /\ ~Reconcile /\ ~ReconcileFails
  <2>1. /\ UNCHANGED <<status, actions>>
        /\ \A p, typ : Derived(p, typ)' <=> Derived(p, typ)
        /\ controller' = controller \/ \A p, typ : ~Derived(p, typ)
    BY <1>1, NoRowJoins
  <2> QED
    BY <2>1 DEF PayloadIsFurthest, FurthestStatus, Declared, Settled
<1>5. CASE Reconcile \/ ReconcileFails
  <2>1. /\ UNCHANGED <<controller, actions>>
        /\ \A p, typ : Derived(p, typ)' <=> Derived(p, typ)
    BY <1>5, ReconcileJoinsNone
  <2>2. ASSUME NEW p \in Proposals
        PROVE  \/ status'[p] = status[p]
               \/ /\ status[p] \in {"created", "queued"} /\ status'[p] = "expired"
                  /\ controller[p] = "expired"
    BY <1>5, ReconcileExpires DEF OpenStatuses
  <2> QED
    BY <2>1, <2>2 DEF PayloadIsFurthest, FurthestStatus, Declared, Settled
<1>2. ASSUME UNCHANGED <<status, actions, controller>>, batch # {}, log' = log, Row.typ \notin PayloadTypes,
             derived' \in {derived, derived \cup {First}}
      PROVE  PayloadIsFurthest'
  <2>1. \A p : \A typ \in PayloadTypes : Derived(p, typ)' <=> Derived(p, typ)
    <3>1. CASE derived' = derived
      BY <1>2, <3>1 DEF Derived
    <3>2. CASE derived' = derived \cup {First}
      BY <1>2, <3>2, RowJoins
    <3> QED
      BY <1>2, <3>1, <3>2
  <2> QED
    BY <1>2, <2>1 DEF PayloadIsFurthest, FurthestStatus, Declared, Settled, PayloadTypes
<1>3. CASE WriteVote \/ MarkVote \/ ApplyCreated \/ (ApplyTransition /\ Row.typ # "PayloadSent")
  <2>1. /\ batch # {} /\ log' = log /\ (Row.src = Machine \/ (Row.src = Gov /\ Row.typ # "PayloadSent"))
        /\ UNCHANGED <<status, actions, controller>>
        /\ derived' \in {derived, derived \cup {First}}
    BY <1>3 DEF WriteVote, MarkVote, ApplyCreated, ApplyTransition, At, MarkDerived, queueFixed,
       chainVars, payloadVars, InHand, Shape, TypeOK
  <2>2. Row.typ \notin PayloadTypes
    BY <2>1, RowIsLogged DEF Event, Gov, Machine, Controller, PayloadTypes
  <2> QED
    BY <1>2, <2>1, <2>2
<1>4. ASSUME (ApplyTransition /\ Row.typ = "PayloadSent") \/ StitchPayload PROVE PayloadIsFurthest'
  <2>1. batch # {} /\ derived' = derived \cup {First} /\ log' = log
        /\ (Row.src = Controller \/ Row.typ = "PayloadSent")
    BY <1>4 DEF StitchPayload, ApplyTransition, At, MarkDerived, queueFixed
  <2>2. PICK q \in Proposals, t \in PayloadTypes : q = Row.id /\ t = Row.typ
    BY <2>1, RowIsLogged DEF Event, Gov, Machine, Controller, PayloadTypes
  <2>3. \A p, typ : Derived(p, typ)' <=> Derived(p, typ) \/ (p = q /\ typ = t)
    BY <2>1, <2>2, RowJoins
  <2>4. /\ t = "PayloadSent" => /\ status' = IF status[q] = "none"
                                             THEN [status EXCEPT ![q] = "declared"] ELSE status
                                /\ actions' = actions
        /\ t # "PayloadSent" =>
              /\ status[q] # "none"
              /\ status' = IF status[q] \in StatusFrom(PayloadStatus)
                           THEN [status EXCEPT ![q] = PayloadStatus] ELSE status
              /\ actions' = IF t = "PayloadCreated" THEN actions \cup {q} ELSE actions
    <3>1. StitchPayload => t # "PayloadSent"
      BY <2>2, RowIsLogged DEF StitchPayload, At, Event, Gov, Machine, Controller
    <3> QED
      BY <1>4, <2>2, <3>1 DEF StitchPayload, ApplyTransition, Declared, InsertActions
  <2>5. /\ t = "PayloadCreated" => PayloadStatus = "created"
        /\ t = "PayloadQueued" => PayloadStatus = "queued"
        /\ t = "PayloadExecuted" => PayloadStatus = "executed"
        /\ t = "PayloadCancelled" => PayloadStatus = "cancelled"
    BY <2>2 DEF PayloadStatus
  <2>6. /\ t = "PayloadCreated" => status' =
              IF status[q] = "declared" THEN [status EXCEPT ![q] = "created"] ELSE status
        /\ t = "PayloadQueued" => status' =
              IF status[q] \in {"declared", "created"}
              THEN [status EXCEPT ![q] = "queued"] ELSE status
        /\ t = "PayloadExecuted" => status' =
              IF status[q] \in {"declared", "created", "queued"}
              THEN [status EXCEPT ![q] = "executed"] ELSE status
        /\ t = "PayloadCancelled" => status' =
              IF status[q] \in {"declared", "created", "queued"}
              THEN [status EXCEPT ![q] = "cancelled"] ELSE status
    BY <2>4, <2>5 DEF StatusFrom
  <2>7. Fits(q, t) /\ \A typ : Derived(q, typ) => Fits(q, typ)
    <3>1. Fits(Row.id, Row.typ)
      BY <2>1, RowIsLogged DEF Moved, Row
    <3> QED
      BY <2>2, <3>1, DerivedFits
  <2>8. status \in [Proposals -> PayloadStates \cup {"declared", "none"}]
    BY DEF Shape, TypeOK
  <2>9. ASSUME NEW p \in Proposals, p # q
        PROVE  status'[p] = status[p] /\ (p \in actions' <=> p \in actions)
    BY <2>2, <2>4, <2>6, <2>8, <2>9 DEF PayloadTypes
  <2> DEFINE is(typ) == Derived(q, typ)
             Shows(s, D, C, Q, X, N) ==
                 /\ (s # "none") <=> D
                 /\ X => s = "executed"
                 /\ N => s = "cancelled"
                 /\ ~(X \/ N) =>
                       \/ s = IF Q THEN "queued" ELSE IF C THEN "created"
                              ELSE IF s # "none" THEN "declared" ELSE "none"
                       \/ s = "expired" /\ controller[q] = "expired" /\ (Q \/ C)
  <2>10. Shows(status[q], is("PayloadSent"), is("PayloadCreated"), is("PayloadQueued"),
               is("PayloadExecuted"), is("PayloadCancelled"))
         /\ (is("PayloadCreated") => q \in actions)
    BY <2>2 DEF PayloadIsFurthest, FurthestStatus, Declared, Settled
  <2>11. Shows(status'[q],
               is("PayloadSent") \/ t = "PayloadSent",
               is("PayloadCreated") \/ t = "PayloadCreated",
               is("PayloadQueued") \/ t = "PayloadQueued",
               is("PayloadExecuted") \/ t = "PayloadExecuted",
               is("PayloadCancelled") \/ t = "PayloadCancelled")
    <3>1. /\ ~(is("PayloadExecuted") /\ t = "PayloadCancelled")
          /\ ~(is("PayloadCancelled") /\ t = "PayloadExecuted")
          /\ t \in {"PayloadExecuted", "PayloadCancelled"} => controller[q] # "expired"
      BY <2>7 DEF Fits
    <3>2. status[q] \in {"created", "queued", "executed", "cancelled", "declared", "none",
                         "expired"}
      BY <2>2, <2>8 DEF PayloadStates
    <3> HIDE DEF is
    <3>3. CASE t = "PayloadSent"
      BY <2>2, <2>4, <2>8, <2>10, <3>2, <3>3
    <3>4. CASE t = "PayloadCreated"
      BY <2>2, <2>4, <2>6, <2>8, <2>10, <3>2, <3>4
    <3>5. CASE t = "PayloadQueued"
      BY <2>2, <2>4, <2>6, <2>8, <2>10, <3>2, <3>5
    <3>6. CASE t = "PayloadExecuted"
      BY <2>2, <2>4, <2>6, <2>8, <2>10, <3>1, <3>2, <3>6
    <3>7. CASE t = "PayloadCancelled"
      BY <2>2, <2>4, <2>6, <2>8, <2>10, <3>1, <3>2, <3>7
    <3> QED
      BY <2>2, <3>3, <3>4, <3>5, <3>6, <3>7 DEF PayloadTypes
  <2>12. /\ Shows(status'[q], Derived(q, "PayloadSent")', Derived(q, "PayloadCreated")',
                  Derived(q, "PayloadQueued")', Derived(q, "PayloadExecuted")',
                  Derived(q, "PayloadCancelled")')
         /\ Derived(q, "PayloadCreated")' => q \in actions'
    <3>1. \A typ : Derived(q, typ)' <=> is(typ) \/ typ = t
      BY <2>3
    <3> HIDE DEF is
    <3>2. is("PayloadCreated") \/ t = "PayloadCreated" => q \in actions'
      BY <2>2, <2>4, <2>10
    <3> QED
      BY <2>11, <3>1, <3>2
  <2>13. ASSUME NEW p \in Proposals, p # q, NEW typ PROVE Derived(p, typ)' <=> Derived(p, typ)
    BY <2>3, <2>13
  <2>14. controller' = controller
    BY <1>4 DEF StitchPayload, ApplyTransition, queueFixed, chainVars
  <2> QED
    BY <2>9, <2>12, <2>13, <2>14 DEF PayloadIsFurthest, FurthestStatus, Declared, Settled
<1> QED
  BY <1>1, <1>3, <1>4, <1>5

-----------------------------------------------------------------------------
(* The inductive invariant and the theorems.                               *)

Inv ==
    /\ Shape /\ InHand /\ Moved
    /\ TitleOrLetter /\ VotesBound /\ Counted
    /\ StateIsFurthest /\ PayloadIsFurthest

LEMMA InvInductive == Init /\ [][Next]_vars => []Inv
<1>1. Init => Inv
  <2> SUFFICES ASSUME Init PROVE Inv
    OBVIOUS
  <2>1. /\ derived = {} /\ votes = {} /\ stage = "idle" /\ log = <<>> /\ expiring = {}
        /\ state = [p \in Proposals |-> "none"] /\ status = [p \in Proposals |-> "none"]
        /\ attempts = [i \in Positions |-> 0] /\ quarantined = {} /\ faults = 0
    BY DEF Init, QueueInit, StateInit
  <2>2. Moved /\ InHand /\ VotesBound /\ Counted
    BY <2>1 DEF Moved, InHand, VotesBound, Counted
  <2>3. TitleOrLetter /\ StateIsFurthest /\ PayloadIsFurthest
    BY <2>1 DEF TitleOrLetter, StateIsFurthest, PayloadIsFurthest, Furthest, FurthestStatus, Exists,
       Declared, Ended, Settled, Derived
  <2> QED
    BY <2>2, <2>3, ShapeInit DEF Inv
<1>2. Inv /\ [Next]_vars => Inv'
  <2> SUFFICES ASSUME Inv, [Next]_vars PROVE Inv'
    OBVIOUS
  <2>1. CASE Next
    BY <2>1, ShapeStep, InHandStep, MovedStep, TitleStep, VotesBoundStep, CountedStep, StateStep,
       PayloadStep DEF Inv
  <2>2. CASE UNCHANGED vars
    <3>1. Shape'
      BY <2>2 DEF vars, queueVars, rowVars, chainVars, proposalVars, payloadVars, Inv, Shape,
         TypeOK, QueueShape, QueueTypeOK, StateTypeOK, Exists, Archived
    <3>2. First' = First /\ Row' = Row
      BY <2>2, RowKept DEF vars, queueVars, rowVars
    <3>3. InHand' /\ Moved' /\ TitleOrLetter' /\ Counted'
      BY <2>2, <3>2 DEF vars, queueVars, rowVars, chainVars, proposalVars, payloadVars, Inv,
         InHand, Moved, Fits, TitleOrLetter, Counted, Exists
    <3>4. VotesBound'
      BY <2>2, <3>2 DEF vars, queueVars, rowVars, proposalVars, Inv, VotesBound, Archived
    <3>5. StateIsFurthest' /\ PayloadIsFurthest'
      BY <2>2 DEF vars, queueVars, rowVars, chainVars, proposalVars, payloadVars, Inv,
         StateIsFurthest, PayloadIsFurthest, Furthest, FurthestStatus, Exists, Declared, Ended, Settled, Derived
    <3> QED
      BY <3>1, <3>3, <3>4, <3>5 DEF Inv
  <2> QED
    BY <2>1, <2>2
<1> QED
  BY <1>1, <1>2, PTL

\* Every variable keeps its type: the queue of rows, the tables and the stage of
\* the handler.
THEOREM TypeCorrect == Spec => []TypeOK
<1>1. Inv => TypeOK
  BY DEF Inv, Shape
<1> QED
  BY <1>1, InvInductive, PTL DEF Spec

\* advanceState ignores what comes late and takes what comes early: the proposal
\* shows its furthest derived transition whatever was skipped and retried, or the
\* expiry its contract has come to and a reconciler has read.
THEOREM FurthestIsShown == Spec => []StateIsFurthest
<1>1. Inv => StateIsFurthest
  BY DEF Inv
<1> QED
  BY <1>1, InvInductive, PTL DEF Spec

\* The payload of a proposal is stitched from another contract's log, in whatever
\* order its rows were held and released; it too may show that it has expired.
THEOREM PayloadIsStitched == Spec => []PayloadIsFurthest
<1>1. Inv => PayloadIsFurthest
  BY DEF Inv
<1> QED
  BY <1>1, InvInductive, PTL DEF Spec

\* A derived vote has bound its proposal to the voting chain, but for a handler
\* that was interrupted between the two writes.
THEOREM VotesBind == Spec => []VotedIsBound
<1>1. Inv => VotedIsBound
  BY DEF Inv, VotesBound, VotedIsBound, Derived
<1> QED
  BY <1>1, InvInductive, PTL DEF Spec

\* The enrichment of a title can be interrupted anywhere: there is the title or
\* a letter for it.
THEOREM TitleIsNotForgotten == Spec => []TitleOrLetter
<1>1. Inv => TitleOrLetter
  BY DEF Inv
<1> QED
  BY <1>1, InvInductive, PTL DEF Spec

\* Waiting for another chain counts as no failure, for every threshold.
THEOREM HoldingIsFree == Spec => []HoldsAreNotFailures
<1>1. Inv => HoldsAreNotFailures
  <2> SUFFICES ASSUME Inv PROVE HoldsAreNotFailures
    OBVIOUS
  <2>1. DOMAIN log \subseteq Positions
    BY DEF Inv, Shape, TypeOK, QueueShape, QueueTypeOK, Positions
  <2> QED
    BY <2>1 DEF Inv, Counted, HoldsAreNotFailures
<1> QED
  BY <1>1, InvInductive, PTL DEF Spec
=============================================================================
