--------------------------- MODULE CompoundProofs ---------------------------
(***************************************************************************)
(* Proofs about CompoundGovernance, for every set of proposals and every   *)
(* log, batch and number of faults.                                        *)
(***************************************************************************)
EXTENDS CompoundGovernance, DerivationQueueProofs

USE QueueAssumption, CompoundAssumption DEF Event, States, Codes, historyVars

-----------------------------------------------------------------------------
(* Types.                                                                  *)

TableOK ==
    /\ state \in [Proposals -> States \cup {"none"}]
    /\ queuedAt \subseteq {p \in Proposals : state[p] # "none"}

TickOK ==
    /\ tick \in [view : [Proposals -> Codes], state : [Proposals -> States \cup {"none"}],
                 queuedAt : SUBSET Proposals]
    /\ rows \subseteq Proposals /\ checked \subseteq Proposals
    /\ writing \subseteq Proposals /\ \A p \in writing : Corrects(p)

Shape ==
    /\ QueueShape /\ log \in Seq(Event)
    /\ TableOK /\ TickOK
    /\ onchain \in [Proposals -> Codes]
    /\ early \subseteq derived /\ reverted \subseteq Proposals

LEMMA ShapeInit == Init => Shape
<1> SUFFICES ASSUME Init PROVE Shape
  OBVIOUS
<1>1. QueueShape
  BY QueueShapeInit DEF Init
<1>2. log \in Seq(Event)
  BY DEF Init, QueueInit
<1> QED
  BY <1>1, <1>2 DEF Init, StateInit, Shape, TableOK, TickOK, Idle

\* The row that is applied is one of the log.
LEMMA RowIsLogged ==
    ASSUME QueueShape, log \in Seq(Event), batch # {}
    PROVE  First \in batch /\ First \in 1..Len(log) /\ Row \in Event
<1>1. batch \subseteq Positions /\ batch \subseteq 1..Len(log)
  BY DEF QueueShape, QueueTypeOK, Archived, Positions
<1>2. \A i \in batch : log[i] \in Event
  <2> HIDE DEF Event
  <2> QED
    BY <1>1
<1>3. \A i \in batch : log[i].src \in DOMAIN ChainOf
  BY <1>2 DEF CompoundAssumption
<1>4. First \in batch
  BY <1>1, <1>3, FirstIsFirst
<1> QED
  BY <1>1, <1>2, <1>4 DEF Row

LEMMA LogGrows ==
    ASSUME QueueShape, log \in Seq(Event),
           NEW typ \in {"ProposalCreated", "ProposalQueued", "ProposalExecuted",
                        "ProposalCanceled"},
           NEW p \in Proposals, Logs(typ, p)
    PROVE  /\ log' \in Seq(Event) /\ Len(log') = Len(log) + 1 /\ Len(log') <= MaxLog
           /\ \A i \in 1..Len(log) : log'[i] = log[i]
           /\ log'[Len(log) + 1] = [src |-> "compound_governor", typ |-> typ, id |-> p]
<1> DEFINE e == [src |-> "compound_governor", typ |-> typ, id |-> p]
<1>1. e \in Event
  OBVIOUS
<1>2. Emit(<<e>>)
  BY DEF Logs
<1> HIDE DEF e
<1>3. <<e>> \in Seq(Event) /\ Len(<<e>>) = 1 /\ <<e>>[1] = e
  BY <1>1
<1>4. /\ log' \in Seq(Event) /\ Len(log') = Len(log) + 1 /\ Len(log') <= MaxLog
      /\ \A i \in 1..Len(log) : log'[i] = log[i]
      /\ \A i \in 1..1 : log'[Len(log) + i] = <<e>>[i]
  BY <1>2, <1>3, EmitAppends
<1> QED
  BY <1>3, <1>4 DEF e

\* What a row does to the table.
LEMMA RowOnTable ==
    ASSUME TableOK, Row \in Event, Created(Row.id) \/ Transition(Row.id)
    PROVE  /\ TableOK'
           /\ state' # state =>
                 \/ /\ Row.typ = "ProposalCreated" /\ state[Row.id] = "none"
                    /\ state' = [state EXCEPT ![Row.id] = "pending"]
                 \/ /\ Row.typ # "ProposalCreated" /\ Advances(Row.id, Target)
                    /\ Target \in {"queued", "executed", "canceled"}
                    /\ state' = [state EXCEPT ![Row.id] = Target]
<1>1. CASE Created(Row.id)
  BY <1>1 DEF Created, InsertProposal, TableOK, Exists
<1>2. CASE Transition(Row.id)
  <2>1. Target \in {"queued", "executed", "canceled"}
    BY <1>2 DEF Target, Transition
  <2>2. Advances(Row.id, Target) => state[Row.id] # "none"
    BY <2>1 DEF Advances, AllowedFrom
  <2> HIDE DEF Target
  <2> QED
    BY <1>2, <2>1, <2>2 DEF Transition, AdvanceState, TableOK
<1> QED
  BY <1>1, <1>2

\* What the reconciler writes.
LEMMA CorrectionOnTable ==
    ASSUME TableOK, TickOK, NEW p \in writing, Correct(p), queuedAt' = queuedAt
    PROVE  /\ TableOK'
           /\ OnchainState(p) \in {"defeated", "active", "expired"}
           /\ state' # state =>
                 /\ state[p] \in {"pending", "active", "succeeded", "queued"}
                 /\ state' = [state EXCEPT ![p] = OnchainState(p)]
<1>1. OnchainState(p) \in {"defeated", "active", "expired"}
  BY DEF TickOK, Corrects
<1> QED
  BY <1>1 DEF Correct, ReconcileState, TableOK, TickOK

LEMMA ShapeStep == ASSUME Shape, Next PROVE Shape'
<1> USE DEF Shape
<1>1. ASSUME NEW p \in Proposals, Transact(p) PROVE Shape'
  <2>1. PICK typ \in {"ProposalCreated", "ProposalQueued", "ProposalExecuted",
                      "ProposalCanceled"} : Logs(typ, p)
    BY <1>1 DEF Transact
  <2>2. onchain' \in [Proposals -> Codes]
    BY <1>1 DEF Transact, Becomes
  <2>3. log' \in Seq(Event) /\ Len(log') = Len(log) + 1 /\ Len(log') <= MaxLog
    BY <2>1, LogGrows
  <2>4. QueueShape'
    BY <1>1, <2>3, QueueShapeEmit DEF Transact, QueueShape
  <2> QED
    BY <1>1, <2>2, <2>3, <2>4 DEF Transact, rowVars, tableVars, reconcileVars, TableOK, TickOK,
       Corrects, OnchainState
<1>2. ASSUME NEW p \in Proposals, TimePasses(p) PROVE Shape'
  BY <1>2 DEF TimePasses, Becomes, queueVars, rowVars, tableVars, reconcileVars, TableOK,
     TickOK, Corrects, OnchainState, QueueShape, QueueTypeOK, Archived
<1>3. CASE ArchiveRow
  <2>1. PICK i \in 1..Len(log) : Archive(i, 1)
    BY <1>3 DEF ArchiveRow
  <2>2. QueueShape'
    BY <1>3, <2>1, QueueShapeArchive DEF ArchiveRow
  <2> QED
    BY <1>3, <2>2 DEF ArchiveRow, rowVars, tableVars, reconcileVars, TableOK, TickOK, Corrects,
       OnchainState
<1>4. CASE Begin
  <2>1. QueueShape'
    BY <1>4, QueueShapeWork DEF Begin, BeginTick, Derivable, QueueShape, QueueTypeOK
  <2> QED
    BY <1>4, <2>1 DEF Begin, tableVars, reconcileVars, TableOK, TickOK, Corrects, OnchainState
<1>5. CASE ApplyRow
  <2>1. First \in batch /\ Row \in Event
    BY <1>5, RowIsLogged DEF ApplyRow
  <2>2. TableOK'
    BY <1>5, <2>1, RowOnTable DEF ApplyRow
  <2>3. /\ derived' = derived \cup {First} /\ batch' = batch \ {First}
        /\ early' \subseteq early \cup {First} /\ reverted' = reverted
        /\ UNCHANGED <<log, received, attempts, held, quarantined, faults>>
    BY <1>5 DEF ApplyRow
  <2> HIDE DEF First
  <2>4. QueueShape'
    BY <2>1, <2>3, QueueShapeWork DEF QueueShape, QueueTypeOK
  <2> QED
    BY <1>5, <2>2, <2>3, <2>4 DEF ApplyRow, reconcileVars, TickOK, Corrects, OnchainState
<1>6. CASE RowFails
  <2>1. faults' \in 0..MaxFaults /\ attempts' \in [Positions -> 0..DlqThreshold]
    BY <1>6, FaultIsBounded, CountIsBounded DEF RowFails, Count, QueueShape, QueueTypeOK
  <2>2. QueueShape'
    BY <1>6, <2>1, QueueShapeWork DEF RowFails, Count, QueueShape, QueueTypeOK
  <2> QED
    BY <1>6, <2>2 DEF RowFails, tableVars, reconcileVars, TableOK, TickOK, Corrects, OnchainState
<1>7. CASE RunFails
  <2>1. faults' \in 0..MaxFaults
    BY <1>7, FaultIsBounded DEF RunFails, QueueShape, QueueTypeOK
  <2>2. QueueShape'
    BY <1>7, <2>1, QueueShapeWork DEF RunFails, SkipRun, QueueShape, QueueTypeOK
  <2> QED
    BY <1>7, <2>2 DEF RunFails, tableVars, reconcileVars, TableOK, TickOK, Corrects, OnchainState
<1>8. CASE BeginReconcile
  <2>1. QueueShape' /\ TableOK' /\ log' = log /\ onchain' = onchain /\ early' \subseteq derived'
        /\ reverted' \subseteq Proposals
    BY <1>8 DEF BeginReconcile, queueVars, rowVars, tableVars, TableOK, QueueShape,
       QueueTypeOK, Archived
  <2>2. TickOK'
    BY <1>8 DEF BeginReconcile, TickOK, TableOK
  <2> QED
    BY <2>1, <2>2
<1>9. CASE CheckState
  <2>1. QueueShape' /\ TableOK' /\ log' = log /\ onchain' = onchain /\ early' \subseteq derived'
        /\ reverted' \subseteq Proposals
    BY <1>9 DEF CheckState, queueVars, rowVars, tableVars, TableOK, QueueShape, QueueTypeOK,
       Archived
  <2>2. TickOK'
    BY <1>9 DEF CheckState, Rest, Idle, TickOK, Corrects, OnchainState
  <2> QED
    BY <2>1, <2>2
<1>10. CASE WriteState
  <2>1. TableOK'
    BY <1>10, CorrectionOnTable DEF WriteState
  <2>2. QueueShape' /\ log' = log /\ onchain' = onchain /\ early' \subseteq derived'
        /\ reverted' \subseteq Proposals
    BY <1>10 DEF WriteState, queueVars, rowVars, QueueShape, QueueTypeOK, Archived
  <2>3. TickOK'
    BY <1>10 DEF WriteState, Rest, Idle, TickOK
  <2> QED
    BY <2>1, <2>2, <2>3
<1>11. CASE ReconcileFails
  <2>1. faults' \in 0..MaxFaults
    BY <1>11, FaultIsBounded DEF ReconcileFails, QueueShape, QueueTypeOK
  <2>2. QueueShape' /\ TableOK' /\ log' = log /\ onchain' = onchain /\ early' \subseteq derived'
        /\ reverted' \subseteq Proposals
    BY <1>11, <2>1 DEF ReconcileFails, rowVars, tableVars, TableOK, QueueShape, QueueTypeOK,
       Archived
  <2>3. TickOK'
    BY <1>11 DEF ReconcileFails, Rest, Idle, TickOK, Corrects, OnchainState
  <2> QED
    BY <2>2, <2>3
<1>12. CASE GapPasses
  BY <1>12 DEF GapPasses, queueVars, rowVars, tableVars, TableOK, TickOK, Corrects,
     OnchainState, QueueShape, QueueTypeOK, Archived
<1>13. CASE Restart
  <2>1. faults' \in 0..MaxFaults
    BY <1>13, FaultIsBounded DEF Restart, QueueShape, QueueTypeOK
  <2>2. QueueShape'
    BY <1>13, <2>1, QueueShapeWork DEF Restart, QueueShape, QueueTypeOK
  <2> QED
    BY <1>13, <2>2 DEF Restart, tableVars, TableOK, TickOK, Idle
<1> QED
  BY <1>1, <1>2, <1>3, <1>4, <1>5, <1>6, <1>7, <1>8, <1>9, <1>10, <1>11, <1>12, <1>13
  DEF Next, Contract, Worker, Reconciler

-----------------------------------------------------------------------------
(* What was so on chain.                                                   *)

\* What logs and reads of the contract say remains true of it.
Past == {"queued", "expired", "executed", "canceled"}

Logged ==
    \A i \in 1..Len(log) :
        /\ log[i].typ = "ProposalQueued" => onchain[log[i].id] \in Past
        /\ log[i].typ = "ProposalExecuted" => onchain[log[i].id] = "executed"
        /\ log[i].typ = "ProposalCanceled" => onchain[log[i].id] = "canceled"

Seen ==
    \A p \in Proposals :
        /\ tick.view[p] = "active" => Opened(p)
        /\ tick.view[p] \in {"defeated", "expired"} =>
              onchain[p] \in {tick.view[p], "canceled"}

Honest == Logged /\ Seen /\ ShownWasTrue

\* No move of the contract takes back what Honest says.
LEMMA ContractMoves ==
    ASSUME onchain \in [Proposals -> Codes], NEW p \in Proposals,
           Transact(p) \/ TimePasses(p), NEW q \in Proposals
    PROVE  /\ Opened(q) => Opened(q)'
           /\ PastQueue(q) => PastQueue(q)'
           /\ onchain[q] \in Past => onchain'[q] \in Past
           /\ onchain[q] \in {"executed", "canceled"} => onchain'[q] = onchain[q]
           /\ onchain[q] \in {"defeated", "expired"} => onchain'[q] \in {onchain[q], "canceled"}
<1> USE DEF Becomes, Opened, PastQueue, Past
<1>1. CASE TimePasses(p)
  BY <1>1 DEF TimePasses
<1>2. CASE Transact(p)
  BY <1>2 DEF Transact
<1> QED
  BY <1>1, <1>2

LEMMA HonestContract ==
    ASSUME Shape, Honest, NEW p \in Proposals, Transact(p) \/ TimePasses(p)
    PROVE  Honest'
<1>1. onchain \in [Proposals -> Codes] /\ tick' = tick /\ state' = state
  BY DEF Shape, Transact, TimePasses, reconcileVars, tableVars
<1>2. Seen'
  BY <1>1, ContractMoves DEF Honest, Seen
<1>3. ShownWasTrue'
  <2> SUFFICES ASSUME NEW q \in Proposals
               PROVE  /\ state[q] = "active" => Opened(q)'
                      /\ state[q] = "queued" => PastQueue(q)'
                      /\ state[q] \in {"executed", "canceled"} => onchain'[q] = state[q]
                      /\ state[q] \in {"defeated", "expired"} =>
                            onchain'[q] \in {state[q], "canceled"}
    BY <1>1 DEF ShownWasTrue
  <2> QED
    BY <1>1, ContractMoves DEF Honest, ShownWasTrue
<1>4. \A i \in 1..Len(log) : log[i].id \in Proposals
  <2>1. \A i \in 1..Len(log) : log[i] \in Event
    <3> HIDE DEF Event
    <3> QED
      BY DEF Shape
  <2> QED
    BY <2>1
<1>5. ASSUME NEW i \in 1..Len(log)
      PROVE  /\ log[i].typ = "ProposalQueued" => onchain'[log[i].id] \in Past
             /\ log[i].typ = "ProposalExecuted" => onchain'[log[i].id] = "executed"
             /\ log[i].typ = "ProposalCanceled" => onchain'[log[i].id] = "canceled"
  <2> DEFINE q == log[i].id
  <2>1. q \in Proposals
    BY <1>4
  <2> QED
    BY <1>1, <2>1, ContractMoves DEF Honest, Logged
<1>6. CASE TimePasses(p)
  BY <1>2, <1>3, <1>5, <1>6 DEF TimePasses, queueVars, Honest, Logged
<1>7. CASE Transact(p)
  <2>1. PICK typ \in {"ProposalCreated", "ProposalQueued", "ProposalExecuted",
                      "ProposalCanceled"} :
          /\ Logs(typ, p)
          /\ typ = "ProposalQueued" => onchain'[p] = "queued"
          /\ typ = "ProposalExecuted" => onchain'[p] = "executed"
          /\ typ = "ProposalCanceled" => onchain'[p] = "canceled"
    BY <1>1, <1>7 DEF Transact, Becomes
  <2>2. /\ log' \in Seq(Event) /\ Len(log') = Len(log) + 1 /\ Len(log) \in Nat
        /\ \A i \in 1..Len(log) : log'[i] = log[i]
        /\ log'[Len(log) + 1] = [src |-> "compound_governor", typ |-> typ, id |-> p]
    BY <2>1, LogGrows DEF Shape, QueueShape
  <2>3. Logged'
    <3> SUFFICES ASSUME NEW i \in 1..(Len(log) + 1)
                 PROVE  /\ log'[i].typ = "ProposalQueued" => onchain'[log'[i].id] \in Past
                        /\ log'[i].typ = "ProposalExecuted" => onchain'[log'[i].id] = "executed"
                        /\ log'[i].typ = "ProposalCanceled" => onchain'[log'[i].id] = "canceled"
      BY <2>2 DEF Logged
    <3>1. CASE i \in 1..Len(log)
      BY <1>5, <2>2, <3>1
    <3>2. CASE i = Len(log) + 1
      BY <2>1, <2>2, <3>2 DEF Past
    <3> QED
      BY <2>2, <3>1, <3>2
  <2> QED
    BY <1>2, <1>3, <2>3 DEF Honest
<1> QED
  BY <1>6, <1>7

LEMMA HonestStep == ASSUME Shape, Honest, Next PROVE Honest'
<1>1. ASSUME NEW p \in Proposals, Transact(p) \/ TimePasses(p) PROVE Honest'
  BY <1>1, HonestContract
<1>2. CASE ApplyRow
  <2>1. First \in 1..Len(log) /\ Row \in Event /\ UNCHANGED <<log, onchain, tick>>
    BY <1>2, RowIsLogged DEF ApplyRow, Shape, reconcileVars
  <2>2. /\ Row.typ = "ProposalQueued" => PastQueue(Row.id)
        /\ Row.typ = "ProposalExecuted" => onchain[Row.id] = "executed"
        /\ Row.typ = "ProposalCanceled" => onchain[Row.id] = "canceled"
    BY <2>1 DEF Honest, Logged, Row, Past, PastQueue
  <2>3. state' # state =>
           \/ state' = [state EXCEPT ![Row.id] = "pending"]
           \/ /\ Target \in {"queued", "executed", "canceled"} /\ Row.typ # "ProposalCreated"
              /\ state' = [state EXCEPT ![Row.id] = Target]
    BY <1>2, <2>1, RowOnTable DEF ApplyRow, Shape
  <2>4. ShownWasTrue'
    <3>1. state \in [Proposals -> States \cup {"none"}] /\ Row.id \in Proposals
      BY <2>1 DEF Shape, TableOK
    <3>2. CASE state' = state
      BY <2>1, <3>2 DEF Honest, ShownWasTrue, Opened, PastQueue
    <3>3. CASE state' = [state EXCEPT ![Row.id] = "pending"]
      BY <2>1, <3>1, <3>3 DEF Honest, ShownWasTrue, Opened, PastQueue
    <3>4. CASE /\ Target \in {"queued", "executed", "canceled"} /\ Row.typ # "ProposalCreated"
               /\ state' = [state EXCEPT ![Row.id] = Target]
      <4>1. /\ Target = "queued" => PastQueue(Row.id)
            /\ Target \in {"executed", "canceled"} => onchain[Row.id] = Target
        BY <2>1, <2>2, <3>4 DEF Target
      <4> HIDE DEF Target
      <4> QED
        BY <2>1, <3>1, <3>4, <4>1 DEF Honest, ShownWasTrue, Opened, PastQueue
    <3> QED
      BY <2>3, <3>2, <3>3, <3>4
  <2> QED
    BY <2>1, <2>4 DEF Honest, Logged, Seen, Opened, PastQueue
<1>3. CASE WriteState
  <2>1. UNCHANGED <<log, onchain>> /\ (tick' = tick \/ tick' = Idle)
    BY <1>3 DEF WriteState, Rest, queueVars
  <2>2. PICK p \in writing : Correct(p)
    BY <1>3 DEF WriteState
  <2>3. /\ p \in Proposals /\ state \in [Proposals -> States \cup {"none"}]
        /\ OnchainState(p) \in {"defeated", "active", "expired"}
        /\ state' # state => state' = [state EXCEPT ![p] = OnchainState(p)]
    BY <1>3, <2>2, CorrectionOnTable DEF WriteState, Shape, TableOK, TickOK
  <2>4. /\ OnchainState(p) = "active" => Opened(p)
        /\ OnchainState(p) \in {"defeated", "expired"} =>
              onchain[p] \in {OnchainState(p), "canceled"}
    BY <2>3 DEF Honest, Seen, OnchainState
  <2>5. ShownWasTrue'
    BY <2>1, <2>3, <2>4 DEF Honest, ShownWasTrue, Opened, PastQueue
  <2>6. Seen'
    BY <2>1 DEF Honest, Seen, Idle, Opened
  <2> QED
    BY <2>1, <2>5, <2>6 DEF Honest, Logged, PastQueue
<1>4. CASE BeginReconcile
  BY <1>4 DEF BeginReconcile, queueVars, tableVars, Honest, Logged, Seen, ShownWasTrue,
     Opened, PastQueue, Shape
<1>5. CASE CheckState \/ ReconcileFails \/ Restart
  <2>1. UNCHANGED <<log, onchain, state>> /\ (tick' = tick \/ tick' = Idle)
    BY <1>5 DEF CheckState, ReconcileFails, Restart, Rest, queueVars, tableVars
  <2> QED
    BY <2>1 DEF Honest, Logged, Seen, ShownWasTrue, Idle, Opened, PastQueue
<1>6. CASE ArchiveRow \/ Begin \/ RowFails \/ RunFails \/ GapPasses
  <2>1. UNCHANGED <<log, onchain, state, tick>>
    BY <1>6 DEF ArchiveRow, Begin, RowFails, RunFails, GapPasses, queueVars, tableVars,
       reconcileVars
  <2> QED
    BY <2>1 DEF Honest, Logged, Seen, ShownWasTrue, Opened, PastQueue
<1> QED
  BY <1>1, <1>2, <1>3, <1>4, <1>5, <1>6 DEF Next, Contract, Worker, Reconciler

-----------------------------------------------------------------------------
(* Rows applied in order.                                                  *)

Is(i, p, typ) == log[i].id = p /\ log[i].typ = typ

\* A proposal's rows: created first, executed only after queued, nothing after
\* a cancellation; what was queued was never defeated.
RowOK(j) ==
    LET p == log[j].id IN
    /\ onchain[p] # "none"
    /\ log[j].typ # "ProposalCreated" => \E i \in 1..(j - 1) : Is(i, p, "ProposalCreated")
    /\ log[j].typ = "ProposalExecuted" => \E i \in 1..(j - 1) : Is(i, p, "ProposalQueued")
    /\ \A i \in 1..(j - 1) : ~Is(i, p, "ProposalCanceled")
    /\ log[j].typ = "ProposalQueued" => "defeated" \notin {tick.view[p], state[p]}

RowsOK == \A j \in 1..Len(log) : RowOK(j)

\* The contract logs where it is.
Backed ==
    \A p \in Proposals :
        /\ onchain[p] # "none" => \E i \in 1..Len(log) : Is(i, p, "ProposalCreated")
        /\ onchain[p] = "queued" => \E i \in 1..Len(log) : Is(i, p, "ProposalQueued")

ArchivedInOrder == \A i \in Archived : \A j \in 1..(i - 1) : j \in Archived

\* A row that is not early has no earlier row of its proposal to come.
EarlyIsKnown ==
    \A j \in derived \ early : \A i \in 1..(j - 1) : log[i].id = log[j].id => i \in derived

Applied(p, typ) == \E i \in derived : Is(i, p, typ)

\* What the events carry is in the table by an applied row only, and the silent
\* end of a queued proposal by a tick that has seen its queued_at_block.
Sourced ==
    /\ tick.queuedAt \subseteq queuedAt
    /\ \A p \in Proposals :
          /\ state[p] = "queued" \/ p \in queuedAt => Applied(p, "ProposalQueued")
          /\ state[p] = "executed" => Applied(p, "ProposalExecuted")
          /\ state[p] = "canceled" => Applied(p, "ProposalCanceled")
          /\ state[p] = "expired" => p \in queuedAt
          /\ state[p] \notin {"succeeded", "vetoed"}

Orders == RowsOK /\ Backed /\ ArchivedInOrder /\ EarlyIsKnown /\ Sourced /\ InOrderIsKept

\* What the table owes to an applied row.
Owed(i) ==
    LET p == log[i].id IN
    CASE log[i].typ = "ProposalCreated" -> Exists(p)
      [] log[i].typ = "ProposalQueued" ->
            /\ p \in queuedAt
            /\ \/ state[p] \in {"queued", "executed", "canceled", "expired"}
               \/ state[p] = "active" /\ p \in reverted
      [] log[i].typ = "ProposalExecuted" -> state[p] = "executed"
      [] log[i].typ = "ProposalCanceled" -> state[p] \in {"canceled", "defeated", "expired"}

LEMMA InOrderIsOwed ==
    InOrderIsKept <=> \A i \in derived : Orderly(log[i].id) => Owed(i)
BY DEF InOrderIsKept, Owed

LEMMA EventsAreTyped ==
    ASSUME Shape
    PROVE  /\ Len(log) \in Nat /\ derived \subseteq 1..Len(log) /\ Archived \subseteq 1..Len(log)
           /\ derived \subseteq Archived
           /\ \A i \in 1..Len(log) :
                 /\ log[i].id \in Proposals /\ log[i].src = "compound_governor"
                 /\ log[i].typ \in {"ProposalCreated", "ProposalQueued", "ProposalExecuted",
                                    "ProposalCanceled"}
<1>1. \A i \in 1..Len(log) : log[i] \in Event
  <2> HIDE DEF Event
  <2> QED
    BY DEF Shape
<1>2. Len(log) \in Nat /\ derived \subseteq Archived /\ Archived \subseteq 1..Len(log)
  BY DEF Shape, QueueShape, Archived, Positions
<1> QED
  BY <1>1, <1>2

\* Nothing more is owed, to the same rows by the same table.
LEMMA OwedStays ==
    ASSUME UNCHANGED <<derived, historyVars, state, queuedAt>>, InOrderIsKept,
           early \subseteq derived, \A i \in derived : log'[i] = log[i]
    PROVE  InOrderIsKept'
<1>1. \A i \in derived : Owed(i)' <=> Owed(i)
  <2> SUFFICES ASSUME NEW i \in derived, log'[i] = log[i] PROVE Owed(i)' <=> Owed(i)
    OBVIOUS
  <2> QED
    BY DEF Owed, Exists
<1>2. \A i \in derived : Orderly(log[i].id)' <=> Orderly(log[i].id)
  BY DEF Orderly
<1>3. \A i \in derived : Orderly(log[i].id)' => Owed(i)'
  BY <1>1, <1>2, InOrderIsOwed
<1> QED
  BY <1>3 DEF InOrderIsKept, Owed

\* The same rows, the same table, and a tick that has at most forgotten what it
\* read.
LEMMA OrdersStay ==
    ASSUME Shape, Orders, UNCHANGED <<log, received, derived, historyVars, onchain, state, queuedAt>>,
           tick' \in {tick, Idle}
    PROVE  Orders'
<1>1. RowsOK'
  <2>1. \A p \in Proposals : tick'.view[p] = "defeated" => tick.view[p] = "defeated"
    BY DEF Idle
  <2>2. \A j \in 1..Len(log) : log[j].id \in Proposals
    BY EventsAreTyped
  <2> QED
    BY <2>1, <2>2 DEF Orders, RowsOK, RowOK, Is
<1>2. Sourced'
  <2>1. tick'.queuedAt \subseteq tick.queuedAt
    BY DEF Idle
  <2> QED
    BY <2>1 DEF Orders, Sourced, Applied, Is
<1>3. Backed' /\ ArchivedInOrder' /\ EarlyIsKnown'
  BY DEF Orders, Backed, Is, ArchivedInOrder, Archived, EarlyIsKnown
<1>4. InOrderIsKept'
  BY OwedStays DEF Orders, Shape
<1> QED
  BY <1>1, <1>2, <1>3, <1>4 DEF Orders

LEMMA OrdersContract ==
    ASSUME Shape, Honest, Orders, NEW p \in Proposals, Transact(p) \/ TimePasses(p)
    PROVE  Orders'
<1>1. /\ onchain \in [Proposals -> Codes]
      /\ UNCHANGED <<state, queuedAt, tick, received, derived, historyVars>>
  BY DEF Shape, Transact, TimePasses, reconcileVars, tableVars, queueVars, rowVars
<1>2. \A q \in Proposals : onchain[q] # "none" => onchain'[q] # "none"
  BY <1>1 DEF Transact, TimePasses, Becomes
<1>3. CASE TimePasses(p)
  <2>1. log' = log
    BY <1>3 DEF TimePasses, queueVars
  <2>2. \A q \in Proposals : /\ onchain'[q] # "none" => onchain[q] # "none"
                             /\ onchain'[q] = "queued" => onchain[q] = "queued"
    BY <1>1, <1>3 DEF TimePasses, Becomes
  <2>3. RowsOK' /\ Backed'
    BY <1>1, <1>2, <2>1, <2>2, EventsAreTyped DEF Orders, RowsOK, RowOK, Backed, Is
  <2>4. InOrderIsKept'
    BY <1>1, <2>1, OwedStays DEF Orders, Shape
  <2>5. ArchivedInOrder' /\ EarlyIsKnown' /\ Sourced'
    BY <1>1, <2>1 DEF Orders, ArchivedInOrder, Archived, EarlyIsKnown, Sourced, Applied, Is
  <2> QED
    BY <2>3, <2>4, <2>5 DEF Orders
<1>4. CASE Transact(p)
  <2>1. PICK typ \in {"ProposalCreated", "ProposalQueued", "ProposalExecuted",
                      "ProposalCanceled"} :
          /\ Logs(typ, p)
          /\ onchain[p] # "canceled" /\ onchain'[p] # "none"
          /\ typ = "ProposalCreated" <=> onchain[p] = "none"
          /\ typ = "ProposalQueued" => onchain[p] = "succeeded"
          /\ typ = "ProposalExecuted" => onchain[p] = "queued"
          /\ onchain'[p] = "queued" => typ = "ProposalQueued"
    BY <1>1, <1>4 DEF Transact, Becomes
  <2>2. /\ log' \in Seq(Event) /\ Len(log') = Len(log) + 1 /\ Len(log) \in Nat
        /\ \A i \in 1..Len(log) : log'[i] = log[i]
        /\ log'[Len(log) + 1] = [src |-> "compound_governor", typ |-> typ, id |-> p]
    BY <2>1, LogGrows DEF Shape, QueueShape
  <2>3. \A q \in Proposals \ {p} : onchain'[q] = onchain[q]
    BY <1>1, <1>4 DEF Transact, Becomes
  <2>4. \A i \in 1..Len(log) : \A q, t : Is(i, q, t)' <=> Is(i, q, t)
    BY <2>2 DEF Is
  <2>5. RowsOK'
    <3> SUFFICES ASSUME NEW j \in 1..(Len(log) + 1)
                 PROVE  RowOK(j)'
      BY <2>2 DEF RowsOK
    <3>1. CASE j \in 1..Len(log)
      <4>1. /\ log'[j] = log[j] /\ log[j].id \in Proposals
            /\ \A i \in 1..(j - 1) : i \in 1..Len(log) /\ log'[i] = log[i]
        BY <2>2, <3>1, EventsAreTyped
      <4>2. RowOK(j)
        BY <3>1 DEF Orders, RowsOK
      <4> QED
        BY <1>1, <1>2, <4>1, <4>2 DEF RowOK, Is
    <3>2. CASE j = Len(log) + 1
      <4>1. /\ log'[j].id = p /\ log'[j].typ = typ /\ j - 1 = Len(log)
            /\ \A i \in 1..(j - 1) : i \in 1..Len(log) /\ log'[i] = log[i]
        BY <2>2, <3>2
      <4>2. typ # "ProposalCreated" => \E i \in 1..Len(log) : Is(i, p, "ProposalCreated")
        BY <2>1 DEF Orders, Backed
      <4>3. typ = "ProposalExecuted" => \E i \in 1..Len(log) : Is(i, p, "ProposalQueued")
        BY <2>1 DEF Orders, Backed
      <4>4. \A i \in 1..Len(log) : ~Is(i, p, "ProposalCanceled")
        BY <2>1 DEF Honest, Logged, Is
      <4>5. typ = "ProposalQueued" => "defeated" \notin {tick.view[p], state[p]}
        BY <2>1 DEF Honest, Seen, ShownWasTrue
      <4> QED
        BY <1>1, <2>1, <4>1, <4>2, <4>3, <4>4, <4>5 DEF RowOK, Is
    <3> QED
      BY <2>2, <3>1, <3>2
  <2>6. Backed'
    <3> SUFFICES ASSUME NEW q \in Proposals
                 PROVE  /\ onchain'[q] # "none" =>
                              \E i \in 1..(Len(log) + 1) : Is(i, q, "ProposalCreated")'
                        /\ onchain'[q] = "queued" =>
                              \E i \in 1..(Len(log) + 1) : Is(i, q, "ProposalQueued")'
      BY <2>2 DEF Backed, Is
    <3>1. 1..Len(log) \subseteq 1..(Len(log) + 1) /\ Len(log) + 1 \in 1..(Len(log) + 1)
      BY <2>2
    <3>2. CASE q # p
      BY <2>3, <2>4, <3>1, <3>2 DEF Orders, Backed
    <3>3. CASE q = p
      <4>1. log'[Len(log) + 1].id = p /\ log'[Len(log) + 1].typ = typ
        BY <2>2
      <4>2. onchain[p] # "none" => \E i \in 1..Len(log) : Is(i, p, "ProposalCreated")
        BY DEF Orders, Backed
      <4> QED
        BY <2>1, <2>4, <3>1, <3>3, <4>1, <4>2 DEF Is
    <3> QED
      BY <3>2, <3>3
  <2>7. ArchivedInOrder'
    BY <1>1 DEF Orders, ArchivedInOrder, Archived
  <2>8. derived \subseteq 1..Len(log) /\ early \subseteq derived
    BY EventsAreTyped DEF Shape
  <2>9. EarlyIsKnown'
    <3>1. \A j \in derived : \A i \in 1..(j - 1) : i \in 1..Len(log)
      BY <2>2, <2>8
    <3> QED
      BY <1>1, <2>2, <2>8, <3>1 DEF Orders, EarlyIsKnown
  <2>10. Sourced'
    <3>1. \A q, t : Applied(q, t)' <=> Applied(q, t)
      BY <1>1, <2>4, <2>8 DEF Applied
    <3> QED
      BY <1>1, <3>1 DEF Orders, Sourced
  <2>11. InOrderIsKept'
    BY <1>1, <2>2, <2>8, OwedStays DEF Orders
  <2> QED
    BY <2>5, <2>6, <2>7, <2>9, <2>10, <2>11 DEF Orders
<1> QED
  BY <1>3, <1>4

LEMMA OrdersArchive ==
    ASSUME Shape, Orders, ArchiveRow
    PROVE  Orders'
<1>1. PICK i \in 1..Len(log) : Archive(i, 1)
  BY DEF ArchiveRow, Shape
<1>2. UNCHANGED <<log, derived, historyVars, onchain, state, queuedAt, tick>>
  BY DEF ArchiveRow, rowVars, tableVars, reconcileVars
<1>3. Archived' = Archived \cup {i}
  BY <1>1, <1>2, QueueShapeArchive DEF ArchiveRow, Shape
<1>4. ArchivedInOrder'
  <2>1. \A j \in 1..(i - 1) : j \in Archived
    <3>1. \A j \in 1..(i - 1) : j \in 1..Len(log) /\ j \in Positions
      BY <1>1, EventsAreTyped DEF Positions, Shape, QueueShape, QueueTypeOK
    <3> QED
      BY <1>1, <3>1, EventsAreTyped DEF Archive, Archived
  <2> QED
    BY <1>3, <2>1 DEF Orders, ArchivedInOrder
<1>5. InOrderIsKept'
  BY <1>2, OwedStays DEF Orders, Shape
<1> QED
  BY <1>2, <1>4, <1>5 DEF Orders, RowsOK, RowOK, Backed, EarlyIsKnown, Sourced, Applied, Is

\* The reads of a new tick are of the contract as it is, which was not defeated if
\* it was queued.
LEMMA OrdersBegin ==
    ASSUME Shape, Honest, Orders, BeginReconcile
    PROVE  Orders'
<1>1. /\ UNCHANGED <<log, received, derived, historyVars, onchain, state, queuedAt>>
      /\ tick' = [view |-> onchain, state |-> state, queuedAt |-> queuedAt]
  BY DEF BeginReconcile, queueVars, rowVars, tableVars
<1>2. RowsOK'
  <2> SUFFICES ASSUME NEW j \in 1..Len(log) PROVE RowOK(j)'
    BY <1>1 DEF RowsOK
  <2>1. RowOK(j) /\ (log[j].typ = "ProposalQueued" => onchain[log[j].id] # "defeated")
    BY DEF Orders, RowsOK, Honest, Logged, Past
  <2> QED
    BY <1>1, <2>1 DEF RowOK, Is
<1>3. Sourced'
  BY <1>1 DEF Orders, Sourced, Applied, Is
<1>4. InOrderIsKept'
  BY <1>1, OwedStays DEF Orders, Shape
<1> QED
  BY <1>1, <1>2, <1>3, <1>4 DEF Orders, Backed, Is, ArchivedInOrder, Archived, EarlyIsKnown

\* A correction opens, defeats or lets expire: what was queued is not defeated, and
\* expires only with its queued_at_block.
LEMMA OrdersWrite ==
    ASSUME Shape, Orders, WriteState
    PROVE  Orders'
<1>1. /\ UNCHANGED <<log, received, derived, early, onchain, queuedAt>> /\ tick' \in {tick, Idle}
      /\ early \subseteq derived
      /\ reverted' = reverted \cup {q \in Proposals : state[q] = "queued" /\ state'[q] = "active"}
  BY DEF WriteState, queueVars, rowVars, Rest, Shape
<1>2. PICK p \in writing : Correct(p)
  BY DEF WriteState
<1>3. /\ p \in Proposals /\ state \in [Proposals -> States \cup {"none"}]
      /\ OnchainState(p) \in {"defeated", "active", "expired"}
      /\ OnchainState(p) = "expired" => p \in queuedAt
      /\ state' # state =>
            /\ state[p] \in {"pending", "active", "succeeded", "queued"}
            /\ state' = [state EXCEPT ![p] = OnchainState(p)]
  <2>1. queuedAt' = queuedAt /\ TableOK /\ TickOK
    BY <1>1 DEF Shape
  <2>2. Corrects(p) /\ p \in Proposals
    BY <2>1 DEF TickOK
  <2>3. OnchainState(p) = "expired" => p \in queuedAt
    BY <2>2 DEF Corrects, Orders, Sourced
  <2> QED
    BY <1>2, <2>1, <2>2, <2>3, CorrectionOnTable DEF TableOK
<1> DEFINE to == OnchainState(p)
<1>4. to = tick.view[p]
  BY DEF OnchainState
<1> HIDE DEF to
<1>5. RowsOK'
  <2> SUFFICES ASSUME NEW j \in 1..Len(log) PROVE RowOK(j)'
    BY <1>1 DEF RowsOK
  <2>1. RowOK(j) /\ log[j].id \in Proposals
    BY EventsAreTyped DEF Orders, RowsOK
  <2>2. \A q \in Proposals : /\ state'[q] = "defeated" => "defeated" \in {state[q], tick.view[q]}
                             /\ tick'.view[q] = "defeated" => tick.view[q] = "defeated"
    BY <1>1, <1>3, <1>4 DEF Idle, to
  <2> QED
    BY <1>1, <2>1, <2>2 DEF RowOK, Is
<1>6. Sourced'
  <2>1. \A q, t : Applied(q, t)' <=> Applied(q, t)
    BY <1>1 DEF Applied, Is
  <2>2. tick'.queuedAt \subseteq tick.queuedAt
    BY <1>1 DEF Idle
  <2>3. \A q \in Proposals : \/ state'[q] = state[q]
                             \/ state'[q] \in {"defeated", "active"}
                             \/ state'[q] = "expired" /\ q \in queuedAt
    BY <1>3
  <2> QED
    BY <1>1, <2>1, <2>2, <2>3 DEF Orders, Sourced
<1>7. InOrderIsKept'
  <2> SUFFICES ASSUME NEW i \in derived, Orderly(log[i].id) PROVE Owed(i)'
    BY <1>1 DEF InOrderIsKept, Owed, Orderly
  <2>1. /\ Owed(i) /\ RowOK(i) /\ log[i].id \in Proposals
        /\ log[i].typ \in {"ProposalCreated", "ProposalQueued", "ProposalExecuted",
                           "ProposalCanceled"}
    BY InOrderIsOwed, EventsAreTyped DEF Orders, RowsOK
  <2>2. CASE state' = state
    BY <1>1, <2>1, <2>2 DEF Owed, Exists
  <2>3. CASE state' # state
    <3>1. /\ state[p] \in {"pending", "active", "succeeded", "queued"}
          /\ state'[p] = to /\ to \in {"defeated", "active", "expired"}
          /\ \A q \in Proposals \ {p} : state'[q] = state[q]
      BY <1>3, <2>3 DEF to
    <3>2. log[i].typ = "ProposalQueued" => tick.view[log[i].id] # "defeated"
      BY <2>1 DEF RowOK
    <3> QED
      BY <1>1, <1>4, <2>1, <3>1, <3>2 DEF Owed, Exists
  <2> QED
    BY <2>2, <2>3
<1> QED
  BY <1>1, <1>5, <1>6, <1>7 DEF Orders, Backed, Is, ArchivedInOrder, Archived, EarlyIsKnown

\* What a row whose earlier rows are applied finds, and leaves.
LEMMA RowIsOwed ==
    ASSUME Shape, Honest, Orders, batch # {}, NEW f, NEW p, f = First, p = Row.id,
           Created(p) \/ Transition(p), log' = log, f \notin derived, Orderly(p),
           \A i \in 1..(f - 1) : log[i].id = p => i \in derived
    PROVE  Owed(f)'
<1>1. f \in batch /\ f \in 1..Len(log) /\ p \in Proposals /\ p = log[f].id /\ Row = log[f]
  <2>1. First \in batch /\ First \in 1..Len(log)
    BY RowIsLogged DEF Shape
  <2> QED
    BY <2>1, EventsAreTyped DEF Row
<1>2. RowOK(f) /\ state \in [Proposals -> States \cup {"none"}] /\ state[p] \notin {"succeeded", "vetoed"}
  BY <1>1 DEF Orders, RowsOK, Sourced, Shape, TableOK
<1>3. \A i \in derived : log[i].id = p => i \notin early /\ Owed(i)
  BY InOrderIsOwed DEF Orders, Orderly
<1>4. \A i \in 1..(f - 1) : log[i].id = p => Owed(i)
  BY <1>1, <1>3
<1>5. Row.typ # "ProposalCreated" => Exists(p)
  <2> SUFFICES ASSUME Row.typ # "ProposalCreated" PROVE Exists(p)
    OBVIOUS
  <2>1. PICK i \in 1..(f - 1) : Is(i, p, "ProposalCreated")
    BY <1>1, <1>2 DEF RowOK
  <2> QED
    BY <1>4, <2>1 DEF Is, Owed
<1>6. /\ Row.typ = "ProposalExecuted" => onchain[p] = "executed"
      /\ Row.typ = "ProposalCanceled" => onchain[p] = "canceled"
      /\ state[p] \in {"executed", "canceled"} => onchain[p] = state[p]
      /\ state[p] = "expired" => onchain[p] \in {"expired", "canceled"}
  BY <1>1 DEF Honest, Logged, ShownWasTrue
<1>7. (\E i \in derived : Is(i, p, "ProposalQueued")) =>
         p \in queuedAt /\ state[p] \in {"queued", "executed", "canceled", "expired", "active"}
  BY <1>3 DEF Is, Owed
<1> USE DEF Owed
<1>8. CASE Row.typ = "ProposalCreated"
  <2>1. Created(p)
    BY <1>8 DEF Transition
  <2>2. Exists(p)'
    BY <1>1, <1>2, <2>1 DEF Created, InsertProposal, Exists
  <2> QED
    BY <1>1, <1>8, <2>2
<1>9. CASE Row.typ = "ProposalQueued"
  <2>1. /\ state' = IF Advances(p, "queued") THEN [state EXCEPT ![p] = "queued"] ELSE state
        /\ queuedAt' = IF Advances(p, "queued") THEN queuedAt \cup {p} ELSE queuedAt
        /\ Advances(p, "queued") <=> state[p] \in {"pending", "active"}
    BY <1>9 DEF Created, Transition, Target, AdvanceState, Advances, AllowedFrom, Terminal
  <2>2. state[p] # "defeated" /\ state[p] # "none"
    BY <1>1, <1>2, <1>5, <1>9 DEF RowOK, Exists
  <2>3. state[p] # "canceled"
    <3> SUFFICES ASSUME state[p] = "canceled" PROVE FALSE
      OBVIOUS
    <3>1. PICK j \in derived : Is(j, p, "ProposalCanceled")
      BY <1>1, <3>1 DEF Orders, Sourced, Applied
    <3>2. j # f /\ j \notin early /\ j \in 1..Len(log)
      <4>1. log[j].typ = "ProposalCanceled" /\ log[j].id = p /\ j \in 1..Len(log)
        BY <3>1, EventsAreTyped DEF Is
      <4> QED
        BY <1>1, <1>3, <1>9, <4>1
    <3>3. ~(j < f)
      <4>1. j < f => j \in 1..(f - 1)
        BY <1>1, EventsAreTyped
      <4> QED
        BY <1>1, <1>2, <3>1, <4>1 DEF RowOK
    <3>4. f \in 1..(j - 1)
      BY <1>1, <3>2, <3>3, EventsAreTyped
    <3> QED
      BY <1>1, <3>1, <3>2, <3>4 DEF Orders, EarlyIsKnown, Is
  <2>4. state[p] \in {"queued", "executed", "expired"} =>
           \E i \in derived : Is(i, p, "ProposalQueued")
    <3>1. CASE state[p] \in {"queued", "expired"}
      BY <1>1, <3>1 DEF Orders, Sourced, Applied
    <3>2. CASE state[p] = "executed"
      <4>1. PICK j \in derived : Is(j, p, "ProposalExecuted")
        BY <1>1, <3>2 DEF Orders, Sourced, Applied
      <4>2. j \in 1..Len(log) /\ RowOK(j) /\ j \notin early
        BY <1>3, <4>1, EventsAreTyped DEF Orders, RowsOK, Is
      <4>3. PICK i \in 1..(j - 1) : Is(i, p, "ProposalQueued")
        BY <4>1, <4>2 DEF RowOK, Is
      <4>4. i \in derived
        BY <4>1, <4>2, <4>3 DEF Orders, EarlyIsKnown, Is
      <4> QED
        BY <4>3, <4>4
    <3> QED
      BY <3>1, <3>2
  <2>5. p \in queuedAt' /\ state'[p] \in {"queued", "executed", "expired"}
    <3>1. CASE state[p] \in {"pending", "active"}
      BY <1>1, <1>2, <2>1, <3>1
    <3>2. CASE state[p] \in {"queued", "executed", "expired"}
      BY <1>7, <2>1, <2>4, <3>2
    <3> QED
      BY <1>1, <1>2, <2>2, <2>3, <3>1, <3>2
  <2> QED
    BY <1>1, <1>9, <2>5
<1>10. CASE Row.typ = "ProposalExecuted"
  <2>1. /\ state' = IF Advances(p, "executed") THEN [state EXCEPT ![p] = "executed"] ELSE state
        /\ Advances(p, "executed") <=> state[p] \in {"pending", "queued", "active"}
    BY <1>10 DEF Created, Transition, Target, AdvanceState, Advances, AllowedFrom, Terminal
  <2>2. PICK i \in 1..(f - 1) : Is(i, p, "ProposalQueued")
    BY <1>1, <1>2, <1>10 DEF RowOK
  <2>3. state[p] \notin {"none", "pending", "defeated"}
    BY <1>4, <2>2 DEF Is
  <2>4. state[p] \in {"queued", "active", "executed"}
    BY <1>1, <1>2, <1>6, <1>10, <2>3
  <2>5. state'[p] = "executed"
    BY <1>1, <1>2, <2>1, <2>4
  <2> QED
    BY <1>1, <1>10, <2>5
<1>11. CASE Row.typ = "ProposalCanceled"
  <2>1. /\ state' = IF Advances(p, "canceled") THEN [state EXCEPT ![p] = "canceled"] ELSE state
        /\ Advances(p, "canceled") <=> state[p] \in {"pending", "queued", "active"}
    BY <1>11 DEF Created, Transition, Target, AdvanceState, Advances, AllowedFrom, Terminal
  <2>2. state[p] \notin {"none", "executed"}
    BY <1>5, <1>6, <1>11 DEF Exists
  <2>3. state'[p] \in {"canceled", "defeated", "expired"}
    BY <1>1, <1>2, <2>1, <2>2
  <2> QED
    BY <1>1, <1>11, <2>3
<1> QED
  BY <1>1, <1>8, <1>9, <1>10, <1>11, EventsAreTyped

LEMMA OrdersApply ==
    ASSUME Shape, Honest, Orders, ApplyRow
    PROVE  Orders'
<1>0. PICK f, p : f = First /\ p = Row.id
  OBVIOUS
<1>1. /\ f \in batch /\ f \in 1..Len(log) /\ f \in Archived /\ p \in Proposals
      /\ p = log[f].id /\ Row = log[f] /\ Row \in Event
  <2>1. First \in batch /\ First \in 1..Len(log) /\ Row \in Event
    BY RowIsLogged DEF Shape, ApplyRow
  <2>2. batch \subseteq Archived
    BY DEF Shape, QueueShape
  <2> QED
    BY <1>0, <2>1, <2>2, EventsAreTyped DEF Row
<1>2. /\ UNCHANGED <<log, received, onchain, tick, reverted>>
      /\ derived' = derived \cup {f}
      /\ early' = IF Skipped(f) THEN early \cup {f} ELSE early
      /\ batch # {} /\ (Created(p) \/ Transition(p)) /\ early \subseteq derived
  BY <1>0 DEF ApplyRow, reconcileVars, Shape
<1>3. /\ state \in [Proposals -> States \cup {"none"}]
      /\ state' # state =>
            \/ state[p] = "none" /\ state' = [state EXCEPT ![p] = "pending"]
            \/ /\ Row.typ = "ProposalQueued" /\ state[p] \in {"pending", "active"}
               /\ state' = [state EXCEPT ![p] = "queued"]
            \/ /\ Row.typ = "ProposalExecuted" /\ state[p] \in {"pending", "queued", "active"}
               /\ state' = [state EXCEPT ![p] = "executed"]
            \/ /\ Row.typ = "ProposalCanceled" /\ state[p] \in {"pending", "queued", "active"}
               /\ state' = [state EXCEPT ![p] = "canceled"]
      /\ queuedAt \subseteq queuedAt'
      /\ queuedAt' # queuedAt => Row.typ = "ProposalQueued" /\ queuedAt' = queuedAt \cup {p}
  <2>1. TableOK /\ state \in [Proposals -> States \cup {"none"}]
    BY DEF Shape, TableOK
  <2>2. CASE Created(p)
    BY <2>1, <2>2 DEF Created, InsertProposal, Exists
  <2>3. CASE Transition(p)
    <3>1. Row.typ \in {"ProposalQueued", "ProposalExecuted", "ProposalCanceled"}
      BY <1>1, <2>3 DEF Transition
    <3> QED
      BY <2>1, <2>3, <3>1
      DEF Transition, Target, AdvanceState, Advances, AllowedFrom, Terminal
  <2> QED
    BY <1>2, <2>1, <2>2, <2>3
<1>4. ~Skipped(f) => \A i \in 1..(f - 1) : log[i].id = p => i \in derived
  <2>1. \A i \in 1..(f - 1) : i \in Archived /\ i < f
    BY <1>1 DEF Orders, ArchivedInOrder
  <2> QED
    BY <1>1, <2>1 DEF Skipped
<1>5. /\ f \notin derived /\ Orderly(p)' => ~Skipped(f) /\ Orderly(p)
      /\ \A q : Orderly(q)' => Orderly(q)
  BY <1>1, <1>2 DEF Orderly
<1>6. f \notin derived /\ Orderly(p)' => Owed(f)'
  BY <1>0, <1>2, <1>4, <1>5, RowIsOwed
<1>7. EarlyIsKnown'
  <2> SUFFICES ASSUME NEW j \in derived', j \notin early',
                      NEW i \in 1..(j - 1), log[i].id = log[j].id
               PROVE  i \in derived'
    BY <1>2 DEF EarlyIsKnown
  <2>1. CASE j \in derived
    BY <1>2, <2>1 DEF Orders, EarlyIsKnown
  <2>2. CASE j = f
    BY <1>1, <1>2, <1>4, <2>2
  <2> QED
    BY <1>2, <2>1, <2>2
<1>8. RowsOK'
  <2> SUFFICES ASSUME NEW j \in 1..Len(log) PROVE RowOK(j)'
    BY <1>2 DEF RowsOK
  <2>1. RowOK(j) /\ log[j].id \in Proposals
    BY EventsAreTyped DEF Orders, RowsOK
  <2>2. \A q \in Proposals : state'[q] = "defeated" => state[q] = "defeated"
    BY <1>3
  <2> QED
    BY <1>2, <2>1, <2>2 DEF RowOK, Is
<1>9. Sourced'
  <2>1. \A q, t : Applied(q, t) => Applied(q, t)'
    BY <1>2 DEF Applied, Is
  <2>2. f \in derived' /\ Is(f, p, Row.typ) /\ \A t : Is(f, p, t) => Applied(p, t)'
    BY <1>1, <1>2 DEF Applied, Is
  <2>3. \A q \in Proposals :
           \/ state'[q] = state[q] \/ state'[q] = "pending"
           \/ /\ q = p
              /\ \/ state'[q] = "queued" /\ Row.typ = "ProposalQueued"
                 \/ state'[q] = "executed" /\ Row.typ = "ProposalExecuted"
                 \/ state'[q] = "canceled" /\ Row.typ = "ProposalCanceled"
    BY <1>1, <1>3
  <2>4. \A q \in Proposals : q \in queuedAt' => q \in queuedAt \/ (q = p /\ Row.typ = "ProposalQueued")
    <3>1. CASE queuedAt' = queuedAt
      BY <3>1, Zenon
    <3>2. CASE queuedAt' # queuedAt
      BY <1>3, <3>2
    <3> QED
      BY <3>1, <3>2
  <2>5. tick'.queuedAt \subseteq queuedAt'
    BY <1>2, <1>3 DEF Orders, Sourced
  <2>6. ASSUME NEW q \in Proposals
        PROVE  /\ state'[q] = "queued" \/ q \in queuedAt' => Applied(q, "ProposalQueued")'
               /\ state'[q] = "executed" => Applied(q, "ProposalExecuted")'
               /\ state'[q] = "canceled" => Applied(q, "ProposalCanceled")'
               /\ state'[q] = "expired" => q \in queuedAt'
               /\ state'[q] \notin {"succeeded", "vetoed"}
    BY <1>3, <2>1, <2>2, <2>3, <2>4 DEF Orders, Sourced
  <2> QED
    BY <2>5, <2>6 DEF Sourced
<1>10. InOrderIsKept'
  <2> SUFFICES ASSUME NEW i \in derived', Orderly(log[i].id)' PROVE Owed(i)'
    BY <1>2 DEF InOrderIsKept, Owed
  <2>1. CASE i \in derived
    <3>1. /\ Owed(i) /\ log[i].id \in Proposals
          /\ log[i].typ \in {"ProposalCreated", "ProposalQueued", "ProposalExecuted",
                             "ProposalCanceled"}
      BY <1>2, <1>5, <2>1, InOrderIsOwed, EventsAreTyped DEF Orders
    <3>2. CASE state' = state
      BY <1>2, <1>3, <3>1, <3>2 DEF Owed, Exists
    <3>3. CASE state' # state
      <4>1. \A q \in Proposals :
               \/ state'[q] = state[q]
               \/ state[q] = "none" /\ state'[q] = "pending"
               \/ /\ state[q] \in {"pending", "queued", "active"}
                  /\ state'[q] \in {"queued", "executed", "canceled"}
        BY <1>3, <3>3
      <4> QED
        BY <1>2, <1>3, <3>1, <4>1 DEF Owed, Exists
    <3> QED
      BY <3>2, <3>3
  <2>2. CASE i \notin derived
    <3>1. i = f /\ log[i].id = p
      BY <1>1, <1>2, <2>2
    <3> QED
      BY <1>1, <1>2, <1>6, <2>2, <3>1 DEF Orderly
  <2> QED
    BY <2>1, <2>2
<1> QED
  BY <1>2, <1>7, <1>8, <1>9, <1>10 DEF Orders, Backed, Is, ArchivedInOrder, Archived

LEMMA OrdersStep == ASSUME Shape, Honest, Orders, Next PROVE Orders'
<1>1. ASSUME NEW p \in Proposals, Transact(p) \/ TimePasses(p) PROVE Orders'
  BY <1>1, OrdersContract
<1>2. CASE \/ Begin \/ RowFails \/ RunFails
           \/ CheckState \/ ReconcileFails \/ GapPasses \/ Restart
  <2>1. /\ UNCHANGED <<log, received, derived, historyVars, onchain, state, queuedAt>>
        /\ tick' \in {tick, Idle}
    BY <1>2 DEF Begin, RowFails, RunFails, CheckState, ReconcileFails, GapPasses, Restart,
       Rest, queueVars, rowVars, tableVars, reconcileVars
  <2> QED
    BY <2>1, OrdersStay
<1> QED
  BY <1>1, <1>2, OrdersArchive, OrdersApply, OrdersBegin, OrdersWrite
  DEF Next, Contract, Worker, Reconciler

-----------------------------------------------------------------------------
(* The theorems.                                                           *)

Inv == Shape /\ Honest /\ Orders

LEMMA InvInductive == (Init => Inv) /\ (Inv /\ [Next]_vars => Inv')
<1>1. ASSUME Init PROVE Inv
  <2>1. Shape
    BY <1>1, ShapeInit
  <2>2. Honest
    BY <1>1 DEF Init, QueueInit, StateInit, Idle, Honest, Logged, Seen, ShownWasTrue
  <2>3. Orders
    BY <1>1 DEF Init, QueueInit, StateInit, Idle, Orders, RowsOK, Backed, ArchivedInOrder,
       Archived, EarlyIsKnown, Sourced, InOrderIsKept
  <2> QED
    BY <2>1, <2>2, <2>3 DEF Inv
<1>2. ASSUME Inv, Next PROVE Inv'
  BY <1>2, ShapeStep, HonestStep, OrdersStep DEF Inv
<1>3. ASSUME Inv, UNCHANGED vars PROVE Inv'
  <2>1. Orders'
    BY <1>3, OrdersStay DEF Inv, vars, queueVars, rowVars, tableVars, reconcileVars
  <2> QED
    BY <1>3, <2>1 DEF Inv, Shape, QueueShape, QueueTypeOK, Archived, TableOK, TickOK, Corrects,
     OnchainState, Honest, Logged, Seen, ShownWasTrue, Opened, PastQueue,
     vars, queueVars, rowVars, tableVars, reconcileVars
<1> QED
  BY <1>1, <1>2, <1>3

\* The queue, the proposal table and the tick in flight stay well typed; what
\* a tick is about to write is one of the silent states.
THEOREM TypeCorrect == Spec => []TypeOK
<1>1. Inv => TypeOK
  BY DEF Inv, Shape, QueueShape, TableOK, TickOK, TypeOK, StateTypeOK, Exists
<1> QED
  BY InvInductive, <1>1, PTL DEF Spec

\* Nothing is shown that was not so on chain, for any number of proposals:
\* applier and reconciler write one table from logs and reads of any age.
THEOREM NothingIsMadeUp == Spec => []ShownWasTrue
<1>1. Inv => ShownWasTrue
  BY DEF Inv, Honest
<1> QED
  BY InvInductive, <1>1, PTL DEF Spec

\* While the rows of a proposal are applied in the order they were logged, each one
\* leaves its mark, and no later row and no correction of the reconciler takes it
\* away, whatever fails, restarts or is read long before it is written: but for
\* `queued`, which an older `active` of the reconciler may replace.
THEOREM TransitionsAreKept == Spec => []InOrderIsKept
<1>1. Inv => InOrderIsKept
  BY DEF Inv, Orders
<1> QED
  BY InvInductive, <1>1, PTL DEF Spec

\* No correction of a tick that read the row before, and no late or repeated
\* event, takes a proposal out of an end.
THEOREM EndsStay == Spec => EndsAreFinal
<1> DEFINE Stays == \A p \in Proposals : state[p] \in Final => state'[p] = state[p]
<1>1. ASSUME Inv, Next PROVE Stays
  <2> USE DEF Final
  <2>1. state \in [Proposals -> States \cup {"none"}]
    BY <1>1 DEF Inv, Shape, TableOK
  <2>2. CASE ApplyRow
    <3>1. Row \in Event
      BY <1>1, <2>2, RowIsLogged DEF ApplyRow, Inv, Shape
    <3>2. state' # state =>
             \/ state[Row.id] = "none" /\ state' = [state EXCEPT ![Row.id] = "pending"]
             \/ /\ Advances(Row.id, Target) /\ Target \in {"queued", "executed", "canceled"}
                /\ state' = [state EXCEPT ![Row.id] = Target]
      BY <1>1, <2>2, <3>1, RowOnTable DEF ApplyRow, Inv, Shape
    <3>3. Advances(Row.id, Target) /\ Target \in {"queued", "executed", "canceled"} =>
             state[Row.id] \notin Final
      BY DEF Advances, AllowedFrom, Terminal
    <3> HIDE DEF Target
    <3> QED
      BY <2>1, <3>1, <3>2, <3>3
  <2>3. CASE WriteState
    <3>1. PICK p \in writing : Correct(p)
      BY <2>3 DEF WriteState
    <3>2. state' # state =>
             /\ state[p] \in {"pending", "active", "succeeded", "queued"}
             /\ state' = [state EXCEPT ![p] = OnchainState(p)]
      BY <1>1, <2>3, <3>1, CorrectionOnTable DEF WriteState, Inv, Shape
    <3> QED
      BY <2>1, <3>2
  <2>4. CASE ~(ApplyRow \/ WriteState)
    BY <1>1, <2>4 DEF Next, Contract, Worker, Reconciler, Transact, TimePasses, ArchiveRow,
       Begin, RowFails, RunFails, BeginReconcile, CheckState, ReconcileFails, GapPasses,
       Restart, tableVars
  <2> QED
    BY <2>2, <2>3, <2>4
<1>2. Inv /\ [Next]_vars => [Stays]_vars
  BY <1>1
<1> QED
  BY InvInductive, <1>2, PTL DEF Spec, EndsAreFinal

=============================================================================
