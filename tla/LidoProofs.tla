----------------------------- MODULE LidoProofs -----------------------------
(***************************************************************************)
(* Proofs about LidoGovernance, for every set of votes, any number of      *)
(* Dual Governance submissions, and every log, batch and number of faults. *)
(***************************************************************************)
EXTENDS LidoGovernance, DerivationQueueProofs, FiniteSetTheorems

USE QueueAssumption, LidoAssumption DEF Table!States

-----------------------------------------------------------------------------
(* Types.                                                                  *)

StateOK == state \in [Keys -> Table!States \cup {"none"}]

TableOK ==
    /\ StateOK
    /\ ledger \in [DgIds -> Entry \cup {NoEntry}]
    /\ history \subseteq Nat
    /\ overtaken \subseteq DgIds

Shape ==
    /\ QueueShape /\ log \in Seq(Event)
    /\ TableOK
    /\ stage \in {"idle", "inserted", "written"} /\ todo \subseteq DgIds
    /\ \A d \in todo : ledger[d] # NoEntry
    /\ batch \cap derived = {}

LEMMA ShapeIsTyped == Shape /\ (stage # "idle" => batch # {}) => LidoTypeOK
BY DEF Shape, QueueShape, TableOK, StateOK, LidoTypeOK, Table!StateTypeOK

LEMMA ShapeInit == Init => Shape
<1> SUFFICES ASSUME Init PROVE Shape
  OBVIOUS
<1>1. QueueShape
  BY QueueShapeInit DEF Init
<1>2. log \in Seq(Event) /\ batch = {}
  BY DEF Init, QueueInit
<1>3. TableOK
  BY DEF Init, Table!StateInit, TableOK, StateOK
<1> QED
  BY <1>1, <1>2, <1>3 DEF Init, Shape

\* What an event of each kind is about.
LEMMA EventKinds ==
    ASSUME NEW e \in Event
    PROVE  /\ e.tx \in Positions /\ e.block \in Positions
           /\ \/ /\ e.src = "aragon_voting" /\ e.id \in Votes
                 /\ e.typ \in {"StartVote", "ExecuteVote"}
              \/ /\ e.src = "dual_governance" /\ e.id \in DgIds
                 /\ e.typ \in {"ProposalSubmitted", "ProposalSubmittedMeta", "ProposalScheduled",
                               "ProposalExecuted", "ProposalsCancelledTill", "RageQuit"}
BY DEF Event

LEMMA LoggedIsEvent ==
    ASSUME Shape, NEW i \in DOMAIN log
    PROVE  /\ log[i] \in Event /\ i \in Positions /\ i \in Nat
           /\ log[i].tx \in Nat /\ log[i].block \in Nat
<1>1. log \in Seq(Event) /\ Len(log) \in Nat /\ Len(log) <= MaxLog
  BY DEF Shape, QueueShape, QueueTypeOK
<1>2. log[i] \in Event /\ i \in 1..Len(log)
  BY <1>1
<1> QED
  BY <1>1, <1>2, EventKinds DEF Positions

\* The row that is applied is one of the log.
LEMMA RowIsLogged ==
    ASSUME Shape, batch # {}
    PROVE  /\ First \in batch /\ First \in Archived /\ First \notin derived
           /\ First \in DOMAIN log /\ First \in Positions /\ Row = log[First] /\ Row \in Event
<1>1. batch \subseteq Positions /\ batch \subseteq DOMAIN log /\ batch \subseteq Archived
  BY DEF Shape, QueueShape, QueueTypeOK, Archived, Positions
<1>2. \A i \in batch : log[i].src \in DOMAIN ChainOf
  BY <1>1, LoggedIsEvent, EventKinds
<1>3. First \in batch
  BY <1>1, <1>2, FirstIsFirst
<1> QED
  BY <1>1, <1>3, LoggedIsEvent DEF Row, Shape

\* Archived rows are logged.
LEMMA ArchivedIsLogged ==
    ASSUME Shape
    PROVE  Archived \subseteq DOMAIN log /\ Archived \subseteq Positions
BY DEF Shape, QueueShape, QueueTypeOK, Archived, Positions

-----------------------------------------------------------------------------
(* The chain.                                                              *)

Once == {"ProposalSubmitted", "ExecuteVote"}
CancelsFrom(i, d) == log[i].typ = "ProposalsCancelledTill" /\ log[i].id >= d

\* Blocks and transactions are numbered in order; a transaction submits once,
\* enacts once, and lies in one block.
Numbered ==
    /\ \A i \in DOMAIN log : log[i].block <= log[i].tx /\ log[i].tx <= i
    /\ \A i, j \in DOMAIN log :
          /\ log[i].tx = log[j].tx => log[i].block = log[j].block
          /\ i <= j => log[i].block <= log[j].block

Unique ==
    \A i, j \in DOMAIN log :
        (/\ log[i].typ \in Once /\ log[i].typ = log[j].typ
         /\ log[i].id = log[j].id \/ log[i].tx = log[j].tx) => i = j

\* Submissions are numbered in order; a bulk cancel comes after the submissions
\* and the executions it is about.
Ordered ==
    /\ \A d, e \in DgIds :
          d < e /\ Logged("ProposalSubmitted", e) => Logged("ProposalSubmitted", d)
    /\ \A i, j \in DOMAIN log :
          /\ log[i].typ \in {"ProposalSubmitted", "ProposalExecuted"}
          /\ CancelsFrom(j, log[i].id)
          => i < j
    /\ \A j \in DOMAIN log, d \in DgIds : CancelsFrom(j, d) => Logged("ProposalSubmitted", d)

ChainOK == Numbered /\ Unique /\ Ordered

Call == ({"aragon_voting"} \X {"StartVote", "ExecuteVote"} \X Votes)
   \cup ({"dual_governance"} \X {"ProposalSubmitted", "ProposalSubmittedMeta",
            "ProposalScheduled", "ProposalExecuted", "ProposalsCancelledTill", "RageQuit"} \X DgIds)

\* What a transaction with these calls appends.
Appends(calls, block) ==
    /\ log' \in Seq(Event) /\ Len(log') = Len(log) + Len(calls) /\ Len(log') <= MaxLog
    /\ \A i \in 1..Len(log) : log'[i] = log[i]
    /\ \A k \in 1..Len(calls) :
          /\ log'[Len(log) + k].src = calls[k][1] /\ log'[Len(log) + k].typ = calls[k][2]
          /\ log'[Len(log) + k].id = calls[k][3]
          /\ log'[Len(log) + k].tx = Len(log) + 1 /\ log'[Len(log) + k].block = block
    /\ block \in Nat /\ block <= Len(log) + 1
    /\ \A i \in 1..Len(log) : log[i].block <= block

LEMMA TransactAppends ==
    ASSUME Shape, Numbered, NEW calls \in Seq(Call), calls # <<>>, Transact(calls)
    PROVE  \E block : Appends(calls, block)
<1>1. /\ log \in Seq(Event) /\ Len(log) \in Nat /\ DOMAIN log = 1..Len(log)
      /\ Len(calls) \in Nat \ {0} /\ DOMAIN calls = 1..Len(calls) /\ MaxLog \in Nat
  BY DEF Shape
<1>2. PICK block \in Blocks :
         Emit([k \in DOMAIN calls |->
                [src |-> calls[k][1], typ |-> calls[k][2], id |-> calls[k][3],
                 tx |-> Len(log) + 1, block |-> block]])
  BY DEF Transact
<1> DEFINE event(k) == [src |-> calls[k][1], typ |-> calls[k][2], id |-> calls[k][3],
                        tx |-> Len(log) + 1, block |-> block]
           events == [k \in DOMAIN calls |-> event(k)]
<1>3. Len(log) + Len(calls) <= MaxLog
  BY <1>1, <1>2 DEF Emit
<1>4. /\ LastBlock \in Nat /\ LastBlock <= Len(log)
      /\ \A i \in 1..Len(log) : log[i].block <= LastBlock
      /\ log # <<>> => LastBlock # 0
  <2>1. CASE log = <<>>
    BY <1>1, <2>1 DEF LastBlock
  <2>2. CASE log # <<>>
    <3>1. Len(log) \in DOMAIN log
      BY <1>1, <2>2
    <3>2. LastBlock = log[Len(log)].block
      BY <2>2 DEF LastBlock
    <3>3. log[Len(log)].block \in Positions
      BY <3>1, LoggedIsEvent, EventKinds
    <3>4. \A i \in 1..Len(log) : i <= Len(log) /\ i \in DOMAIN log
      BY <1>1
    <3>5. log[Len(log)].block <= log[Len(log)].tx /\ log[Len(log)].tx <= Len(log)
      BY <3>1 DEF Numbered
    <3>6. \A i \in 1..Len(log) : log[i].block <= log[Len(log)].block
      BY <3>1, <3>4 DEF Numbered
    <3>7. log[Len(log)].block \in Nat \ {0} /\ log[Len(log)].tx \in Nat
      BY <3>1, <3>3, LoggedIsEvent DEF Positions
    <3>8. log[Len(log)].block <= Len(log)
      BY <1>1, <3>5, <3>7
    <3> QED
      BY <3>2, <3>6, <3>7, <3>8
  <2> QED
    BY <2>1, <2>2
<1>5. block \in Nat \ {0} /\ block <= Len(log) + 1 /\ \A i \in 1..Len(log) : log[i].block <= block
  <2>1. block \in {LastBlock, LastBlock + 1} /\ (log = <<>> => block = LastBlock + 1)
    BY DEF Blocks
  <2>2. \A i \in 1..Len(log) : log[i].block \in Nat
    BY <1>1, LoggedIsEvent
  <2> QED
    BY <1>1, <1>4, <2>1, <2>2
<1>6. \A k \in 1..Len(calls) : event(k) \in Event
  <2>1. Len(log) + 1 \in Positions /\ block \in Positions
    BY <1>1, <1>3, <1>5 DEF Positions
  <2> SUFFICES ASSUME NEW k \in 1..Len(calls) PROVE event(k) \in Event
    OBVIOUS
  <2>2. calls[k] \in Call
    BY <1>1
  <2> QED
    BY <2>1, <2>2 DEF Call, Event
<1>7. /\ events \in Seq(Event) /\ Len(events) = Len(calls)
      /\ \A k \in 1..Len(calls) : events[k] = event(k)
  <2> HIDE DEF event
  <2> QED
    BY <1>1, <1>6
<1>8. Emit(events)
  BY <1>2
<1> HIDE DEF events
<1>9. /\ log' \in Seq(Event) /\ Len(log') = Len(log) + Len(events) /\ Len(log') <= MaxLog
      /\ \A i \in 1..Len(log) : log'[i] = log[i]
      /\ \A i \in 1..Len(events) : log'[Len(log) + i] = events[i]
  BY <1>1, <1>7, <1>8, EmitAppends
<1>10. \A k \in 1..Len(calls) : log'[Len(log) + k] = event(k)
  <2> HIDE DEF event
  <2> QED
    BY <1>7, <1>9
<1>11. \A k \in 1..Len(calls) :
          /\ log'[Len(log) + k].src = calls[k][1] /\ log'[Len(log) + k].typ = calls[k][2]
          /\ log'[Len(log) + k].id = calls[k][3]
          /\ log'[Len(log) + k].tx = Len(log) + 1 /\ log'[Len(log) + k].block = block
  <2>1. \A k : /\ event(k).src = calls[k][1] /\ event(k).typ = calls[k][2]
               /\ event(k).id = calls[k][3]
               /\ event(k).tx = Len(log) + 1 /\ event(k).block = block
    OBVIOUS
  <2> HIDE DEF event
  <2> QED
    BY <1>10, <2>1
<1>12. Appends(calls, block)
  <2> HIDE DEF event
  <2> QED
    BY <1>5, <1>7, <1>9, <1>11 DEF Appends
<1> QED
  BY <1>12

\* A position after a transaction is an old one, or that of one of its calls.
LEMMA OldOrNew ==
    ASSUME Shape, NEW calls \in Seq(Call), NEW block, Appends(calls, block), NEW i \in DOMAIN log'
    PROVE  /\ i \in Nat /\ Len(log) \in Nat
           /\ \/ i \in DOMAIN log /\ i <= Len(log) /\ log'[i] = log[i]
              \/ /\ i > Len(log) /\ i - Len(log) \in 1..Len(calls)
                 /\ calls[i - Len(log)] \in Call
                 /\ log'[i].src = calls[i - Len(log)][1] /\ log'[i].typ = calls[i - Len(log)][2]
                 /\ log'[i].id = calls[i - Len(log)][3]
                 /\ log'[i].tx = Len(log) + 1 /\ log'[i].block = block
<1>1. /\ log \in Seq(Event) /\ Len(log) \in Nat /\ DOMAIN log = 1..Len(log)
      /\ Len(calls) \in Nat /\ log' \in Seq(Event) /\ Len(log') = Len(log) + Len(calls)
  BY DEF Shape, Appends
<1>2. i \in 1..(Len(log) + Len(calls))
  BY <1>1
<1>3. CASE i <= Len(log)
  BY <1>1, <1>2, <1>3 DEF Appends
<1>4. CASE i > Len(log)
  <2>1. i - Len(log) \in 1..Len(calls) /\ Len(log) + (i - Len(log)) = i
    BY <1>1, <1>2, <1>4
  <2>2. calls[i - Len(log)] \in Call
    BY <2>1
  <2> QED
    BY <1>1, <1>2, <1>4, <2>1, <2>2 DEF Appends
<1> QED
  BY <1>1, <1>2, <1>3, <1>4

LEMMA NumberedExtends ==
    ASSUME Shape, Numbered, NEW calls \in Seq(Call), NEW block, Appends(calls, block)
    PROVE  Numbered'
<1>1. Len(log) \in Nat /\ DOMAIN log = 1..Len(log) /\ block \in Nat /\ block <= Len(log) + 1
  BY DEF Shape, Appends
<1>2. \A i \in DOMAIN log : /\ log[i].block <= block /\ log[i].tx <= i /\ i <= Len(log)
                          /\ log[i].tx \in Nat /\ log[i].block \in Nat /\ i \in Nat
                          /\ log[i].block <= log[i].tx
  BY <1>1, LoggedIsEvent DEF Numbered, Appends
<1>3. \A i \in DOMAIN log' : log'[i].block <= log'[i].tx /\ log'[i].tx <= i
  BY <1>1, <1>2, OldOrNew
<1>4. ASSUME NEW i \in DOMAIN log', NEW j \in DOMAIN log'
      PROVE  /\ log'[i].tx = log'[j].tx => log'[i].block = log'[j].block
             /\ i <= j => log'[i].block <= log'[j].block
  <2>1. CASE i <= Len(log) /\ j <= Len(log)
    <3>1. i \in DOMAIN log /\ j \in DOMAIN log /\ log'[i] = log[i] /\ log'[j] = log[j]
      BY <2>1, OldOrNew
    <3> QED
      BY <3>1 DEF Numbered
  <2>2. CASE i <= Len(log) /\ j > Len(log)
    <3>1. i \in DOMAIN log /\ log'[i] = log[i] /\ log'[j].tx = Len(log) + 1 /\ log'[j].block = block
      BY <2>2, OldOrNew
    <3> QED
      BY <1>1, <1>2, <3>1
  <2>3. CASE i > Len(log) /\ j <= Len(log)
    <3>1. j \in DOMAIN log /\ log'[j] = log[j] /\ log'[i].tx = Len(log) + 1
      BY <2>3, OldOrNew
    <3>2. ~(i <= j)
      BY <1>1, <2>3, OldOrNew
    <3> QED
      BY <1>1, <1>2, <3>1, <3>2
  <2>4. CASE i > Len(log) /\ j > Len(log)
    <3>1. log'[i].block = block /\ log'[j].block = block
      BY <2>4, OldOrNew
    <3> QED
      BY <1>1, <3>1
  <2> QED
    BY <2>1, <2>2, <2>3, <2>4, OldOrNew
<1> QED
  BY <1>3, <1>4 DEF Numbered

\* What a transaction may call.
LegalCalls(calls) ==
    \A k \in 1..Len(calls) :
        /\ calls[k][2] \in Once =>
              /\ ~Logged(calls[k][2], calls[k][3])
              /\ \A l \in 1..Len(calls) : calls[l][2] = calls[k][2] => l = k
        /\ calls[k][2] = "ProposalSubmitted" => NextDg(calls[k][3])
        /\ calls[k][2] = "ProposalExecuted" =>
              Logged("ProposalSubmitted", calls[k][3]) /\ ~CancelledOnChain(calls[k][3])
        /\ calls[k][2] = "ProposalsCancelledTill" =>
              Logged("ProposalSubmitted", calls[k][3]) /\ Len(calls) = 1

\* A transaction that submits or enacts does so once, and what was not before.
LEMMA UniqueExtends ==
    ASSUME Shape, Numbered, Unique, NEW calls \in Seq(Call), NEW block, Appends(calls, block),
           LegalCalls(calls)
    PROVE  Unique'
<1> USE DEF LegalCalls
<1>1. Len(log) \in Nat /\ DOMAIN log = 1..Len(log)
  BY DEF Shape, Appends
<1>2. \A i \in DOMAIN log : log[i].tx <= Len(log)
  BY <1>1, LoggedIsEvent DEF Numbered
<1> SUFFICES ASSUME NEW i \in DOMAIN log', NEW j \in DOMAIN log',
                    log'[i].typ \in Once, log'[i].typ = log'[j].typ,
                    log'[i].id = log'[j].id \/ log'[i].tx = log'[j].tx
             PROVE  i = j
  BY DEF Unique
<1>3. CASE i <= Len(log) /\ j <= Len(log)
  <2>1. i \in DOMAIN log /\ j \in DOMAIN log /\ log'[i] = log[i] /\ log'[j] = log[j]
    BY <1>3, OldOrNew
  <2> QED
    BY <2>1 DEF Unique
<1>4. ASSUME NEW a \in DOMAIN log', NEW b \in DOMAIN log', a <= Len(log), b > Len(log),
             log'[b].typ \in Once, log'[a].typ = log'[b].typ,
             log'[a].id = log'[b].id \/ log'[a].tx = log'[b].tx
      PROVE  FALSE
  <2>1. /\ a \in DOMAIN log /\ log'[a] = log[a] /\ log'[b].tx = Len(log) + 1
        /\ b - Len(log) \in 1..Len(calls)
        /\ log'[b].typ = calls[b - Len(log)][2] /\ log'[b].id = calls[b - Len(log)][3]
    BY <1>4, OldOrNew
  <2>2. log[a].tx # Len(log) + 1
    BY <1>1, <1>2, <2>1, LoggedIsEvent
  <2>3. ~Logged(log'[b].typ, log'[b].id)
    BY <1>4, <2>1
  <2> QED
    BY <1>4, <2>1, <2>2, <2>3 DEF Logged
<1>5. CASE i > Len(log) /\ j > Len(log)
  <2>1. /\ i - Len(log) \in 1..Len(calls) /\ j - Len(log) \in 1..Len(calls)
        /\ log'[i].typ = calls[i - Len(log)][2] /\ log'[j].typ = calls[j - Len(log)][2]
        /\ i \in Nat /\ j \in Nat
    BY <1>5, OldOrNew
  <2>2. i - Len(log) = j - Len(log)
    BY <2>1
  <2> QED
    BY <1>1, <2>1, <2>2
<1> QED
  BY <1>3, <1>4, <1>5, OldOrNew

LEMMA OrderedExtends ==
    ASSUME Shape, Ordered, NEW calls \in Seq(Call), NEW block, Appends(calls, block),
           LegalCalls(calls)
    PROVE  Ordered'
<1> USE DEF LegalCalls
<1>1. Len(log) \in Nat /\ DOMAIN log = 1..Len(log)
  BY DEF Shape
<1>2. ASSUME NEW typ, NEW id, Logged(typ, id) PROVE Logged(typ, id)'
  <2>1. PICK i \in DOMAIN log : log[i].typ = typ /\ log[i].id = id
    BY <1>2 DEF Logged
  <2>2. i \in DOMAIN log' /\ log'[i] = log[i]
    <3>1. Len(calls) \in Nat /\ DOMAIN log' = 1..Len(log')
      BY DEF Appends
    <3> QED
      BY <1>1, <3>1 DEF Appends
  <2> QED
    BY <2>1, <2>2 DEF Logged
<1>3. ASSUME NEW d \in DgIds, NEW e \in DgIds, d < e, Logged("ProposalSubmitted", e)'
      PROVE  Logged("ProposalSubmitted", d)'
  <2>1. PICK i \in DOMAIN log' : log'[i].typ = "ProposalSubmitted" /\ log'[i].id = e
    BY <1>3 DEF Logged
  <2>2. CASE i \in DOMAIN log /\ log'[i] = log[i]
    <3>1. Logged("ProposalSubmitted", e)
      BY <2>1, <2>2 DEF Logged
    <3> QED
      BY <1>2, <1>3, <3>1 DEF Ordered
  <2>3. CASE i - Len(log) \in 1..Len(calls) /\ log'[i].typ = calls[i - Len(log)][2]
             /\ log'[i].id = calls[i - Len(log)][3]
    <3>1. NextDg(e)
      BY <2>1, <2>3
    <3> QED
      BY <1>2, <1>3, <3>1 DEF NextDg
  <2> QED
    BY <2>2, <2>3, OldOrNew
<1>4. ASSUME NEW j \in DOMAIN log, NEW d, CancelsFrom(j, d)
      PROVE  log[j].id \in DgIds
  BY <1>4, LoggedIsEvent, EventKinds DEF CancelsFrom
<1>5. ASSUME NEW i \in DOMAIN log', NEW j \in DOMAIN log',
             log'[i].typ \in {"ProposalSubmitted", "ProposalExecuted"},
             log'[j].typ = "ProposalsCancelledTill", log'[j].id >= log'[i].id
      PROVE  i < j
  <2>1. CASE i <= Len(log) /\ j <= Len(log)
    <3>1. i \in DOMAIN log /\ j \in DOMAIN log /\ log'[i] = log[i] /\ log'[j] = log[j]
      BY <2>1, OldOrNew
    <3> QED
      BY <1>5, <3>1 DEF Ordered, CancelsFrom
  <2>2. CASE i <= Len(log) /\ j > Len(log)
    BY <1>1, <2>2, OldOrNew
  <2>3. CASE i > Len(log) /\ j <= Len(log)
    <3> DEFINE d == log'[i].id
               k == i - Len(log)
    <3>1. j \in DOMAIN log /\ log'[j] = log[j] /\ CancelsFrom(j, d)
      BY <1>5, <2>3, OldOrNew DEF CancelsFrom
    <3>2. k \in 1..Len(calls) /\ log'[i].typ = calls[k][2] /\ d = calls[k][3] /\ calls[k] \in Call
      BY <2>3, OldOrNew
    <3>3. d \in DgIds
      BY <1>5, <3>2 DEF Call
    <3>4. CASE log'[i].typ = "ProposalSubmitted"
      <4>1. NextDg(d)
        BY <3>2, <3>4
      <4>2. ~Logged("ProposalSubmitted", d)
        BY <3>3, <4>1 DEF NextDg, DgIds
      <4> QED
        BY <3>1, <3>3, <4>2 DEF Ordered
    <3>5. CASE log'[i].typ = "ProposalExecuted"
      <4>1. Logged("ProposalSubmitted", d) /\ ~CancelledOnChain(d)
        BY <3>2, <3>5
      <4>2. PICK h \in DOMAIN log : log[h].typ = "ProposalSubmitted" /\ log[h].id = d
        BY <4>1 DEF Logged
      <4>3. h < j
        BY <3>1, <4>2 DEF Ordered
      <4>4. log[j].id \in DgIds /\ log[j].id >= d /\ log[j].typ = "ProposalsCancelledTill"
        BY <1>4, <3>1 DEF CancelsFrom
      <4> QED
        BY <3>1, <4>1, <4>2, <4>3, <4>4 DEF CancelledOnChain
    <3> QED
      BY <1>5, <3>4, <3>5
  <2>4. CASE i > Len(log) /\ j > Len(log)
    <3>1. /\ i - Len(log) \in 1..Len(calls) /\ j - Len(log) \in 1..Len(calls)
          /\ calls[j - Len(log)][2] = "ProposalsCancelledTill" /\ i \in Nat /\ j \in Nat
      BY <1>5, <2>4, OldOrNew
    <3>2. Len(calls) = 1
      BY <3>1
    <3>3. i = j
      BY <1>1, <3>1, <3>2
    <3> QED
      BY <1>5, <3>3
  <2> QED
    BY <2>1, <2>2, <2>3, <2>4, OldOrNew
<1>6. ASSUME NEW j \in DOMAIN log', NEW d \in DgIds,
             log'[j].typ = "ProposalsCancelledTill", log'[j].id >= d
      PROVE  Logged("ProposalSubmitted", d)'
  <2>1. CASE j \in DOMAIN log /\ log'[j] = log[j]
    BY <1>2, <1>6, <2>1 DEF Ordered, CancelsFrom
  <2>2. CASE j > Len(log)
    <3> DEFINE k == j - Len(log)
    <3>1. k \in 1..Len(calls) /\ log'[j].typ = calls[k][2] /\ log'[j].id = calls[k][3]
          /\ calls[k] \in Call
      BY <2>2, OldOrNew
    <3>2. log'[j].id \in DgIds /\ Logged("ProposalSubmitted", log'[j].id)
      BY <1>6, <3>1 DEF Call
    <3>3. d = log'[j].id \/ d < log'[j].id
      BY <1>6, <3>2 DEF DgIds
    <3> QED
      BY <1>2, <3>2, <3>3 DEF Ordered
  <2> QED
    BY <2>1, <2>2, OldOrNew
<1> QED
  BY <1>3, <1>5, <1>6 DEF Ordered, CancelsFrom

LEMMA NextDgIsNew == \A d : NextDg(d) => d \in DgIds /\ ~Logged("ProposalSubmitted", d)
BY DEF NextDg, DgIds

LEMMA ContractsAreLegal ==
    ASSUME Contracts
    PROVE  \E calls \in Seq(Call) : calls # <<>> /\ LegalCalls(calls) /\ Transact(calls)
<1>1. ASSUME NEW call \in Call, Transact(<<call>>), call[2] \notin Once,
             call[2] \in {"ProposalExecuted", "ProposalsCancelledTill"} =>
                Logged("ProposalSubmitted", call[3]),
             call[2] = "ProposalExecuted" => ~CancelledOnChain(call[3])
      PROVE  \E calls \in Seq(Call) : calls # <<>> /\ LegalCalls(calls) /\ Transact(calls)
  <2>1. /\ <<call>> \in Seq(Call) /\ <<call>> # <<>> /\ Len(<<call>>) = 1
        /\ \A k \in 1..1 : <<call>>[k] = call
    OBVIOUS
  <2>2. LegalCalls(<<call>>)
    BY <1>1, <2>1 DEF LegalCalls, Once
  <2> QED
    BY <1>1, <2>1, <2>2
<1>2. ASSUME NEW d, NextDg(d), Transact(Submission(d))
      PROVE  \E calls \in Seq(Call) : calls # <<>> /\ LegalCalls(calls) /\ Transact(calls)
  <2> DEFINE submit == <<"dual_governance", "ProposalSubmitted", d>>
             meta == <<"dual_governance", "ProposalSubmittedMeta", d>>
  <2>1. submit \in Call /\ meta \in Call /\ Submission(d) = <<submit, meta>>
    BY <1>2 DEF NextDg, Call, Submission
  <2>2. /\ submit[2] = "ProposalSubmitted" /\ submit[3] = d
        /\ meta[2] = "ProposalSubmittedMeta"
    OBVIOUS
  <2> HIDE DEF submit, meta
  <2>3. /\ <<submit, meta>> \in Seq(Call) /\ <<submit, meta>> # <<>>
        /\ Len(<<submit, meta>>) = 2
        /\ <<submit, meta>>[1] = submit /\ <<submit, meta>>[2] = meta
    BY <2>1
  <2>4. \A k \in 1..2 : k = 1 \/ k = 2
    OBVIOUS
  <2>5. LegalCalls(<<submit, meta>>)
    BY <1>2, <2>2, <2>3, <2>4, NextDgIsNew DEF LegalCalls, Once
  <2> QED
    BY <1>2, <2>1, <2>3, <2>5
<1>3. ASSUME NEW v \in Votes, NEW d, NextDg(d), ~Logged("ExecuteVote", v),
             Transact(Submission(d) \o << <<"aragon_voting", "ExecuteVote", v>> >>)
      PROVE  \E calls \in Seq(Call) : calls # <<>> /\ LegalCalls(calls) /\ Transact(calls)
  <2> DEFINE submit == <<"dual_governance", "ProposalSubmitted", d>>
             meta == <<"dual_governance", "ProposalSubmittedMeta", d>>
             enact == <<"aragon_voting", "ExecuteVote", v>>
  <2>1. submit \in Call /\ meta \in Call /\ enact \in Call /\ Submission(d) = <<submit, meta>>
    BY <1>3 DEF NextDg, Call, Submission
  <2>2. /\ submit[2] = "ProposalSubmitted" /\ submit[3] = d
        /\ meta[2] = "ProposalSubmittedMeta"
        /\ enact[2] = "ExecuteVote" /\ enact[3] = v
    OBVIOUS
  <2> HIDE DEF submit, meta, enact
  <2> DEFINE front == <<submit, meta>>
             calls == front \o <<enact>>
  <2>3. /\ front \in Seq(Call) /\ Len(front) = 2 /\ front[1] = submit /\ front[2] = meta
        /\ <<enact>> \in Seq(Call) /\ Len(<<enact>>) = 1 /\ <<enact>>[1] = enact
    BY <2>1
  <2>4. Transact(calls)
    BY <1>3, <2>1 DEF enact
  <2> HIDE DEF front
  <2>5. /\ calls \in Seq(Call) /\ Len(calls) = 3 /\ \A k \in 1..3 :
           calls[k] = IF k <= 2 THEN front[k] ELSE <<enact>>[k - 2]
    <3>1. /\ calls \in Seq(Call) /\ Len(calls) = Len(front) + Len(<<enact>>)
          /\ \A k \in 1..(Len(front) + Len(<<enact>>)) :
                calls[k] = IF k <= Len(front) THEN front[k] ELSE <<enact>>[k - Len(front)]
      BY <2>3, ConcatProperties
    <3> HIDE DEF calls
    <3> QED
      BY <2>3, <3>1
  <2> HIDE DEF calls
  <2>6. calls[1] = submit /\ calls[2] = meta /\ calls[3] = enact /\ calls # <<>>
    BY <2>3, <2>5
  <2>7. \A k \in 1..3 : k = 1 \/ k = 2 \/ k = 3
    OBVIOUS
  <2>8. LegalCalls(calls)
    BY <1>3, <2>2, <2>5, <2>6, <2>7, NextDgIsNew DEF LegalCalls, Once
  <2> QED
    BY <2>4, <2>5, <2>6, <2>8
<1>4. CASE \E v \in Votes : StartVote(v)
  <2>1. PICK v \in Votes : Transact(<< <<"aragon_voting", "StartVote", v>> >>)
    BY <1>4 DEF StartVote
  <2>2. <<"aragon_voting", "StartVote", v>> \in Call
    BY DEF Call
  <2> QED
    BY <1>1, <2>1, <2>2 DEF Once
<1>5. CASE \E v \in Votes : Enact(v)
  <2>1. PICK v \in Votes : Enact(v)
    BY <1>5
  <2>2. CASE Transact(<< <<"aragon_voting", "ExecuteVote", v>> >>)
    <3> DEFINE calls == << <<"aragon_voting", "ExecuteVote", v>> >>
    <3>1. calls \in Seq(Call) /\ calls # <<>> /\ Len(calls) = 1
          /\ calls[1][2] = "ExecuteVote" /\ calls[1][3] = v
      BY DEF Call
    <3>2. \A k \in 1..1 : k = 1
      OBVIOUS
    <3> HIDE DEF calls
    <3>3. LegalCalls(calls)
      BY <2>1, <3>1, <3>2 DEF Enact, LegalCalls, Once
    <3> QED
      BY <2>2, <3>1, <3>3 DEF calls
  <2> QED
    BY <1>3, <2>1, <2>2 DEF Enact
<1>6. CASE SubmitDirectly
  BY <1>2, <1>6 DEF SubmitDirectly
<1>7. CASE Timelock
  <2>1. PICK d \in DgIds, typ \in {"ProposalScheduled", "ProposalExecuted", "ProposalsCancelledTill"} :
           /\ Logged("ProposalSubmitted", d)
           /\ typ = "ProposalExecuted" => ~CancelledOnChain(d)
           /\ Transact(<< <<"dual_governance", typ, d>> >>)
    BY <1>7 DEF Timelock
  <2>2. <<"dual_governance", typ, d>> \in Call
    BY DEF Call
  <2> QED
    BY <1>1, <2>1, <2>2 DEF Once
<1>8. CASE RageQuit
  <2>1. Transact(<< <<"dual_governance", "RageQuit", 1>> >>)
    BY <1>8 DEF RageQuit
  <2> QED
    BY <1>1, <2>1 DEF Once, Call, DgIds
<1> QED
  BY <1>4, <1>5, <1>6, <1>7, <1>8 DEF Contracts

LEMMA ContractsExtend ==
    ASSUME Shape, ChainOK, Contracts
    PROVE  /\ ChainOK'
           /\ log' \in Seq(Event) /\ Len(log') \in Nat /\ Len(log) <= Len(log')
           /\ Len(log') <= MaxLog
<1>1. PICK calls \in Seq(Call) : calls # <<>> /\ LegalCalls(calls) /\ Transact(calls)
  BY ContractsAreLegal
<1>2. PICK block : Appends(calls, block)
  BY <1>1, TransactAppends DEF ChainOK
<1>3. ChainOK'
  BY <1>1, <1>2, NumberedExtends, UniqueExtends, OrderedExtends DEF ChainOK
<1>4. Len(calls) \in Nat /\ Len(log) \in Nat
  BY DEF Shape, QueueShape
<1> QED
  BY <1>2, <1>3, <1>4 DEF Appends

-----------------------------------------------------------------------------
(* What the steps do to the types.                                         *)

LEMMA RageQuitsIsNat ==
    ASSUME NEW i \in Nat, NEW j \in Nat, i <= j
    PROVE  RageQuits(i) \in Nat /\ RageQuits(j) \in Nat /\ RageQuits(i) <= RageQuits(j)
<1> DEFINE S(k) == {h \in 1..k : log[h].typ = "RageQuit"}
<1>a. 1 \in Int /\ i \in Int /\ j \in Int
  OBVIOUS
<1>b. IsFiniteSet(1..i)
  BY <1>a, FS_Interval, Zenon
<1>c. IsFiniteSet(1..j)
  BY <1>a, FS_Interval, Zenon
<1>1. IsFiniteSet(1..i) /\ IsFiniteSet(1..j)
  BY <1>b, <1>c
<1>2. IsFiniteSet(S(i)) /\ IsFiniteSet(S(j)) /\ S(i) \subseteq S(j)
  BY <1>1, FS_Subset
<1>3. Cardinality(S(i)) \in Nat /\ Cardinality(S(j)) \in Nat /\ Cardinality(S(i)) <= Cardinality(S(j))
  BY <1>2, FS_Subset, FS_CardinalityType
<1> QED
  BY <1>3 DEF RageQuits

\* A rage quit that is dated later than a row was archived comes later in the log.
LEMMA TimeOfIsLog ==
    ASSUME NEW i \in Nat, NEW j \in Nat, TimeOf(j) >= TimeOf(i) + 1
    PROVE  i < j
<1>1. RageQuits(i) \in Nat /\ RageQuits(j) \in Nat
  BY RageQuitsIsNat
<1>2. ~(RageQuits(j) <= RageQuits(i))
  BY <1>1 DEF TimeOf
<1> QED
  BY <1>2, RageQuitsIsNat

LEMMA KindOfRow ==
    ASSUME Shape, batch # {}
    PROVE  /\ Row.tx \in Positions /\ Row.block \in Positions
           /\ \/ /\ Row.src = "aragon_voting" /\ Row.id \in Votes
                 /\ Row.typ \in {"StartVote", "ExecuteVote"}
              \/ /\ Row.src = "dual_governance" /\ Row.id \in DgIds
                 /\ Row.typ \in {"ProposalSubmitted", "ProposalSubmittedMeta", "ProposalScheduled",
                               "ProposalExecuted", "ProposalsCancelledTill", "RageQuit"}
BY RowIsLogged, EventKinds

LEMMA EnactedIsVote == ASSUME Shape, NEW tx PROVE EnactedIn(tx) \subseteq Votes
BY ArchivedIsLogged, LoggedIsEvent, EventKinds DEF EnactedIn

\* The three ways the table of proposals is written.
Writes(p, s) == Table!InsertProposal(p, s) \/ Table!AdvanceState(p, s) \/ Table!SetState(p, s)

LEMMA StateWritten ==
    ASSUME StateOK, NEW p \in Keys, NEW s \in Table!States, Writes(p, s)
    PROVE  StateOK' /\ \A q \in Keys : state'[q] \in {state[q], s} /\ (q # p => state'[q] = state[q])
BY DEF Writes, StateOK, Table!InsertProposal, Table!AdvanceState, Table!SetState, Table!Exists

LEMMA AragonKeys ==
    /\ \A v \in Votes : Aragon(v) \in Keys
    /\ \A d \in DgIds : Direct(d) \in Keys
    /\ \A v, w : Aragon(v) = Aragon(w) => v = w
    /\ \A d, e : Direct(d) = Direct(e) => d = e
    /\ \A v, d : Aragon(v) # Direct(d)
BY DEF Keys, Aragon, Direct

LEMMA NoEntryIsNone == \A entry \in Entry : entry # NoEntry /\ entry.status # "none"
BY DEF Entry, NoEntry

LEMMA LedgerIsTyped ==
    ASSUME Shape, NEW d \in DgIds, ledger[d] # NoEntry
    PROVE  ledger[d] \in Entry
BY DEF Shape, TableOK

\* A submission's upsert, with the proposal it is for.
LEMMA SubmittedWrites ==
    ASSUME Shape, batch # {}, Row.typ = "ProposalSubmitted", Submitted
    PROVE  /\ Row.id \in DgIds /\ todo' = {Row.id} /\ UNCHANGED <<state, history>>
           /\ ledger' \in [DgIds -> Entry \cup {NoEntry}]
           /\ \A e \in DgIds : e # Row.id \/ ledger[e] # NoEntry => ledger'[e] = ledger[e]
           /\ \E proposal \in Keys :
                /\ ledger[Row.id] = NoEntry => ledger'[Row.id] =
                      [status |-> "submitted", proposal |-> proposal,
                       submittedAt |-> received[First], cancelledAt |-> 0]
                /\ \/ \E v \in EnactedIn(Row.tx) : proposal = Aragon(v) /\ Table!Exists(Aragon(v))
                   \/ stage = "inserted" /\ proposal = Direct(Row.id)
<1>1. Row.id \in DgIds
  BY KindOfRow
<1>2. PICK proposal \in Keys :
         /\ Upsert(proposal)
         /\ \/ \E v \in EnactedIn(Row.tx) : proposal = Aragon(v) /\ Table!Exists(Aragon(v))
            \/ stage = "inserted" /\ proposal = Direct(Row.id)
  BY <1>1, AragonKeys, EnactedIsVote DEF Submitted
<1>3. received[First] \in Nat
  BY RowIsLogged DEF Shape, QueueShape, QueueTypeOK
<1> DEFINE entry == [status |-> "submitted", proposal |-> proposal,
                     submittedAt |-> received[First], cancelledAt |-> 0]
<1>4. entry \in Entry
  BY <1>3 DEF Entry
<1>5. /\ ledger \in [DgIds -> Entry \cup {NoEntry}]
      /\ ledger' = IF ledger[Row.id] # NoEntry THEN ledger ELSE [ledger EXCEPT ![Row.id] = entry]
  BY <1>2 DEF Upsert, Shape, TableOK
<1>6. todo' = {Row.id} /\ UNCHANGED <<state, history>>
  BY DEF Submitted
<1> HIDE DEF entry
<1>7. /\ ledger' \in [DgIds -> Entry \cup {NoEntry}]
      /\ \A e \in DgIds : e # Row.id \/ ledger[e] # NoEntry => ledger'[e] = ledger[e]
      /\ ledger[Row.id] = NoEntry => ledger'[Row.id] = entry
  BY <1>1, <1>4, <1>5
<1> QED
  BY <1>1, <1>2, <1>6, <1>7 DEF entry

\* A scheduled or an executed row moves the status of its entry, or nothing.
LEMMA AdvanceWrites ==
    ASSUME Shape, batch # {}, NEW to \in {"scheduled", "executed"},
           Row.typ \in {"ProposalScheduled", "ProposalExecuted"}, Advance(to)
    PROVE  /\ Row.id \in DgIds /\ todo' = {Row.id} /\ UNCHANGED <<state, history>>
           /\ ledger' \in [DgIds -> Entry \cup {NoEntry}] /\ ledger[Row.id] # NoEntry
           /\ \A e \in DgIds : e # Row.id => ledger'[e] = ledger[e]
           /\ ledger'[Row.id] # NoEntry
           /\ ledger'[Row.id].proposal = ledger[Row.id].proposal
           /\ ledger'[Row.id].submittedAt = ledger[Row.id].submittedAt
           /\ ledger'[Row.id].status =
                 IF ledger[Row.id].status \in Before(to) THEN to ELSE ledger[Row.id].status
<1>1. /\ Row.id \in DgIds /\ ledger \in [DgIds -> Entry \cup {NoEntry}]
      /\ ledger[Row.id] # NoEntry
  BY KindOfRow DEF Shape, TableOK, Advance
<1>2. ledger[Row.id] \in Entry
  BY <1>1
<1> DEFINE entry == [ledger[Row.id] EXCEPT !.status = to]
<1>3. /\ entry \in Entry /\ entry.status = to /\ entry.proposal = ledger[Row.id].proposal
      /\ entry.submittedAt = ledger[Row.id].submittedAt
  BY <1>2 DEF Entry
<1>4. /\ ledger' = IF ledger[Row.id].status \in Before(to)
                   THEN [ledger EXCEPT ![Row.id] = entry] ELSE ledger
      /\ todo' = {Row.id} /\ UNCHANGED <<state, history>>
  BY DEF Advance
<1>5. entry # NoEntry
  BY <1>3, NoEntryIsNone
<1> HIDE DEF entry
<1> QED
  BY <1>1, <1>2, <1>3, <1>4, <1>5

\* A bulk cancellation.
LEMMA CancelWrites ==
    ASSUME Shape, batch # {}, CancelThrough
    PROVE  /\ todo' \subseteq DgIds /\ UNCHANGED <<state, history>>
           /\ ledger' \in [DgIds -> Entry \cup {NoEntry}]
           /\ \A d \in DgIds :
                 \/ d \notin todo' /\ ledger'[d] = ledger[d]
                 \/ /\ d \in todo' /\ d <= Row.id /\ ledger[d] # NoEntry
                    /\ ledger[d].status \in {"submitted", "scheduled"}
                    /\ ledger'[d].status = "cancelled" /\ ledger'[d] # NoEntry
                    /\ ledger'[d].proposal = ledger[d].proposal
                    /\ ledger'[d].submittedAt = ledger[d].submittedAt
<1>1. ledger \in [DgIds -> Entry \cup {NoEntry}] /\ received[First] \in Nat
  BY RowIsLogged DEF Shape, TableOK, QueueShape, QueueTypeOK
<1> DEFINE entry(d) == [ledger[d] EXCEPT !.status = "cancelled", !.cancelledAt = received[First]]
<1>2. /\ todo' = Cancellable(Row.id) /\ UNCHANGED <<state, history>>
      /\ ledger' = [d \in DgIds |-> IF d \in Cancellable(Row.id) THEN entry(d) ELSE ledger[d]]
  BY DEF CancelThrough
<1>3. ASSUME NEW d \in Cancellable(Row.id)
      PROVE  /\ entry(d) \in Entry /\ ledger[d] # NoEntry /\ d <= Row.id /\ d \in DgIds
             /\ ledger[d].status \in {"submitted", "scheduled"}
             /\ entry(d).status = "cancelled" /\ entry(d).proposal = ledger[d].proposal
             /\ entry(d).submittedAt = ledger[d].submittedAt
  <2>1. d \in DgIds /\ ledger[d].status \in {"submitted", "scheduled"} /\ d <= Row.id
    BY DEF Cancellable
  <2>2. ledger[d] \in Entry
    BY <1>1, <2>1 DEF NoEntry
  <2> QED
    BY <1>1, <2>1, <2>2, NoEntryIsNone DEF Entry
<1> HIDE DEF entry
<1>4. Cancellable(Row.id) \subseteq DgIds
  BY DEF Cancellable
<1> QED
  BY <1>1, <1>2, <1>3, <1>4, NoEntryIsNone

\* All a handler of Dual Governance writes, in one statement.
LEMMA LedgerIsWritten ==
    ASSUME Shape, WriteLedger
    PROVE  /\ batch # {} /\ stage' = "written" /\ UNCHANGED <<state, overtaken>>
           /\ history' \subseteq Nat /\ todo' \subseteq DgIds
           /\ ledger' \in [DgIds -> Entry \cup {NoEntry}]
           /\ \A d \in todo' : ledger'[d] # NoEntry
           /\ UNCHANGED <<log, received, derived, attempts, held, quarantined, batch, faults>>
           /\ \/ Row.typ = "ProposalSubmitted" /\ Submitted
              \/ Row.typ = "ProposalScheduled" /\ Advance("scheduled")
              \/ Row.typ = "ProposalExecuted" /\ Advance("executed")
              \/ Row.typ = "ProposalsCancelledTill" /\ CancelThrough
              \/ Row.typ = "RageQuit" /\ RecordRageQuit
<1>1. /\ batch # {} /\ stage' = "written" /\ UNCHANGED overtaken
      /\ UNCHANGED <<log, received, derived, attempts, held, quarantined, batch, faults>>
  BY DEF WriteLedger, chainVars, rowVars
<1>2. /\ history \subseteq Nat /\ ledger \in [DgIds -> Entry \cup {NoEntry}]
  BY DEF Shape, TableOK
<1>3. CASE Row.typ = "ProposalSubmitted" /\ Submitted
  <2>1. ledger'[Row.id] # NoEntry
    <3>1. CASE ledger[Row.id] # NoEntry
      BY <1>1, <1>3, <3>1, SubmittedWrites
    <3>2. CASE ledger[Row.id] = NoEntry
      <4>1. PICK proposal \in Keys :
               ledger'[Row.id] = [status |-> "submitted", proposal |-> proposal,
                                  submittedAt |-> received[First], cancelledAt |-> 0]
        BY <1>1, <1>3, <3>2, SubmittedWrites
      <4>2. ledger'[Row.id].status = "submitted"
        BY <4>1
      <4> QED
        BY <4>2 DEF NoEntry
    <3> QED
      BY <3>1, <3>2
  <2> QED
    BY <1>1, <1>2, <1>3, <2>1, SubmittedWrites
<1>4. CASE Row.typ = "ProposalScheduled" /\ Advance("scheduled")
  BY <1>1, <1>2, <1>4, AdvanceWrites
<1>5. CASE Row.typ = "ProposalExecuted" /\ Advance("executed")
  BY <1>1, <1>2, <1>5, AdvanceWrites
<1>6. CASE Row.typ = "ProposalsCancelledTill" /\ CancelThrough
  BY <1>1, <1>2, <1>6, CancelWrites
<1>7. CASE Row.typ = "RageQuit" /\ RecordRageQuit
  <2>1. /\ history' = history \cup {TimeOf(First)} /\ todo' = Resolvable
        /\ UNCHANGED <<state, ledger>>
    BY <1>7 DEF RecordRageQuit
  <2>2. TimeOf(First) \in Nat
    BY <1>1, RowIsLogged, RageQuitsIsNat, LoggedIsEvent DEF TimeOf
  <2>3. \A d \in Resolvable : d \in DgIds /\ ledger[d] # NoEntry
    BY DEF Resolvable, NoEntry
  <2> QED
    BY <1>1, <1>2, <1>7, <2>1, <2>2, <2>3
<1> QED
  BY <1>1, <1>3, <1>4, <1>5, <1>6, <1>7, KindOfRow DEF WriteLedger

LEMMA ResolvesToState ==
    \A entry \in Entry : Resolve(entry) \in {"vetoed", "queued", "executed", "canceled"}
BY DEF Resolve, Entry

\* Every write of a step to the table of proposals.
LEMMA StateChange ==
    ASSUME Shape, Next
    PROVE  /\ StateOK' /\ \A q \in Keys : Table!Exists(q) => Table!Exists(q)'
           /\ \/ UNCHANGED state
              \/ /\ AragonRow /\ Row.id \in Votes
                 /\ \A q \in Keys : q # Aragon(Row.id) => state'[q] = state[q]
                 /\ state'[Aragon(Row.id)] \in {state[Aragon(Row.id)], "active", "executed"}
                 /\ Row.typ = "StartVote" /\ Table!Exists(Aragon(Row.id)) => UNCHANGED state
              \/ /\ InsertDirect /\ Row.id \in DgIds /\ ~Table!Exists(Direct(Row.id))
                 /\ \A q \in Keys : q # Direct(Row.id) => state'[q] = state[q]
                 /\ state'[Direct(Row.id)] = "queued"
              \/ /\ ApplyState /\ \E d \in todo :
                       /\ ledger[d] \in Entry /\ todo' = todo \ {d} /\ overtaken' = overtaken \ {d}
                       /\ \A q \in Keys : q # ledger[d].proposal => state'[q] = state[q]
                       /\ state'[ledger[d].proposal] = Resolve(ledger[d])
<1>1. StateOK
  BY DEF Shape, TableOK
<1>2. ASSUME NEW p \in Keys, NEW s \in Table!States, Writes(p, s)
      PROVE  StateOK' /\ \A q \in Keys : Table!Exists(q) => Table!Exists(q)'
  BY <1>1, <1>2, StateWritten DEF Table!Exists
<1>3. CASE AragonRow
  <2>1. batch # {} /\ Row.src = "aragon_voting" /\ ApplyAragon
    BY <1>3 DEF AragonRow
  <2>2. Row.id \in Votes /\ Aragon(Row.id) \in Keys /\ Row.typ \in {"StartVote", "ExecuteVote"}
    BY <2>1, KindOfRow, AragonKeys
  <2> DEFINE p == Aragon(Row.id)
  <2>3. CASE Row.typ = "StartVote"
    <3>1. Table!InsertProposal(p, "active")
      BY <2>1, <2>3 DEF ApplyAragon
    <3>2. Writes(p, "active")
      BY <3>1 DEF Writes
    <3> HIDE DEF p
    <3>3. /\ \A q \in Keys : state'[q] \in {state[q], "active"} /\ (q # p => state'[q] = state[q])
          /\ StateOK' /\ \A q \in Keys : Table!Exists(q) => Table!Exists(q)'
      BY <1>1, <1>2, <2>2, <3>2, StateWritten DEF p
    <3>4. Table!Exists(p) => UNCHANGED state
      BY <3>1 DEF Table!InsertProposal
    <3> QED
      BY <1>3, <2>2, <3>3, <3>4 DEF p
  <2>4. CASE Row.typ = "ExecuteVote"
    <3>1. Writes(p, "executed")
      BY <2>1, <2>4 DEF ApplyAragon, Writes
    <3> HIDE DEF p
    <3>2. /\ \A q \in Keys : state'[q] \in {state[q], "executed"} /\ (q # p => state'[q] = state[q])
          /\ StateOK' /\ \A q \in Keys : Table!Exists(q) => Table!Exists(q)'
      BY <1>1, <1>2, <2>2, <3>1, StateWritten DEF p
    <3> QED
      BY <1>3, <2>2, <2>4, <3>2 DEF p
  <2> QED
    BY <2>2, <2>3, <2>4
<1>4. CASE InsertDirect
  <2>1. Row.id \in DgIds /\ Direct(Row.id) \in Keys
    BY <1>4, KindOfRow, AragonKeys DEF InsertDirect
  <2> DEFINE p == Direct(Row.id)
  <2>2. Table!InsertProposal(p, "queued")
    BY <1>4 DEF InsertDirect
  <2>3. Writes(p, "queued")
    BY <2>2 DEF Writes
  <2> HIDE DEF p
  <2>4. /\ \A q \in Keys : q # p => state'[q] = state[q]
        /\ StateOK' /\ \A q \in Keys : Table!Exists(q) => Table!Exists(q)'
    BY <1>1, <1>2, <2>1, <2>3, StateWritten DEF p
  <2>5. Table!Exists(p) \/ state'[p] = "queued"
    BY <1>1, <2>1, <2>2 DEF Table!InsertProposal, StateOK, p
  <2>6. Table!Exists(p) => UNCHANGED state
    BY <2>2 DEF Table!InsertProposal
  <2> QED
    BY <1>4, <2>1, <2>4, <2>5, <2>6 DEF p
<1>5. CASE ApplyState
  <2>1. PICK d \in todo : WriteState(d) /\ todo' = todo \ {d} /\ overtaken' = overtaken \ {d}
    BY <1>5 DEF ApplyState
  <2>2. ledger[d] \in Entry
    BY <2>1, LedgerIsTyped DEF Shape
  <2> DEFINE p == ledger[d].proposal
             s == Resolve(ledger[d])
  <2>3. p \in Keys /\ s \in Table!States
    BY <2>2, ResolvesToState DEF Entry
  <2>4. Table!SetState(p, s)
    BY <2>1 DEF WriteState
  <2> HIDE DEF p, s
  <2>5. Writes(p, s)
    BY <2>4 DEF Writes
  <2>6. /\ \A q \in Keys : q # p => state'[q] = state[q]
        /\ StateOK' /\ \A q \in Keys : Table!Exists(q) => Table!Exists(q)'
    BY <1>1, <1>2, <2>3, <2>5, StateWritten
  <2>7. state'[p] = s
    BY <1>1, <2>3, <2>4 DEF Table!SetState, StateOK
  <2> QED
    BY <1>5, <2>1, <2>2, <2>6, <2>7 DEF p, s
<1>6. CASE UNCHANGED state
  BY <1>1, <1>6 DEF StateOK, Table!Exists
<1>7. CASE Contracts \/ ArchiveRow \/ RowFails \/ RunFails \/ Restart
  BY <1>6, <1>7 DEF Contracts, ArchiveRow, RowFails, RunFails, Restart
<1>8. CASE Begin \/ FinishHandler \/ DrainRow \/ DeferRow \/ MetaFails
  BY <1>6, <1>8 DEF Begin, FinishHandler, DrainRow, DeferRow, Defer, MetaFails
<1>9. CASE WriteLedger
  BY <1>6, <1>9, LedgerIsWritten
<1> QED
  BY <1>3, <1>4, <1>5, <1>7, <1>8, <1>9 DEF Next, Worker

LEMMA ShapeStep ==
    ASSUME Shape, ChainOK, stage = "written" => batch # {}, Next
    PROVE  Shape'
<1>0. StateOK'
  BY StateChange
<1> USE DEF Shape
<1>1. CASE Contracts
  <2>1. QueueShape'
    BY <1>1, ContractsExtend, QueueShapeEmit DEF Contracts
  <2> QED
    BY <1>0, <1>1, <2>1, ContractsExtend DEF Contracts, rowVars, dgVars, TableOK
<1>2. CASE ArchiveRow
  <2>1. PICK i \in DOMAIN log :
           \E n \in RageQuits(i)..RageQuits(Len(log)) : Archive(i, 2 * n + 1)
    BY <1>2 DEF ArchiveRow
  <2>6. PICK n \in RageQuits(i)..RageQuits(Len(log)) : Archive(i, 2 * n + 1)
    BY <2>1
  <2>2. i \in 1..Len(log) /\ Len(log) \in Nat
    BY DEF QueueShape
  <2>3. RageQuits(i) \in Nat /\ RageQuits(Len(log)) \in Nat
    BY <2>2, RageQuitsIsNat
  <2>4. 2 * n + 1 \in Nat \ {0}
    BY <2>3
  <2>5. QueueShape'
    BY <1>2, <2>2, <2>4, <2>6, QueueShapeArchive DEF ArchiveRow
  <2> QED
    BY <1>0, <1>2, <2>5 DEF ArchiveRow, rowVars, dgVars, TableOK
<1>3. CASE Begin
  <2>1. batch' \subseteq Derivable
    BY <1>3 DEF Begin, BeginTick
  <2>2. QueueShape'
    BY <1>3, <2>1, QueueShapeWork DEF Begin, chainVars, Derivable, QueueShape, QueueTypeOK
  <2> QED
    BY <1>0, <1>3, <2>1, <2>2 DEF Begin, chainVars, dgVars, TableOK, Derivable
<1>4. ASSUME MarkDerived, batch # {}, UNCHANGED <<log, received, attempts, held, quarantined, faults>>
      PROVE  QueueShape' /\ log' \in Seq(Event) /\ batch' \cap derived' = {}
  <2>1. First \in batch /\ derived' = derived \cup {First} /\ batch' = batch \ {First}
    BY <1>4, RowIsLogged DEF MarkDerived
  <2> HIDE DEF First
  <2>2. QueueShape'
    BY <1>4, <2>1, QueueShapeWork DEF QueueShape, QueueTypeOK
  <2> QED
    BY <1>4, <2>1, <2>2
<1>5. CASE AragonRow
  <2>1. batch # {}
    BY <1>5 DEF AragonRow
  <2>2. overtaken' \subseteq DgIds
    BY <1>0, <1>5 DEF AragonRow, TableOK
  <2> QED
    BY <1>4, <1>5, <1>0, <2>1, <2>2 DEF AragonRow, ApplyAragon, chainVars, dgVars, TableOK
<1>6. CASE InsertDirect
  BY <1>6, <1>0 DEF InsertDirect, chainVars, rowVars, TableOK, QueueShape, QueueTypeOK, Archived
<1>7. CASE WriteLedger
  <2> HIDE DEF Shape
  <2>1. /\ stage' = "written" /\ UNCHANGED <<state, overtaken>>
        /\ history' \subseteq Nat /\ todo' \subseteq DgIds
        /\ ledger' \in [DgIds -> Entry \cup {NoEntry}]
        /\ \A d \in todo' : ledger'[d] # NoEntry
        /\ UNCHANGED <<log, received, derived, attempts, held, quarantined, batch, faults>>
    BY <1>7, LedgerIsWritten
  <2> QED
    BY <1>0, <2>1 DEF Shape, TableOK, QueueShape, QueueTypeOK, Archived
<1>8. CASE ApplyState
  <2>1. PICK d \in todo : WriteState(d) /\ todo' = todo \ {d} /\ overtaken' = overtaken \ {d}
    BY <1>8 DEF ApplyState
  <2> QED
    BY <1>8, <1>0, <2>1 DEF ApplyState, chainVars, rowVars, TableOK, QueueShape, QueueTypeOK, Archived
<1>9. CASE FinishHandler
  <2>1. batch # {}
    BY <1>9 DEF FinishHandler
  <2> QED
    BY <1>0, <1>4, <1>9, <2>1 DEF FinishHandler, chainVars, TableOK
<1>10. CASE DrainRow
  BY <1>0, <1>4, <1>10 DEF DrainRow, chainVars, dgVars, TableOK
<1>11. CASE DeferRow
  <2>1. batch' \subseteq batch
    BY <1>11 DEF DeferRow, Defer
  <2>2. QueueShape'
    BY <1>11, <2>1, QueueShapeWork DEF DeferRow, Defer, chainVars, QueueShape, QueueTypeOK
  <2> QED
    BY <1>0, <1>11, <2>1, <2>2 DEF DeferRow, Defer, chainVars, dgVars, TableOK
<1>12. CASE MetaFails \/ RowFails
  <2>1. Fail /\ batch # {} /\ (UNCHANGED faults \/ Fault)
    BY <1>12 DEF MetaFails, RowFails
  <2>2. First \in Positions /\ attempts' \in [Positions -> 0..DlqThreshold]
    BY <2>1, RowIsLogged, CountIsBounded DEF Fail, CountFailure, QueueShape, QueueTypeOK
  <2>3. faults' \in 0..MaxFaults
    BY <2>1, FaultIsBounded DEF QueueShape, QueueTypeOK
  <2>4. quarantined' \subseteq Positions /\ batch' \subseteq batch
    BY <2>1, <2>2 DEF Fail, CountFailure, QueueShape, QueueTypeOK
  <2>5. QueueShape'
    BY <1>12, <2>2, <2>3, <2>4, QueueShapeWork
       DEF MetaFails, RowFails, chainVars, QueueShape, QueueTypeOK
  <2> QED
    BY <1>0, <1>12, <2>1, <2>4, <2>5 DEF MetaFails, RowFails, Fail, chainVars, TableOK
<1>13. CASE RunFails
  <2>1. batch' \subseteq batch /\ faults' \in 0..MaxFaults
    BY <1>13, FaultIsBounded DEF RunFails, SkipRun, QueueShape, QueueTypeOK
  <2>2. QueueShape'
    BY <1>13, <2>1, QueueShapeWork DEF RunFails, chainVars, QueueShape, QueueTypeOK
  <2> QED
    BY <1>0, <1>13, <2>1, <2>2 DEF RunFails, chainVars, dgVars, TableOK
<1>14. CASE Restart
  <2>1. faults' \in 0..MaxFaults
    BY <1>14, FaultIsBounded DEF Restart, QueueShape, QueueTypeOK
  <2>2. QueueShape'
    BY <1>14, <2>1, QueueShapeWork DEF Restart, chainVars, QueueShape, QueueTypeOK
  <2> QED
    BY <1>0, <1>14, <2>2 DEF Restart, chainVars, TableOK
<1> QED
  BY <1>1, <1>2, <1>3, <1>5, <1>6, <1>7, <1>8, <1>9, <1>10, <1>11, <1>12, <1>13, <1>14
     DEF Next, Worker

-----------------------------------------------------------------------------
(* The invariant.                                                          *)

Submits(i, d) == log[i].typ = "ProposalSubmitted" /\ log[i].id = d
Entered(d) == ledger[d] # NoEntry

\* The archive settles what the submission's transaction is.
Known(tx) ==
    EnactedIn(tx) # {} \/ \E i \in Archived : log[i].tx = tx /\ log[i].typ = "ProposalSubmittedMeta"

\* What DirectMeansNoVote says of one submission.
NoVoteAhead(i) ==
    \A j \in DOMAIN log : (log[j].typ = "ExecuteVote" /\ log[j].tx = log[i].tx) =>
        \E k \in 1..(j - 1) : log[k].src = "aragon_voting" /\ log[k].block = log[j].block

\* A source is archived in the order of its logs, no row before its rage quits,
\* and the history holds nothing but archived rage quits.
Dated ==
    /\ \A i \in Archived : /\ received[i] >= TimeOf(i) + 1
                         /\ \A j \in 1..(i - 1) : log[j].src = log[i].src => j \in Archived
    /\ \A at \in history : \E j \in Archived : log[j].typ = "RageQuit" /\ at = TimeOf(j)

\* An entry comes of its archived submission and is for the proposal of that
\* transaction; a cancelled one has a cancellation.
Source(i, d) ==
    /\ Submits(i, d) /\ ledger[d].submittedAt = received[i] /\ Known(log[i].tx)
    /\ \/ ledger[d].proposal = Direct(d) /\ NoVoteAhead(i)
       \/ \E v \in EnactedIn(log[i].tx) : ledger[d].proposal = Aragon(v)

Sourced(d) ==
    Entered(d) =>
        /\ Table!Exists(ledger[d].proposal)
        /\ \E i \in Archived : Source(i, d)
        /\ ledger[d].status = "cancelled" => \E j \in Archived : CancelsFrom(j, d)

Quit(d) ==
    \E i, j \in DOMAIN log : Submits(i, d) /\ log[j].typ = "RageQuit" /\ i < j

Vetoed ==
    \A p \in Keys : state[p] = "vetoed" =>
        \E d \in DgIds : Entered(d) /\ ledger[d].proposal = p /\ Quit(d)

\* The rows whose handler writes the state of a submission's proposal, a
\* cancellation apart.
Rewrites(i, d) ==
    /\ log[i].src = "dual_governance"
    /\ \/ log[i].typ = "RageQuit" /\ ledger[d].status # "executed"
       \/ /\ log[i].typ \in {"ProposalSubmitted", "ProposalScheduled", "ProposalExecuted"}
          /\ log[i].id = d

\* Between the writes of a handler.
Handling ==
    /\ stage # "written" => todo = {}
    /\ stage # "idle" =>
          /\ batch # {} /\ Row.src = "dual_governance" /\ Row.typ # "ProposalSubmittedMeta"
          /\ Row.typ = "ProposalSubmitted" => Known(Row.tx)
    /\ stage = "inserted" =>
          /\ Row.typ = "ProposalSubmitted" /\ NoVoteAhead(First)
          /\ Table!Exists(Direct(Row.id))
    /\ \A d \in todo : Rewrites(First, d) \/ ledger[d].status = "cancelled"
    /\ stage = "written" /\ Row.typ = "ProposalExecuted" =>
          ledger[Row.id].status \in {"executed", "cancelled"}

Executions ==
    \A i \in derived : log[i].typ = "ProposalExecuted" =>
        ledger[log[i].id].status \in {"executed", "cancelled"}

\* A row whose handler's write to the ledger is to come.
Waits(i) == i \in Archived /\ i \notin derived /\ ~(stage = "written" /\ i = First)

\* What UnifiedStateFollowsLedger says of one submission while rows wait: it is
\* shown, or a handler or a row that waits will write it.
Exempt(d) == d \in overtaken \/ (ledger[d].status = "cancelled" /\ faults > 0)

Follows(d) ==
    Entered(d) => \/ Exempt(d) \/ Shown(d) \/ d \in todo
                  \/ \E i \in Positions : Waits(i) /\ Rewrites(i, d)

IInv ==
    /\ Shape /\ ChainOK /\ Dated /\ Vetoed /\ Handling /\ Executions
    /\ \A d \in DgIds : Sourced(d) /\ Follows(d)

LEMMA IInvInit == Init => IInv
<1> SUFFICES ASSUME Init PROVE IInv
  OBVIOUS
<1>1. Shape
  BY ShapeInit
<1>2. /\ log = <<>> /\ Archived = {} /\ derived = {} /\ history = {} /\ todo = {}
      /\ stage = "idle" /\ \A d \in DgIds : ledger[d] = NoEntry
      /\ \A p \in Keys : state[p] = "none"
  BY DEF Init, QueueInit, Archived, Table!StateInit
<1>3. ChainOK
  BY <1>2 DEF ChainOK, Numbered, Unique, Ordered, Logged, CancelsFrom
<1>4. Dated /\ Vetoed /\ Handling /\ Executions
  BY <1>2 DEF Dated, Vetoed, Handling, Executions
<1>5. \A d \in DgIds : Sourced(d) /\ Follows(d)
  BY <1>2 DEF Sourced, Follows, Entered
<1> QED
  BY <1>1, <1>3, <1>4, <1>5 DEF IInv

\* The submission of an entry, and the entry of a proposal, are unique.
LEMMA SourceIsUnique ==
    ASSUME IInv, NEW d \in DgIds, Entered(d), NEW i \in DOMAIN log, Submits(i, d)
    PROVE  i \in Archived /\ Source(i, d)
<1>1. PICK h \in Archived : Source(h, d)
  BY DEF IInv, Sourced
<1>2. h \in DOMAIN log /\ Submits(h, d)
  BY <1>1, ArchivedIsLogged DEF IInv, Source
<1>3. h = i
  BY <1>2 DEF IInv, ChainOK, Unique, Once, Submits
<1> QED
  BY <1>1, <1>3

LEMMA EntryIsUnique ==
    ASSUME IInv, NEW d \in DgIds, NEW e \in DgIds, Entered(d), Entered(e),
           ledger[d].proposal = ledger[e].proposal
    PROVE  d = e
<1>1. PICK i \in Archived : Source(i, d)
  BY DEF IInv, Sourced
<1>2. PICK j \in Archived : Source(j, e)
  BY DEF IInv, Sourced
<1>3. i \in DOMAIN log /\ j \in DOMAIN log /\ Archived \subseteq DOMAIN log
  BY ArchivedIsLogged DEF IInv
<1>4. CASE ledger[d].proposal = Direct(d)
  <2>1. ledger[e].proposal = Direct(e)
    BY <1>2, <1>4, AragonKeys DEF Source
  <2> QED
    BY <1>4, <2>1, AragonKeys
<1>5. CASE \E v \in EnactedIn(log[i].tx) : ledger[d].proposal = Aragon(v)
  <2>1. PICK v : v \in EnactedIn(log[i].tx) /\ ledger[d].proposal = Aragon(v)
    BY <1>5
  <2>2. v \in EnactedIn(log[j].tx)
    BY <1>2, <2>1, AragonKeys DEF Source
  <2>3. PICK h \in Archived : log[h].tx = log[i].tx /\ log[h].typ = "ExecuteVote" /\ log[h].id = v
    BY <2>1 DEF EnactedIn
  <2>4. PICK k \in Archived : log[k].tx = log[j].tx /\ log[k].typ = "ExecuteVote" /\ log[k].id = v
    BY <2>2 DEF EnactedIn
  <2>5. h = k
    BY <1>3, <2>3, <2>4 DEF IInv, ChainOK, Unique, Once
  <2>6. log[i].tx = log[j].tx /\ log[i].typ = "ProposalSubmitted" /\ log[j].typ = "ProposalSubmitted"
        /\ log[i].id = d /\ log[j].id = e
    BY <1>1, <1>2, <2>3, <2>4, <2>5 DEF Source, Submits
  <2>7. i = j
    BY <1>3, <2>6 DEF IInv, ChainOK, Unique, Once
  <2> QED
    BY <2>6, <2>7
<1> QED
  BY <1>1, <1>4, <1>5 DEF Source

-----------------------------------------------------------------------------
(* What every step but the contracts' keeps.                               *)

\* Archived rows stay as they are, and proposals, entries and settled statuses stay.
Grows ==
    /\ log' = log /\ Archived \subseteq Archived' /\ derived \subseteq derived'
    /\ \A i \in Archived : received'[i] = received[i]
    /\ \A p \in Keys : Table!Exists(p) => Table!Exists(p)'
    /\ \A d \in DgIds : Entered(d) =>
          /\ Entered(d)' /\ ledger'[d].proposal = ledger[d].proposal
          /\ ledger'[d].submittedAt = ledger[d].submittedAt
          /\ ledger[d].status \in {"executed", "cancelled"} => ledger'[d].status = ledger[d].status
    /\ history \subseteq history'

Indexer == ArchiveRow \/ Worker \/ RowFails \/ RunFails \/ Restart

LEMMA GrowsStep == ASSUME IInv, Indexer PROVE Grows
<1>1. Shape
  BY DEF IInv
<1>2. ASSUME UNCHANGED <<log, received>> PROVE log' = log /\ Archived \subseteq Archived'
                                             /\ \A i \in Archived : received'[i] = received[i]
  BY <1>2 DEF Archived
<1>3. \A p \in Keys : Table!Exists(p) => Table!Exists(p)'
  BY <1>1, StateChange DEF Indexer, Next
<1>4. ASSUME UNCHANGED ledger
      PROVE  \A d \in DgIds : Entered(d) =>
          /\ Entered(d)' /\ ledger'[d].proposal = ledger[d].proposal
          /\ ledger'[d].submittedAt = ledger[d].submittedAt
          /\ ledger[d].status \in {"executed", "cancelled"} => ledger'[d].status = ledger[d].status
  BY <1>4 DEF Entered
<1>5. CASE ArchiveRow
  <2>1. PICK i \in DOMAIN log :
           \E n \in RageQuits(i)..RageQuits(Len(log)) : Archive(i, 2 * n + 1)
    BY <1>5 DEF ArchiveRow
  <2>2. PICK time \in Nat : Archive(i, time)
    <3>1. i \in Nat /\ Len(log) \in Nat
      BY <1>1, LoggedIsEvent DEF Shape, QueueShape
    <3>2. RageQuits(i) \in Nat /\ RageQuits(Len(log)) \in Nat
      BY <3>1, RageQuitsIsNat
    <3> QED
      BY <2>1, <3>2
  <2>3. /\ \A k \in Positions : k # i => received'[k] = received[k]
        /\ received[i] = 0
    BY <1>1, <2>2 DEF Archive, Shape, QueueShape, QueueTypeOK
  <2>4. Archived \subseteq Archived' /\ \A k \in Archived : received'[k] = received[k]
    BY <2>3 DEF Archived
  <2> QED
    BY <1>3, <1>4, <1>5, <2>4 DEF ArchiveRow, rowVars, dgVars, Grows
<1>6. CASE AragonRow
  BY <1>2, <1>3, <1>4, <1>6 DEF AragonRow, ApplyAragon, MarkDerived, chainVars, dgVars, Grows
<1>7. CASE InsertDirect
  BY <1>2, <1>3, <1>4, <1>7 DEF InsertDirect, chainVars, rowVars, Grows
<1>8. CASE WriteLedger
  <2>1. batch # {} /\ UNCHANGED <<state, log, received, derived>>
    BY <1>1, <1>8, LedgerIsWritten
  <2>2. \A d \in DgIds : Entered(d) =>
          /\ Entered(d)' /\ ledger'[d].proposal = ledger[d].proposal
          /\ ledger'[d].submittedAt = ledger[d].submittedAt
          /\ ledger[d].status \in {"executed", "cancelled"} => ledger'[d].status = ledger[d].status
    <3>1. CASE Row.typ = "ProposalSubmitted" /\ Submitted
      BY <1>1, <2>1, <3>1, SubmittedWrites DEF Entered
    <3>2. CASE \/ Row.typ = "ProposalScheduled" /\ Advance("scheduled")
               \/ Row.typ = "ProposalExecuted" /\ Advance("executed")
      <4>1. PICK to \in {"scheduled", "executed"} : Advance(to)
        BY <3>2
      <4>2. {"executed", "cancelled"} \cap Before(to) = {}
        BY <4>1 DEF Before
      <4>3. /\ \A e \in DgIds : e # Row.id => ledger'[e] = ledger[e]
            /\ ledger'[Row.id] # NoEntry
            /\ ledger'[Row.id].proposal = ledger[Row.id].proposal
            /\ ledger'[Row.id].submittedAt = ledger[Row.id].submittedAt
            /\ ledger'[Row.id].status =
                  IF ledger[Row.id].status \in Before(to) THEN to ELSE ledger[Row.id].status
        BY <1>1, <2>1, <3>2, <4>1, AdvanceWrites
      <4> QED
        BY <4>2, <4>3 DEF Entered
    <3>3. CASE CancelThrough
      BY <1>1, <2>1, <3>3, CancelWrites DEF Entered
    <3>4. CASE RecordRageQuit
      BY <1>4, <3>4 DEF RecordRageQuit
    <3> QED
      BY <1>1, <1>8, <3>1, <3>2, <3>3, <3>4, LedgerIsWritten
  <2>3. history \subseteq history'
    <3>1. CASE Row.typ = "RageQuit" /\ RecordRageQuit
      BY <3>1 DEF RecordRageQuit
    <3>2. CASE Row.typ # "RageQuit"
      <4>1. Submitted \/ (\E to : Advance(to)) \/ CancelThrough
        BY <1>1, <1>8, <3>2, LedgerIsWritten
      <4> QED
        BY <4>1 DEF Submitted, Advance, CancelThrough
    <3> QED
      BY <1>1, <1>8, <3>1, <3>2, LedgerIsWritten
  <2> QED
    BY <1>2, <1>3, <2>1, <2>2, <2>3 DEF Grows
<1>9. CASE ApplyState
  BY <1>2, <1>3, <1>4, <1>9 DEF ApplyState, chainVars, rowVars, Grows
<1>10. CASE Begin \/ FinishHandler \/ DrainRow \/ DeferRow \/ MetaFails
  BY <1>2, <1>3, <1>4, <1>10
     DEF Begin, FinishHandler, DrainRow, DeferRow, Defer, MetaFails, MarkDerived, chainVars, dgVars, Grows
<1>11. CASE RowFails \/ RunFails \/ Restart
  BY <1>2, <1>3, <1>4, <1>11 DEF RowFails, RunFails, Restart, chainVars, dgVars, Grows
<1> QED
  BY <1>5, <1>6, <1>7, <1>8, <1>9, <1>10, <1>11 DEF Indexer, Worker

\* What is known, and what has a source, stays so.
LEMMA GrowsKeeps ==
    ASSUME Grows
    PROVE  /\ \A tx : EnactedIn(tx) \subseteq EnactedIn(tx)' /\ (Known(tx) => Known(tx)')
           /\ \A i : NoVoteAhead(i) => NoVoteAhead(i)'
           /\ \A i, d : Quit(d) => Quit(d)'
           /\ \A i \in Archived, d \in DgIds : Entered(d) /\ Source(i, d) => Source(i, d)'
<1>1. \A tx : EnactedIn(tx) \subseteq EnactedIn(tx)'
  BY DEF Grows, EnactedIn
<1>2. \A tx : Known(tx) => Known(tx)'
  BY <1>1 DEF Grows, Known
<1>3. \A i : NoVoteAhead(i) => NoVoteAhead(i)'
  BY DEF Grows, NoVoteAhead
<1>4. \A i, d : Quit(d) => Quit(d)'
  BY DEF Grows, Quit, Submits
<1>5. \A i \in Archived, d \in DgIds : Entered(d) /\ Source(i, d) => Source(i, d)'
  BY <1>1, <1>2, <1>3 DEF Grows, Source, Submits
<1> QED
  BY <1>1, <1>2, <1>3, <1>4, <1>5

-----------------------------------------------------------------------------
(* Every step keeps the invariant.                                         *)

LEMMA SameRow == ASSUME UNCHANGED <<batch, log>> PROVE First' = First /\ Row' = Row
BY DEF First, Row, Precedes

\* The chain moves while nothing is archived, so that there is nothing to keep.
LEMMA ContractsStep == ASSUME IInv, Contracts PROVE IInv'
<1>1. Shape' /\ ChainOK'
  BY ShapeStep, ContractsExtend DEF IInv, Handling, Next
<1>2. Archived = {} /\ UNCHANGED <<received, rowVars, faults, state, dgVars, overtaken>>
  BY DEF Contracts
<1>3. batch = {} /\ derived = {} /\ Archived' = {}
  BY <1>2 DEF IInv, Shape, QueueShape, rowVars, Archived
<1>4. \A d \in DgIds : ~Entered(d)
  BY <1>2 DEF IInv, Sourced
<1>5. stage = "idle" /\ todo = {} /\ history = {}
  BY <1>2, <1>3 DEF IInv, Handling, Dated, Shape
<1>6. \A p \in Keys : state[p] # "vetoed"
  BY <1>4 DEF IInv, Vetoed
<1>7. /\ UNCHANGED <<ledger, state>> /\ batch' = {} /\ derived' = {} /\ stage' = "idle" /\ todo' = {}
      /\ history' = {} /\ \A d \in DgIds : ~Entered(d)'
  BY <1>2, <1>3, <1>4, <1>5 DEF rowVars, dgVars, Entered
<1>8. Dated' /\ Vetoed' /\ Handling' /\ Executions'
  BY <1>3, <1>6, <1>7 DEF Dated, Vetoed, Handling, Executions
<1>9. \A d \in DgIds : Sourced(d)' /\ Follows(d)'
  BY <1>7 DEF Sourced, Follows
<1> QED
  BY <1>1, <1>8, <1>9 DEF IInv

LEMMA DatedStep == ASSUME IInv, Indexer PROVE Dated'
<1>1. Shape /\ Dated /\ Grows
  BY GrowsStep DEF IInv
<1>2. \A i : TimeOf(i)' = TimeOf(i)
  BY <1>1 DEF Grows, TimeOf, RageQuits
<1>3. CASE ArchiveRow
  <2>1. PICK i \in DOMAIN log :
           \E n \in RageQuits(i)..RageQuits(Len(log)) : Archive(i, 2 * n + 1)
    BY <1>3 DEF ArchiveRow
  <2>2. PICK n \in RageQuits(i)..RageQuits(Len(log)) : Archive(i, 2 * n + 1)
    BY <2>1
  <2>3. i \in Nat /\ Len(log) \in Nat /\ i \in Positions
    BY <1>1, LoggedIsEvent DEF Shape, QueueShape
  <2>4. RageQuits(i) \in Nat /\ RageQuits(Len(log)) \in Nat
    BY <2>3, RageQuitsIsNat
  <2>5. n \in Nat /\ 2 * n + 1 >= TimeOf(i) + 1 /\ 2 * n + 1 > 0
    BY <2>4 DEF TimeOf
  <2>6. received' = [received EXCEPT ![i] = 2 * n + 1] /\ received \in [Positions -> Nat]
    BY <1>1, <2>2 DEF Archive, Shape, QueueShape, QueueTypeOK
  <2>7. Archived' = Archived \cup {i} /\ received'[i] = 2 * n + 1
    BY <2>3, <2>5, <2>6 DEF Archived
  <2>8. \A j \in 1..(i - 1) : log[j].src = log[i].src => j \in Archived
    <3>1. i \in 1..MaxLog
      BY <2>3 DEF Positions
    <3>2. \A j \in 1..(i - 1) : j \in Positions
      BY <3>1 DEF Positions
    <3> QED
      BY <2>2, <3>2 DEF Archive, Archived
  <2>9. history' = history /\ log' = log
    BY <1>3 DEF ArchiveRow, dgVars
  <2>10. ASSUME NEW k \in Archived'
         PROVE  /\ received'[k] >= TimeOf(k) + 1
                /\ \A j \in 1..(k - 1) : log'[j].src = log'[k].src => j \in Archived'
    <3>1. CASE k = i
      BY <2>5, <2>7, <2>8, <2>9, <3>1
    <3>2. CASE k \in Archived
      BY <1>1, <2>7, <2>9, <3>2 DEF Grows, Dated
    <3> QED
      BY <2>7, <3>1, <3>2
  <2> QED
    BY <1>1, <1>2, <2>7, <2>9, <2>10 DEF Dated
<1>4. CASE UNCHANGED <<log, received>> /\ history' \subseteq history \cup {TimeOf(First)}
           /\ (history' # history => First \in Archived /\ Row.typ = "RageQuit")
  BY <1>1, <1>2, <1>4 DEF Dated, Archived, Row
<1>5. CASE WriteLedger
  <2>1. batch # {} /\ UNCHANGED <<log, received>>
    BY <1>1, <1>5, LedgerIsWritten
  <2>2. CASE Row.typ = "RageQuit" /\ RecordRageQuit
    BY <1>1, <1>4, <2>1, <2>2, RowIsLogged DEF RecordRageQuit
  <2>3. CASE Row.typ # "RageQuit"
    <3>1. Submitted \/ (\E to : Advance(to)) \/ CancelThrough
      BY <1>1, <1>5, <2>3, LedgerIsWritten
    <3>2. history' = history
      BY <3>1 DEF Submitted, Advance, CancelThrough
    <3> QED
      BY <1>4, <2>1, <3>2
  <2> QED
    BY <1>1, <1>5, <2>2, <2>3, LedgerIsWritten
<1>6. CASE AragonRow \/ InsertDirect \/ ApplyState \/ RunFails \/ Restart \/ RowFails
  BY <1>4, <1>6
     DEF AragonRow, InsertDirect, ApplyState, RunFails, Restart, RowFails, chainVars, dgVars
<1>7. CASE Begin \/ FinishHandler \/ DrainRow \/ DeferRow \/ MetaFails
  BY <1>4, <1>7
     DEF Begin, FinishHandler, DrainRow, DeferRow, Defer, MetaFails, chainVars, dgVars
<1> QED
  BY <1>3, <1>5, <1>6, <1>7 DEF Indexer, Worker

LEMMA VetoedStep == ASSUME IInv, Indexer PROVE Vetoed'
<1>1. Shape /\ Vetoed /\ Dated /\ Grows /\ Next
  BY GrowsStep DEF IInv, Indexer, Next
<1> SUFFICES ASSUME NEW p \in Keys, state'[p] = "vetoed"
             PROVE  \E d \in DgIds : Entered(d)' /\ ledger'[d].proposal = p /\ Quit(d)'
  BY DEF Vetoed
<1>2. ASSUME NEW d \in DgIds, Entered(d), ledger[d].proposal = p, Quit(d)
      PROVE  \E e \in DgIds : Entered(e)' /\ ledger'[e].proposal = p /\ Quit(e)'
  BY <1>1, <1>2, GrowsKeeps DEF Grows
<1>3. CASE state'[p] = state[p]
  BY <1>1, <1>2, <1>3 DEF Vetoed
<1>4. CASE state'[p] # state[p]
  <2>1. PICK d \in todo : /\ ledger[d] \in Entry /\ Resolve(ledger[d]) = "vetoed"
                          /\ p = ledger[d].proposal
    <3>1. ~(AragonRow /\ (\A q \in Keys : q # Aragon(Row.id) => state'[q] = state[q])
            /\ state'[Aragon(Row.id)] \in {state[Aragon(Row.id)], "active", "executed"})
      BY <1>4
    <3>2. ~((\A q \in Keys : q # Direct(Row.id) => state'[q] = state[q])
            /\ state'[Direct(Row.id)] = "queued")
      BY <1>4
    <3>3. PICK d \in todo : /\ ledger[d] \in Entry
                            /\ \A q \in Keys : q # ledger[d].proposal => state'[q] = state[q]
                            /\ state'[ledger[d].proposal] = Resolve(ledger[d])
      BY <1>1, <1>4, <3>1, <3>2, StateChange
    <3> QED
      BY <1>4, <3>3
  <2>2. d \in DgIds /\ Entered(d)
    BY <1>1, <2>1 DEF Shape, Entered
  <2>3. PICK at \in history : Covers(at, ledger[d])
    BY <2>1 DEF Resolve, Entry
  <2>4. PICK i \in Archived : Source(i, d)
    BY <2>2 DEF IInv, Sourced
  <2>5. PICK j \in Archived : log[j].typ = "RageQuit" /\ at = TimeOf(j)
    BY <1>1, <2>3 DEF Dated
  <2>6. i \in DOMAIN log /\ j \in DOMAIN log /\ i \in Nat /\ j \in Nat
    BY <1>1, ArchivedIsLogged, LoggedIsEvent
  <2>7. TimeOf(i) \in Nat /\ TimeOf(j) \in Nat /\ received[i] \in Nat
    <3>1. RageQuits(i) \in Nat /\ RageQuits(j) \in Nat
      BY <2>6, RageQuitsIsNat
    <3>2. i \in Positions
      BY <1>1, ArchivedIsLogged
    <3>3. received[i] \in Nat
      BY <1>1, <3>2 DEF Shape, QueueShape, QueueTypeOK
    <3> QED
      BY <3>1, <3>3 DEF TimeOf
  <2>8. at >= received[i] /\ received[i] >= TimeOf(i) + 1
    BY <1>1, <2>3, <2>4 DEF Covers, Source, Dated
  <2>9. i < j
    BY <2>5, <2>6, <2>7, <2>8, TimeOfIsLog
  <2> QED
    BY <1>2, <2>1, <2>2, <2>4, <2>5, <2>6, <2>9 DEF Quit, Source
<1> QED
  BY <1>3, <1>4

\* A direct submission is one of no vote, up to what the block tells.
LEMMA DirectHasNoVoteAhead ==
    ASSUME IInv, batch # {}, IsDirect
    PROVE  NoVoteAhead(First) /\ Known(Row.tx)
<1>1. First \in DOMAIN log /\ Row = log[First] /\ Archived \subseteq DOMAIN log
  BY RowIsLogged, ArchivedIsLogged DEF IInv
<1>2. PICK k \in Archived : log[k].src = "aragon_voting" /\ log[k].block >= Row.block
  BY DEF IsDirect, Covered
<1>3. ASSUME NEW j \in DOMAIN log, log[j].typ = "ExecuteVote", log[j].tx = Row.tx
      PROVE  k \in 1..(j - 1) /\ log[k].block = log[j].block
  <2>1. j \notin Archived
    BY <1>3 DEF IsDirect, EnactedIn
  <2>2. log[j].src = "aragon_voting"
    BY <1>3, LoggedIsEvent, EventKinds DEF IInv
  <2>3. j \notin 1..(k - 1)
    BY <1>2, <2>1, <2>2 DEF IInv, Dated
  <2>4. j # k /\ j \in Positions /\ k \in Positions /\ k \in DOMAIN log
    BY <1>1, <2>1, LoggedIsEvent DEF IInv
  <2>5. k < j /\ k \in 1..(j - 1)
    <3>1. j \in 1..MaxLog /\ k \in 1..MaxLog /\ MaxLog \in Nat
      BY <2>4 DEF Positions
    <3> QED
      BY <2>3, <2>4, <3>1
  <2>6. log[j].block = Row.block /\ log[k].block <= log[j].block
    <3>1. k <= j
      BY <2>4, <2>5 DEF Positions
    <3> QED
      BY <1>1, <1>3, <2>4, <3>1 DEF IInv, ChainOK, Numbered
  <2>7. log[j].block \in Nat /\ log[k].block \in Nat
    BY <2>4, LoggedIsEvent DEF IInv
  <2> QED
    BY <1>2, <2>5, <2>6, <2>7
<1>4. NoVoteAhead(First)
  BY <1>1, <1>2, <1>3 DEF NoVoteAhead
<1>5. Known(Row.tx)
  BY DEF IsDirect, MetaArchived, Known
<1> QED
  BY <1>4, <1>5

LEMMA SourcedStep == ASSUME IInv, Indexer, NEW d \in DgIds PROVE Sourced(d)'
<1>1. Shape /\ Grows
  BY GrowsStep DEF IInv
<1> SUFFICES ASSUME Entered(d)' PROVE Sourced(d)'
  BY DEF Sourced
<1>2. ASSUME NEW i \in Archived, Source(i, d)'
      PROVE  \E h \in Archived' : Source(h, d)'
  BY <1>1, <1>2 DEF Grows
<1>3. ASSUME Entered(d)
      PROVE  Table!Exists(ledger[d].proposal)' /\ \E i \in Archived' : Source(i, d)'
  <2>1. PICK i \in Archived : Source(i, d)
    BY <1>3 DEF IInv, Sourced
  <2>2. Source(i, d)'
    BY <1>1, <1>3, <2>1, GrowsKeeps
  <2>3. Table!Exists(ledger[d].proposal) /\ ledger[d] \in Entry
    BY <1>1, <1>3, LedgerIsTyped DEF IInv, Sourced, Entered
  <2>4. ledger[d].proposal \in Keys /\ ledger'[d].proposal = ledger[d].proposal
    BY <1>1, <1>3, <2>3 DEF Entry, Grows
  <2> QED
    BY <1>1, <1>2, <2>2, <2>3, <2>4 DEF Grows, Table!Exists
<1>4. CASE WriteLedger
  <2>1. /\ batch # {} /\ UNCHANGED <<log, received, state, batch>>
        /\ \/ Row.typ = "ProposalSubmitted" /\ Submitted
           \/ Row.typ = "ProposalScheduled" /\ Advance("scheduled")
           \/ Row.typ = "ProposalExecuted" /\ Advance("executed")
           \/ Row.typ = "ProposalsCancelledTill" /\ CancelThrough
           \/ Row.typ = "RageQuit" /\ RecordRageQuit
    BY <1>1, <1>4, LedgerIsWritten
  <2>2. First \in Archived /\ First \in DOMAIN log /\ Row = log[First]
    BY <1>1, <2>1, RowIsLogged
  <2>3. ASSUME Entered(d),
               ledger'[d].status = "cancelled" =>
                  ledger[d].status = "cancelled" \/ \E j \in Archived : CancelsFrom(j, d)
        PROVE  Sourced(d)'
    <3>1. ledger'[d].status = "cancelled" => \E j \in Archived : CancelsFrom(j, d)
      BY <2>3 DEF IInv, Sourced
    <3>2. \A j : CancelsFrom(j, d) => CancelsFrom(j, d)'
      BY <2>1 DEF CancelsFrom
    <3> QED
      BY <1>1, <1>3, <2>3, <3>1, <3>2 DEF Sourced, Grows
  <2>4. CASE Row.typ = "ProposalSubmitted" /\ Submitted
    <3>1. \A e \in DgIds : e # Row.id \/ ledger[e] # NoEntry => ledger'[e] = ledger[e]
      BY <1>1, <2>1, <2>4, SubmittedWrites
    <3>2. CASE Entered(d)
      BY <2>3, <3>1, <3>2 DEF Entered
    <3>3. CASE ~Entered(d)
      <4>1. d = Row.id
        BY <3>1, <3>3 DEF Entered
      <4>2. PICK proposal \in Keys :
               /\ ledger'[d] = [status |-> "submitted", proposal |-> proposal,
                                submittedAt |-> received[First], cancelledAt |-> 0]
               /\ \/ \E v \in EnactedIn(Row.tx) : proposal = Aragon(v) /\ Table!Exists(Aragon(v))
                  \/ stage = "inserted" /\ proposal = Direct(Row.id)
        BY <1>1, <2>1, <2>4, <3>3, <4>1, SubmittedWrites DEF Entered
      <4>3. /\ ledger'[d].status = "submitted" /\ ledger'[d].proposal = proposal
            /\ ledger'[d].submittedAt = received[First]
        BY <4>2
      <4>6. PICK h \in Archived, tx \in {log[h0].tx : h0 \in Archived} :
               /\ h = First /\ Submits(h, d) /\ log[h].tx = tx
               /\ Row.tx = tx
        BY <2>2, <2>4, <4>1 DEF Submits
      <4>4. CASE \E v \in EnactedIn(Row.tx) : proposal = Aragon(v) /\ Table!Exists(Aragon(v))
        <5>1. PICK v \in EnactedIn(Row.tx) : proposal = Aragon(v) /\ Table!Exists(Aragon(v))
          BY <4>4
        <5>2. v \in EnactedIn(tx)' /\ Known(tx)'
          BY <1>1, <4>6, <5>1, GrowsKeeps DEF Known
        <5>3. Source(h, d)'
          BY <1>1, <2>1, <4>3, <4>6, <5>1, <5>2 DEF Source, Submits, Grows
        <5>4. Table!Exists(proposal)'
          BY <2>1, <5>1 DEF Table!Exists
        <5> QED
          BY <1>1, <4>3, <5>3, <5>4 DEF Sourced, Grows, Table!Exists
      <4>5. CASE stage = "inserted" /\ proposal = Direct(Row.id)
        <5>1. NoVoteAhead(First) /\ Known(Row.tx) /\ Table!Exists(Direct(Row.id))
          BY <2>4, <4>5 DEF IInv, Handling
        <5>2. NoVoteAhead(h)' /\ Known(tx)'
          BY <1>1, <4>6, <5>1, GrowsKeeps
        <5>3. Source(h, d)'
          BY <1>1, <2>1, <4>1, <4>3, <4>5, <4>6, <5>2 DEF Source, Submits, Grows
        <5>4. Table!Exists(proposal)'
          BY <2>1, <4>5, <5>1 DEF Table!Exists
        <5> QED
          BY <1>1, <4>3, <5>3, <5>4 DEF Sourced, Grows, Table!Exists
      <4> QED
        BY <4>2, <4>4, <4>5
    <3> QED
      BY <3>2, <3>3
  <2>5. CASE \/ Row.typ = "ProposalScheduled" /\ Advance("scheduled")
             \/ Row.typ = "ProposalExecuted" /\ Advance("executed")
    <3>1. PICK to \in {"scheduled", "executed"} : Advance(to)
      BY <2>5
    <3>2. /\ ledger[Row.id] # NoEntry
          /\ \A e \in DgIds : e # Row.id => ledger'[e] = ledger[e]
          /\ ledger'[Row.id].status =
                IF ledger[Row.id].status \in Before(to) THEN to ELSE ledger[Row.id].status
      BY <1>1, <2>1, <2>5, <3>1, AdvanceWrites
    <3> QED
      BY <2>3, <3>2 DEF Entered
  <2>6. CASE Row.typ = "ProposalsCancelledTill" /\ CancelThrough
    <3>1. \/ ledger'[d] = ledger[d]
          \/ d <= Row.id /\ ledger[d] # NoEntry
      BY <1>1, <2>1, <2>6, CancelWrites
    <3>2. Row.id \in DgIds
      BY <1>1, <2>1, <2>6, KindOfRow
    <3>3. d <= Row.id => CancelsFrom(First, d)
      BY <2>2, <2>6, <3>2 DEF CancelsFrom, DgIds
    <3> QED
      BY <2>2, <2>3, <3>1, <3>3 DEF Entered
  <2>7. CASE RecordRageQuit
    <3>1. ledger' = ledger
      BY <2>7 DEF RecordRageQuit
    <3> QED
      BY <2>3, <3>1 DEF Entered
  <2> QED
    BY <2>1, <2>4, <2>5, <2>6, <2>7
<1>5. CASE UNCHANGED ledger
  <2>1. Entered(d)
    BY <1>5 DEF Entered
  <2>2. ledger'[d].status = "cancelled" => \E j \in Archived' : CancelsFrom(j, d)'
    BY <1>1, <1>5, <2>1 DEF IInv, Sourced, Grows, CancelsFrom
  <2> QED
    BY <1>3, <2>1, <2>2 DEF Sourced
<1>6. CASE ArchiveRow \/ AragonRow \/ InsertDirect \/ ApplyState \/ RunFails \/ Restart \/ RowFails
  BY <1>5, <1>6
     DEF ArchiveRow, AragonRow, InsertDirect, ApplyState, RunFails, Restart, RowFails, dgVars
<1>7. CASE Begin \/ FinishHandler \/ DrainRow \/ DeferRow \/ MetaFails
  BY <1>5, <1>7 DEF Begin, FinishHandler, DrainRow, DeferRow, Defer, MetaFails, dgVars
<1> QED
  BY <1>4, <1>6, <1>7 DEF Indexer, Worker

\* A step that is not one of a handler's leaves none at work.
LEMMA StepsOfHandler ==
    ASSUME IInv, Indexer
    PROVE  \/ InsertDirect \/ WriteLedger \/ ApplyState
           \/ stage' = "idle" /\ todo' = {}
<1>1. stage = "idle" => todo = {}
  BY DEF IInv, Handling
<1>2. CASE ArchiveRow \/ DeferRow \/ RunFails
  BY <1>1, <1>2 DEF ArchiveRow, DeferRow, Defer, RunFails, dgVars
<1>3. CASE Begin
  <2>1. stage = "idle"
    BY <1>3 DEF IInv, Handling, Shape, Begin, BeginTick
  <2> QED
    BY <1>1, <1>3, <2>1 DEF Begin, dgVars
<1>4. CASE AragonRow
  <2>1. stage = "idle"
    BY <1>4 DEF IInv, Handling, Shape, AragonRow
  <2> QED
    BY <1>1, <1>4, <2>1 DEF AragonRow, dgVars
<1>5. CASE FinishHandler
  BY <1>5 DEF FinishHandler
<1>6. CASE DrainRow
  <2>1. MetaMissing => ~Known(Row.tx) /\ Row.typ = "ProposalSubmitted"
    BY DEF MetaMissing, Known, MetaArchived
  <2>2. stage = "idle"
    BY <1>6, <2>1 DEF IInv, Handling, Shape, DrainRow
  <2> QED
    BY <1>1, <1>6, <2>2 DEF DrainRow, dgVars
<1>7. CASE MetaFails \/ RowFails \/ Restart
  BY <1>7 DEF MetaFails, RowFails, Fail, Restart
<1> QED
  BY <1>2, <1>3, <1>4, <1>5, <1>6, <1>7 DEF Indexer, Worker

\* What a handler writes leaves to its other writes.
LEMMA LedgerIsHandled ==
    ASSUME IInv, WriteLedger
    PROVE  /\ \A d \in todo' : Rewrites(First, d)' \/ ledger'[d].status = "cancelled"
           /\ Row.typ = "ProposalExecuted" => ledger'[Row.id].status \in {"executed", "cancelled"}
           /\ Row.src = "dual_governance" /\ Row.typ # "ProposalSubmittedMeta"
           /\ Row.typ = "ProposalSubmitted" => Known(Row.tx)
<1>1. Shape
  BY DEF IInv
<1>2. /\ batch # {} /\ UNCHANGED <<log, received, batch, derived, state>>
      /\ \/ Row.typ = "ProposalSubmitted" /\ Submitted
         \/ Row.typ = "ProposalScheduled" /\ Advance("scheduled")
         \/ Row.typ = "ProposalExecuted" /\ Advance("executed")
         \/ Row.typ = "ProposalsCancelledTill" /\ CancelThrough
         \/ Row.typ = "RageQuit" /\ RecordRageQuit
  BY <1>1, LedgerIsWritten
<1>3. Row.src = "dual_governance" /\ Row.typ # "ProposalSubmittedMeta" /\ Row = log[First]
  BY <1>1, <1>2, KindOfRow, RowIsLogged
<1>4. First' = First /\ Row' = Row /\ log' = log
  BY <1>2, SameRow
<1>5. CASE Row.typ = "ProposalSubmitted" /\ Submitted
  <2>1. todo' = {Row.id}
    BY <1>5 DEF Submitted
  <2>2. \A d \in todo' : Rewrites(First, d)'
    BY <1>3, <1>4, <1>5, <2>1 DEF Rewrites
  <2>3. Known(Row.tx)
    BY <1>1, <1>2, <1>5, SubmittedWrites DEF Known, IInv, Handling
  <2> QED
    BY <1>3, <1>5, <2>2, <2>3
<1>6. CASE \/ Row.typ = "ProposalScheduled" /\ Advance("scheduled")
           \/ Row.typ = "ProposalExecuted" /\ Advance("executed")
  <2>1. PICK to \in {"scheduled", "executed"} :
           Advance(to) /\ (Row.typ = "ProposalExecuted" => to = "executed")
    BY <1>6
  <2>2. todo' = {Row.id}
    BY <2>1 DEF Advance
  <2>3. \A d \in todo' : Rewrites(First, d)'
    BY <1>3, <1>4, <1>6, <2>2 DEF Rewrites
  <2>4. /\ Row.id \in DgIds /\ ledger[Row.id] # NoEntry
        /\ ledger'[Row.id].status =
              IF ledger[Row.id].status \in Before(to) THEN to ELSE ledger[Row.id].status
    BY <1>1, <1>2, <1>6, <2>1, AdvanceWrites
  <2>5. ledger[Row.id] \in Entry
    BY <1>1, <2>4, LedgerIsTyped
  <2>6. Row.typ = "ProposalExecuted" => ledger'[Row.id].status \in {"executed", "cancelled"}
    BY <2>1, <2>4, <2>5 DEF Before, Entry
  <2> QED
    BY <1>3, <1>6, <2>3, <2>6
<1>7. CASE Row.typ = "ProposalsCancelledTill" /\ CancelThrough
  <2>1. \A d \in todo' : ledger'[d].status = "cancelled"
    BY <1>1, <1>2, <1>7, CancelWrites
  <2> QED
    BY <1>3, <1>7, <2>1
<1>8. CASE Row.typ = "RageQuit" /\ RecordRageQuit
  <2>1. todo' = Resolvable /\ ledger' = ledger
    BY <1>8 DEF RecordRageQuit
  <2>2. \A d \in todo' : Rewrites(First, d)'
    BY <1>3, <1>4, <1>8, <2>1 DEF Rewrites, Resolvable
  <2> QED
    BY <1>3, <1>8, <2>2
<1> QED
  BY <1>2, <1>5, <1>6, <1>7, <1>8

LEMMA HandlingStep == ASSUME IInv, Indexer PROVE Handling'
<1>1. Shape /\ Handling /\ Grows
  BY GrowsStep DEF IInv
<1>2. CASE stage' = "idle" /\ todo' = {}
  BY <1>2 DEF Handling
<1>3. CASE InsertDirect
  <2>1. /\ batch # {} /\ stage' = "inserted" /\ UNCHANGED <<log, received, batch, todo>> /\ stage = "idle"
        /\ Row.typ = "ProposalSubmitted" /\ IsDirect
    BY <1>3 DEF InsertDirect, chainVars, rowVars
  <2>2. First' = First /\ Row' = Row /\ Row = log[First] /\ Row.src = "dual_governance" /\ Row.id \in DgIds
    BY <1>1, <2>1, SameRow, KindOfRow, RowIsLogged
  <2>3. NoVoteAhead(First) /\ Known(Row.tx)
    BY <2>1, DirectHasNoVoteAhead
  <2>4. NoVoteAhead(First)' /\ Known(Row.tx)'
    <3>1. PICK h, tx : h = First /\ tx = Row.tx
      OBVIOUS
    <3>2. NoVoteAhead(h)' /\ Known(tx)'
      BY <1>1, <2>3, <3>1, GrowsKeeps
    <3>3. h = First' /\ tx = Row'.tx
      BY <2>2, <3>1
    <3> QED
      BY <3>2, <3>3
  <2>5. Table!Exists(Direct(Row.id))'
    <3>1. PICK p \in Keys : p = Direct(Row.id) /\ p = Direct(Row'.id)
      BY <2>2, AragonKeys
    <3>2. Table!Exists(p) \/ state'[p] = "queued"
      <4>1. StateOK /\ Table!InsertProposal(p, "queued")
        BY <1>1, <1>3, <3>1 DEF InsertDirect, Shape, TableOK
      <4> QED
        BY <4>1 DEF Table!InsertProposal, StateOK
    <3> QED
      BY <1>1, <3>1, <3>2 DEF Grows, Table!Exists
  <2>6. todo' = {}
    BY <1>1, <2>1 DEF Handling
  <2> QED
    BY <2>1, <2>2, <2>4, <2>5, <2>6 DEF Handling
<1>4. CASE WriteLedger
  <2>1. batch # {} /\ stage' = "written" /\ UNCHANGED <<log, batch>>
    BY <1>1, <1>4, LedgerIsWritten
  <2>2. First' = First /\ Row' = Row
    BY <2>1, SameRow
  <2>3. PICK tx : tx = Row.tx /\ tx = Row'.tx
    BY <2>2
  <2>4. Row'.typ = "ProposalSubmitted" => Known(Row.tx)'
    <3>1. Row'.typ = "ProposalSubmitted" => Known(tx)'
      BY <1>1, <1>4, <2>2, <2>3, LedgerIsHandled, GrowsKeeps
    <3> QED
      BY <2>3, <3>1
  <2> QED
    BY <1>4, <2>1, <2>2, <2>4, LedgerIsHandled DEF Handling
<1>5. CASE ApplyState
  <2>1. /\ UNCHANGED <<log, received, batch, ledger, stage, derived>> /\ todo' \subseteq todo /\ stage = "written"
    BY <1>1, <1>5 DEF ApplyState, chainVars, rowVars, Handling
  <2>2. First' = First /\ Row' = Row
    BY <2>1, SameRow
  <2>3. Row.typ = "ProposalSubmitted" => Known(Row.tx)'
    <3>1. PICK tx : tx = Row.tx /\ tx = Row'.tx
      BY <2>2
    <3>2. Row.typ = "ProposalSubmitted" => Known(tx)'
      BY <1>1, <2>1, <3>1, GrowsKeeps DEF Handling
    <3> QED
      BY <3>1, <3>2
  <2>4. \A d : Rewrites(First, d) => Rewrites(First, d)'
    BY <2>1, <2>2 DEF Rewrites
  <2> QED
    BY <1>1, <2>1, <2>2, <2>3, <2>4 DEF Handling
<1> QED
  BY <1>2, <1>3, <1>4, <1>5, StepsOfHandler

LEMMA ExecutionsStep == ASSUME IInv, Indexer PROVE Executions'
<1>1. Shape /\ Executions /\ Handling /\ Grows
  BY GrowsStep DEF IInv
<1>2. ASSUME NEW i \in DOMAIN log, log[i].typ = "ProposalExecuted",
             ledger[log[i].id].status \in {"executed", "cancelled"}
      PROVE  ledger'[log'[i].id].status \in {"executed", "cancelled"}
  <2>1. log[i].id \in DgIds
    BY <1>1, <1>2, LoggedIsEvent, EventKinds
  <2>2. Entered(log[i].id)
    BY <1>2 DEF Entered, NoEntry
  <2> QED
    BY <1>1, <1>2, <2>1, <2>2 DEF Grows
<1>3. derived \subseteq DOMAIN log /\ log' = log
  BY <1>1, ArchivedIsLogged DEF Shape, QueueShape, Grows
<1>4. CASE derived' = derived
  BY <1>1, <1>2, <1>3, <1>4 DEF Executions
<1>5. CASE /\ MarkDerived /\ batch # {}
           /\ Row.typ = "ProposalExecuted" => ledger[Row.id].status \in {"executed", "cancelled"}
  <2>1. derived' = derived \cup {First} /\ First \in DOMAIN log /\ Row = log[First]
    BY <1>1, <1>5, RowIsLogged DEF MarkDerived
  <2> HIDE DEF First, Row
  <2>2. PICK h \in DOMAIN log :
           /\ derived' = derived \cup {h}
           /\ log[h].typ = "ProposalExecuted" =>
                 ledger[log[h].id].status \in {"executed", "cancelled"}
    BY <1>5, <2>1
  <2>3. ASSUME NEW i \in derived', log'[i].typ = "ProposalExecuted"
        PROVE  ledger'[log'[i].id].status \in {"executed", "cancelled"}
    <3>1. i \in DOMAIN log /\ log[i].typ = "ProposalExecuted"
      BY <1>3, <2>2, <2>3
    <3>2. ledger[log[i].id].status \in {"executed", "cancelled"}
      BY <1>1, <2>2, <3>1 DEF Executions
    <3> QED
      BY <1>2, <3>1, <3>2
  <2> QED
    BY <2>3 DEF Executions
<1>6. CASE AragonRow
  BY <1>1, <1>5, <1>6, KindOfRow DEF AragonRow, ApplyAragon
<1>7. CASE FinishHandler
  BY <1>1, <1>5, <1>7 DEF FinishHandler, Handling
<1>8. CASE DrainRow
  BY <1>5, <1>8 DEF DrainRow, MetaMissing
<1>9. CASE WriteLedger
  BY <1>1, <1>4, <1>9, LedgerIsWritten
<1>10. CASE ArchiveRow \/ Begin \/ InsertDirect \/ ApplyState \/ DeferRow \/ MetaFails
  BY <1>4, <1>10
     DEF ArchiveRow, Begin, InsertDirect, ApplyState, DeferRow, Defer, MetaFails, rowVars
<1>11. CASE RowFails \/ RunFails \/ Restart
  BY <1>4, <1>11 DEF RowFails, RunFails, Restart
<1> QED
  BY <1>6, <1>7, <1>8, <1>9, <1>10, <1>11 DEF Indexer, Worker

\* A step that only ends a handler or gives it up, or changes no row of Dual Governance.
LEMMA FollowsQuietly ==
    ASSUME IInv, Indexer, NEW d \in DgIds, Entered(d), stage' # "written",
           UNCHANGED <<ledger, state, history>>, overtaken \subseteq overtaken', faults > 0 => faults' > 0,
           d \in todo => faults' > 0 /\ First \notin derived',
           \A i \in derived' : i \in derived \/ ~Rewrites(i, d) \/ (stage = "written" /\ i = First)
    PROVE  Follows(d)'
<1>1. Shape /\ Grows /\ log' = log /\ Archived \subseteq Positions
  BY GrowsStep, ArchivedIsLogged DEF IInv, Grows
<1>2. Exempt(d) => Exempt(d)'
  BY DEF Exempt
<1>3. Shown(d) => Shown(d)'
  BY DEF Shown, Resolve, Covers
<1>4. \A i : Rewrites(i, d) => Rewrites(i, d)'
  BY <1>1 DEF Rewrites
<1>5. ASSUME NEW i \in Archived, Rewrites(i, d), i \notin derived'
      PROVE  Follows(d)'
  <2>1. i \in Positions /\ Waits(i)'
    BY <1>1, <1>5 DEF Waits, Grows
  <2> QED
    BY <1>4, <1>5, <2>1 DEF Follows
<1>6. CASE d \in todo /\ ~Exempt(d)'
  <2>1. Rewrites(First, d)
    <3>1. Rewrites(First, d) \/ ledger[d].status = "cancelled"
      BY <1>6 DEF IInv, Handling
    <3> QED
      BY <3>1, <1>6 DEF Exempt
  <2>2. First \in Archived
    <3>1. batch # {}
      BY <1>6 DEF IInv, Handling
    <3> QED
      BY <1>1, <3>1, RowIsLogged
  <2>3. PICK i : i = First
    OBVIOUS
  <2> QED
    BY <1>5, <1>6, <2>1, <2>2, <2>3
<1>7. CASE \E i \in Positions : Waits(i) /\ Rewrites(i, d)
  <2>1. PICK i \in Positions : Waits(i) /\ Rewrites(i, d)
    BY <1>7
  <2>2. i \notin derived'
    BY <2>1 DEF Waits
  <2> QED
    BY <1>5, <2>1, <2>2 DEF Waits
<1> QED
  BY <1>2, <1>3, <1>6, <1>7 DEF IInv, Follows

\* A write to the ledger is about the row's submission, or the handler has the
\* state of every submission it touches still to write.
LEMMA FollowsWrite ==
    ASSUME IInv, WriteLedger, NEW d \in DgIds, Entered(d)
    PROVE  Follows(d)'
<1>1. Shape /\ Indexer /\ todo = {} /\ stage # "written"
  BY DEF IInv, Indexer, Worker, WriteLedger, Handling
<1>2. /\ batch # {} /\ stage' = "written"
      /\ UNCHANGED <<log, received, batch, derived, state, overtaken, faults>>
      /\ \/ Row.typ = "ProposalSubmitted" /\ Submitted
         \/ Row.typ = "ProposalScheduled" /\ Advance("scheduled")
         \/ Row.typ = "ProposalExecuted" /\ Advance("executed")
         \/ Row.typ = "ProposalsCancelledTill" /\ CancelThrough
         \/ Row.typ = "RageQuit" /\ RecordRageQuit
  BY <1>1, LedgerIsWritten
<1>3. Row = log[First] /\ First' = First /\ Archived' = Archived
  BY <1>1, <1>2, RowIsLogged, SameRow DEF Archived
<1>4. ASSUME ledger'[d] = ledger[d], Resolve(ledger[d])' = Resolve(ledger[d]),
             ~Rewrites(First, d)
      PROVE  Follows(d)'
  <2>1. ledger'[d] = ledger[d] /\ Resolve(ledger[d])' = Resolve(ledger[d])
    BY <1>4
  <2>2. (Exempt(d) => Exempt(d)') /\ (Shown(d) => Shown(d)')
    BY <1>2, <2>1 DEF Exempt, Shown
  <2>3. ASSUME NEW i \in Positions, Waits(i), Rewrites(i, d)
        PROVE  Waits(i)' /\ Rewrites(i, d)'
    <3>1. i # First
      BY <1>4, <2>3
    <3> QED
      BY <1>2, <1>3, <2>1, <2>3, <3>1 DEF Waits, Rewrites
  <2> QED
    BY <1>1, <2>2, <2>3 DEF IInv, Follows
<1>5. ASSUME UNCHANGED history, ledger'[d] = ledger[d] PROVE Resolve(ledger[d])' = Resolve(ledger[d])
  BY <1>5 DEF Resolve, Covers
<1>6. CASE d \in todo'
  BY <1>6 DEF Follows
<1>7. CASE d \notin todo'
  <2>1. CASE Row.typ = "ProposalSubmitted" /\ Submitted
    <3>1. /\ todo' = {Row.id} /\ UNCHANGED history
          /\ \A e \in DgIds : e # Row.id \/ ledger[e] # NoEntry => ledger'[e] = ledger[e]
      BY <1>1, <1>2, <2>1, SubmittedWrites
    <3>2. ledger'[d] = ledger[d] /\ Row.id # d
      BY <1>7, <3>1
    <3>3. ~Rewrites(First, d)
      BY <1>3, <2>1, <3>2 DEF Rewrites
    <3> QED
      BY <1>4, <1>5, <3>1, <3>2, <3>3
  <2>2. CASE \/ Row.typ = "ProposalScheduled" /\ Advance("scheduled")
             \/ Row.typ = "ProposalExecuted" /\ Advance("executed")
    <3>1. PICK to \in {"scheduled", "executed"} : Advance(to)
      BY <2>2
    <3>2. /\ todo' = {Row.id} /\ UNCHANGED history
          /\ \A e \in DgIds : e # Row.id => ledger'[e] = ledger[e]
      BY <1>1, <1>2, <2>2, <3>1, AdvanceWrites
    <3>3. ledger'[d] = ledger[d] /\ Row.id # d
      BY <1>7, <3>2
    <3>4. ~Rewrites(First, d)
      BY <1>3, <2>2, <3>3 DEF Rewrites
    <3> QED
      BY <1>4, <1>5, <3>2, <3>3, <3>4
  <2>3. CASE Row.typ = "ProposalsCancelledTill" /\ CancelThrough
    <3>1. UNCHANGED history /\ ledger'[d] = ledger[d]
      BY <1>1, <1>2, <1>7, <2>3, CancelWrites
    <3>2. ~Rewrites(First, d)
      BY <1>3, <2>3 DEF Rewrites
    <3> QED
      BY <1>4, <1>5, <3>1, <3>2
  <2>4. CASE Row.typ = "RageQuit" /\ RecordRageQuit
    <3>1. todo' = Resolvable /\ ledger' = ledger
      BY <2>4 DEF RecordRageQuit
    <3>2. ledger[d] \in Entry /\ d \notin Resolvable
      BY <1>1, <1>7, <3>1, LedgerIsTyped DEF Entered
    <3>3. ledger[d].status = "executed"
      BY <3>2 DEF Resolvable, Entry
    <3>4. Resolve(ledger[d]) = "executed" /\ Resolve(ledger[d])' = "executed"
      BY <3>1, <3>3 DEF Resolve
    <3>5. ~Rewrites(First, d)
      BY <1>3, <2>4, <3>3 DEF Rewrites
    <3> QED
      BY <1>4, <3>1, <3>4, <3>5, Zenon
  <2> QED
    BY <1>2, <2>1, <2>2, <2>3, <2>4
<1> QED
  BY <1>6, <1>7

LEMMA FollowsStep ==
    ASSUME IInv, Indexer, Handling', NEW d \in DgIds
    PROVE  Follows(d)'
<1>1. Shape /\ Grows /\ Next /\ log' = log /\ Handling
  BY GrowsStep DEF IInv, Indexer, Next, Grows
<1> SUFFICES ASSUME Entered(d)' PROVE Follows(d)'
  BY DEF Follows
<1>2. CASE WriteLedger
  <2>1. CASE Entered(d)
    BY <1>2, <2>1, FollowsWrite
  <2>2. CASE ~Entered(d)
    <3>1. /\ batch # {}
          /\ \/ Row.typ = "ProposalSubmitted" /\ Submitted
             \/ Row.typ = "ProposalScheduled" /\ Advance("scheduled")
             \/ Row.typ = "ProposalExecuted" /\ Advance("executed")
             \/ Row.typ = "ProposalsCancelledTill" /\ CancelThrough
             \/ Row.typ = "RageQuit" /\ RecordRageQuit
      BY <1>1, <1>2, LedgerIsWritten
    <3>2. ledger'[d] # ledger[d]
      BY <2>2 DEF Entered
    <3>3. CASE Row.typ = "ProposalSubmitted" /\ Submitted
      BY <1>1, <3>1, <3>2, <3>3, SubmittedWrites DEF Follows
    <3>4. CASE \/ Row.typ = "ProposalScheduled" /\ Advance("scheduled")
               \/ Row.typ = "ProposalExecuted" /\ Advance("executed")
      <4>1. PICK to \in {"scheduled", "executed"} : Advance(to)
        BY <3>4
      <4> QED
        BY <1>1, <3>1, <3>2, <3>4, <4>1, AdvanceWrites DEF Follows
    <3>5. CASE Row.typ = "ProposalsCancelledTill" /\ CancelThrough
      BY <1>1, <3>1, <3>2, <3>5, CancelWrites DEF Follows
    <3>6. CASE RecordRageQuit
      BY <3>2, <3>6 DEF RecordRageQuit
    <3> QED
      BY <3>1, <3>3, <3>4, <3>5, <3>6
  <2> QED
    BY <2>1, <2>2
<1>3. CASE UNCHANGED ledger
  <2>1. Entered(d) /\ Sourced(d) /\ Table!Exists(ledger[d].proposal) /\ ledger[d] \in Entry
    BY <1>1, <1>3, LedgerIsTyped DEF Entered, IInv, Sourced
  <2>2. ledger[d].proposal \in Keys
    BY <2>1 DEF Entry
  <2>3. stage # "written" => todo = {}
    BY <1>1 DEF Handling
  <2>4. CASE ArchiveRow \/ DeferRow \/ Begin
    <3>1. /\ UNCHANGED <<state, history, stage, todo, overtaken, faults, derived>>
      BY <2>4 DEF ArchiveRow, DeferRow, Defer, Begin, rowVars, dgVars
    <3>2. stage = "idle"
      BY <1>1, <2>4 DEF ArchiveRow, DeferRow, Begin, BeginTick, Handling, Shape
    <3> QED
      BY <1>3, <2>1, <2>3, <3>1, <3>2, FollowsQuietly
  <2>5. CASE RunFails \/ RowFails \/ Restart
    <3>1. /\ UNCHANGED <<state, history, overtaken, derived>> /\ stage' = "idle"
          /\ (faults > 0 => faults' > 0)
      <4>1. faults' = faults + 1 /\ faults \in Nat
        BY <1>1, <2>5 DEF RunFails, RowFails, Restart, Fault, Shape, QueueShape, QueueTypeOK
      <4> QED
        BY <2>5, <4>1 DEF RunFails, RowFails, Restart, Fail, dgVars
    <3>2. faults' > 0
      BY <1>1, <2>5 DEF RunFails, RowFails, Restart, Fault, Shape, QueueShape, QueueTypeOK
    <3>3. d \in todo => First \notin derived'
      <4>1. d \in todo => batch # {}
        BY <1>1 DEF Handling
      <4> QED
        BY <1>1, <3>1, <4>1, RowIsLogged
    <3> QED
      BY <1>3, <2>1, <3>1, <3>2, <3>3, FollowsQuietly
  <2>6. CASE MetaFails
    <3>1. ~Known(Row.tx) /\ Row.typ = "ProposalSubmitted" /\ UNCHANGED <<state, history, overtaken, faults, derived>>
          /\ stage' = "idle"
      BY <2>6 DEF MetaFails, MetaMissing, MetaArchived, Known, Fail
    <3>2. stage = "idle"
      BY <1>1, <3>1 DEF Handling, Shape
    <3> QED
      BY <1>3, <2>1, <2>3, <3>1, <3>2, FollowsQuietly
  <2>7. CASE AragonRow
    <3>1. /\ batch # {} /\ Row.src = "aragon_voting" /\ MarkDerived
          /\ UNCHANGED <<log, received, faults, ledger, history, stage, todo>>
      BY <2>7 DEF AragonRow, ApplyAragon, chainVars, dgVars
    <3>2. stage = "idle" /\ todo = {}
      BY <1>1, <2>3, <3>1 DEF Handling, Shape
    <3>3. overtaken \subseteq overtaken'
      BY <2>7 DEF AragonRow
    <3>4. d \in overtaken' \/ state'[ledger[d].proposal] = state[ledger[d].proposal]
      <4>1. CASE ledger[d].proposal = Aragon(Row.id) /\ Row.typ # "StartVote"
        BY <2>1, <2>7, <4>1 DEF AragonRow, Entered
      <4>2. CASE ledger[d].proposal = Aragon(Row.id) /\ Row.typ = "StartVote"
        <5>1. Table!Exists(Aragon(Row.id)) /\ ApplyAragon
          BY <2>1, <2>7, <4>2 DEF AragonRow
        <5>2. Table!InsertProposal(Aragon(Row.id), "active")
          BY <4>2, <5>1 DEF ApplyAragon
        <5>3. UNCHANGED state
          BY <5>1, <5>2 DEF Table!InsertProposal
        <5> QED
          BY <1>3, <5>3
      <4>3. CASE ledger[d].proposal # Aragon(Row.id)
        <5>1. ~(InsertDirect \/ ApplyState)
          <6>1. ~ApplyState
            BY <3>2 DEF ApplyState
          <6>2. ~InsertDirect
            BY <3>1, EventKinds, RowIsLogged, <1>1 DEF InsertDirect
          <6> QED
            BY <6>1, <6>2
        <5> QED
          BY <1>1, <2>2, <4>3, <5>1, StateChange
      <4> QED
        BY <4>1, <4>2, <4>3
    <3>5. CASE d \in overtaken'
      BY <3>5 DEF Follows, Exempt
    <3>6. CASE state'[ledger[d].proposal] = state[ledger[d].proposal]
      <4>1. Shown(d) => Shown(d)'
        BY <1>3, <3>1, <3>6 DEF Shown, Resolve, Covers
      <4>2. Exempt(d) => Exempt(d)'
        BY <1>3, <3>1, <3>3 DEF Exempt
      <4>3. First \in derived' /\ derived' = derived \cup {First} /\ ~Rewrites(First, d)
        BY <1>1, <3>1, RowIsLogged DEF MarkDerived, Rewrites
      <4>4. ASSUME NEW i \in Positions, Waits(i), Rewrites(i, d)
            PROVE  Waits(i)' /\ Rewrites(i, d)'
        <5>1. i # First
          BY <4>3, <4>4
        <5> QED
          BY <1>3, <3>1, <3>2, <4>3, <4>4, <5>1 DEF Waits, Rewrites, Archived
      <4> QED
        BY <2>1, <3>2, <4>1, <4>2, <4>4 DEF IInv, Follows
    <3> QED
      BY <3>4, <3>5, <3>6
  <2>8. CASE InsertDirect
    <3>1. /\ batch # {} /\ stage = "idle" /\ stage' = "inserted" /\ Table!InsertProposal(Direct(Row.id), "queued")
          /\ UNCHANGED <<log, received, derived, batch, faults, history, todo, overtaken>>
      BY <2>8 DEF InsertDirect, chainVars, rowVars
    <3>2. state'[ledger[d].proposal] = state[ledger[d].proposal]
      <4>1. state \in [Keys -> Table!States \cup {"none"}]
        BY <1>1 DEF Shape, TableOK, StateOK
      <4> QED
        BY <2>1, <2>2, <3>1, <4>1 DEF Table!InsertProposal
    <3>3. Shown(d) => Shown(d)'
      BY <1>3, <3>1, <3>2 DEF Shown, Resolve, Covers
    <3>4. Exempt(d) => Exempt(d)'
      BY <1>3, <3>1 DEF Exempt
    <3>5. \A i : Waits(i) /\ Rewrites(i, d) => Waits(i)' /\ Rewrites(i, d)'
      BY <1>3, <3>1 DEF Waits, Rewrites, Archived
    <3> QED
      BY <2>1, <2>3, <3>1, <3>3, <3>4, <3>5 DEF IInv, Follows
  <2>9. CASE ApplyState
    <3>1. /\ UNCHANGED <<log, received, derived, batch, faults, history, stage>>
      BY <2>9 DEF ApplyState, chainVars, rowVars
    <3>2. PICK e \in todo : WriteState(e) /\ todo' = todo \ {e} /\ overtaken' = overtaken \ {e}
      BY <2>9 DEF ApplyState
    <3>3. e \in DgIds /\ Entered(e)
      BY <1>1, <3>2 DEF Shape, Entered
    <3>4. state' = [state EXCEPT ![ledger[e].proposal] = Resolve(ledger[e])] /\ StateOK
      BY <1>1, <3>2 DEF WriteState, Table!SetState, Shape, TableOK
    <3>5. CASE e = d
      <4>1. state'[ledger[d].proposal] = Resolve(ledger[d])
        BY <2>2, <3>4, <3>5 DEF StateOK
      <4>2. Shown(d)'
        BY <1>3, <3>1, <4>1 DEF Shown, Resolve, Covers
      <4> QED
        BY <4>2 DEF Follows
    <3>6. CASE e # d
      <4>1. ledger[e].proposal # ledger[d].proposal
        BY <2>1, <3>3, <3>6, EntryIsUnique
      <4>2. state'[ledger[d].proposal] = state[ledger[d].proposal]
        BY <2>2, <3>4, <4>1 DEF StateOK
      <4>3. Shown(d) => Shown(d)'
        BY <1>3, <3>1, <4>2 DEF Shown, Resolve, Covers
      <4>4. (Exempt(d) => Exempt(d)') /\ (d \in todo => d \in todo')
        BY <1>3, <3>1, <3>2, <3>6 DEF Exempt
      <4>5. First' = First
        BY <3>1, SameRow
      <4>6. \A i : Waits(i) /\ Rewrites(i, d) => Waits(i)' /\ Rewrites(i, d)'
        BY <1>3, <3>1, <4>5 DEF Waits, Rewrites, Archived
      <4> QED
        BY <2>1, <4>3, <4>4, <4>6 DEF IInv, Follows
    <3> QED
      BY <3>5, <3>6
  <2>10. CASE FinishHandler
    <3>1. /\ stage = "written" /\ stage' = "idle" /\ MarkDerived /\ todo = {}
          /\ UNCHANGED <<state, history, overtaken, faults>>
      BY <2>10 DEF FinishHandler
    <3>2. \A i \in derived' : i \in derived \/ i = First
      BY <3>1 DEF MarkDerived
    <3> QED
      BY <1>3, <2>1, <3>1, <3>2, FollowsQuietly
  <2>11. CASE DrainRow
    <3>1. /\ batch # {} /\ MarkDerived /\ UNCHANGED <<state, history, overtaken, faults, stage, todo>>
          /\ Row.typ = "ProposalSubmittedMeta" \/ (~Known(Row.tx) /\ Row.typ = "ProposalSubmitted")
      BY <2>11 DEF DrainRow, MetaMissing, MetaArchived, Known, dgVars
    <3>2. stage = "idle"
      BY <1>1, <3>1 DEF Handling, Shape
    <3>3. First \in DOMAIN log /\ Row = log[First]
      BY <1>1, <3>1, RowIsLogged
    <3>4. ~Rewrites(First, d)
      <4>1. CASE Row.typ = "ProposalSubmittedMeta"
        BY <3>3, <4>1 DEF Rewrites
      <4>2. CASE ~Known(Row.tx) /\ Row.typ = "ProposalSubmitted"
        <5>1. ~Submits(First, d)
          BY <2>1, <3>3, <4>2, SourceIsUnique DEF Source
        <5> QED
          BY <3>3, <4>2, <5>1 DEF Rewrites, Submits
      <4> QED
        BY <3>1, <4>1, <4>2
    <3>5. \A i \in derived' : i \in derived \/ ~Rewrites(i, d)
      BY <3>1, <3>4 DEF MarkDerived
    <3> QED
      BY <1>3, <2>1, <2>3, <3>1, <3>2, <3>5, FollowsQuietly
  <2>12. CASE WriteLedger
    BY <1>2, <2>12
  <2> QED
    BY <2>4, <2>5, <2>6, <2>7, <2>8, <2>9, <2>10, <2>11, <2>12 DEF Indexer, Worker
<1>4. CASE ArchiveRow \/ AragonRow \/ InsertDirect \/ ApplyState \/ RunFails \/ Restart \/ RowFails
  BY <1>3, <1>4
     DEF ArchiveRow, AragonRow, InsertDirect, ApplyState, RunFails, Restart, RowFails, dgVars
<1>5. CASE Begin \/ FinishHandler \/ DrainRow \/ DeferRow \/ MetaFails
  BY <1>3, <1>5 DEF Begin, FinishHandler, DrainRow, DeferRow, Defer, MetaFails, dgVars
<1> QED
  BY <1>2, <1>4, <1>5 DEF Indexer, Worker

LEMMA IInvStep == IInv /\ [Next]_vars => IInv'
<1> SUFFICES ASSUME IInv, [Next]_vars PROVE IInv'
  OBVIOUS
<1>1. CASE Contracts
  BY <1>1, ContractsStep
<1>2. CASE Indexer
  <2>1. Shape'
    BY <1>2, ShapeStep DEF IInv, Handling, Indexer, Next
  <2>2. ChainOK'
    <3>1. log' = log
      BY <1>2, GrowsStep DEF Grows
    <3> QED
      BY <3>1 DEF IInv, ChainOK, Numbered, Unique, Ordered, Logged, CancelsFrom
  <2>3. Handling' /\ Dated' /\ Vetoed' /\ Executions'
    BY <1>2, HandlingStep, DatedStep, VetoedStep, ExecutionsStep
  <2>4. \A d \in DgIds : Sourced(d)' /\ Follows(d)'
    BY <1>2, <2>3, SourcedStep, FollowsStep
  <2> QED
    BY <2>1, <2>2, <2>3, <2>4 DEF IInv
<1>3. CASE UNCHANGED vars
  <2>1. UNCHANGED <<log, received, derived, attempts, held, quarantined, batch, faults, state,
                    ledger, history, stage, todo, overtaken>>
    BY <1>3 DEF vars, queueVars, rowVars, dgVars
  <2>2. Archived' = Archived /\ First' = First /\ Row' = Row
    BY <2>1, SameRow DEF Archived
  <2>3. Shape' /\ ChainOK' /\ Vetoed' /\ Executions'
    BY <2>1, <2>2 DEF IInv, Shape, QueueShape, QueueTypeOK, TableOK, StateOK, ChainOK, Numbered,
       Unique, Ordered, Logged, CancelsFrom, Vetoed, Entered, Quit, Submits, Executions
  <2>4. /\ \A i : TimeOf(i)' = TimeOf(i) /\ NoVoteAhead(i)' = NoVoteAhead(i)
        /\ \A tx : EnactedIn(tx)' = EnactedIn(tx) /\ Known(tx)' = Known(tx)
        /\ \A i, d : Rewrites(i, d)' = Rewrites(i, d) /\ CancelsFrom(i, d)' = CancelsFrom(i, d)
        /\ \A i : Waits(i)' = Waits(i)
        /\ \A d : Exempt(d)' = Exempt(d) /\ Shown(d)' = Shown(d)
    BY <2>1, <2>2 DEF TimeOf, RageQuits, NoVoteAhead, EnactedIn, Known, Rewrites, CancelsFrom,
       Waits, Exempt, Shown, Resolve, Covers
  <2>5. Dated'
    BY <2>1, <2>2, <2>4 DEF IInv, Dated
  <2>6. Handling'
    BY <2>1, <2>2 DEF IInv, Handling, Known, EnactedIn, NoVoteAhead, Rewrites, Table!Exists
  <2>7. ASSUME NEW d \in DgIds PROVE Follows(d)'
    <3>1. Follows(d)
      BY DEF IInv
    <3> QED
      BY <2>1, <2>4, <3>1 DEF Follows, Entered
  <2>8. ASSUME NEW d \in DgIds PROVE Sourced(d)'
    <3>1. Sourced(d)
      BY DEF IInv
    <3>2. \A i : Source(i, d)' = Source(i, d)
      BY <2>1, <2>4 DEF Source, Submits
    <3> QED
      BY <2>1, <2>2, <2>4, <3>1, <3>2 DEF Sourced, Entered, Table!Exists
  <2> QED
    BY <2>3, <2>5, <2>6, <2>7, <2>8 DEF IInv
<1> QED
  BY <1>1, <1>2, <1>3 DEF Next, Indexer

LEMMA Invariance == Spec => []IInv
BY IInvInit, IInvStep, PTL DEF Spec

-----------------------------------------------------------------------------
(* What the specification promises.                                        *)

\* Every variable keeps its type, and a handler is at work only on a row of the
\* batch in flight.
THEOREM TypeCorrect == Spec => []LidoTypeOK
<1>1. IInv => LidoTypeOK
  BY ShapeIsTyped DEF IInv, Handling
<1> QED
  BY <1>1, Invariance, PTL

\* Once the rows of Dual Governance are applied, the proposal of every submission
\* shows what the ledger resolves to (setStateFromDerivation), in whatever order
\* the two sources' rows and the failed writes came; the exceptions are a vote's
\* ExecuteVote that came late and a cancellation that was interrupted.
THEOREM StateFollowsLedger == Spec => []UnifiedStateFollowsLedger
<1>1. IInv => UnifiedStateFollowsLedger
  <2> SUFFICES ASSUME IInv, DgSettled, NEW d \in DgIds, ledger[d] # NoEntry
               PROVE  \/ d \in overtaken
                      \/ ledger[d].status = "cancelled" /\ faults > 0
                      \/ Shown(d)
    BY DEF UnifiedStateFollowsLedger
  <2>1. todo = {}
    BY DEF DgSettled, IInv, Handling
  <2>2. ~\E i \in Positions : Waits(i) /\ Rewrites(i, d)
    BY DEF DgSettled, Waits, Rewrites
  <2>3. Entered(d) /\ Follows(d)
    BY DEF IInv, Entered
  <2> QED
    BY <2>1, <2>2, <2>3 DEF Follows, Exempt
<1> QED
  BY <1>1, Invariance, PTL

\* A submission is taken as direct only when its transaction enacts no vote, up
\* to an earlier Aragon log of the same block (aragonArchiveCovers).
THEOREM DirectHasNoVote == Spec => []DirectMeansNoVote
<1>1. IInv => DirectMeansNoVote
  <2> SUFFICES ASSUME IInv, NEW d \in DgIds, NEW i \in DOMAIN log, NEW j \in DOMAIN log,
                      ledger[d] # NoEntry, ledger[d].proposal = Direct(d),
                      log[i].typ = "ProposalSubmitted", log[i].id = d,
                      log[j].typ = "ExecuteVote", log[j].tx = log[i].tx
               PROVE  \E k \in 1..(j - 1) :
                         log[k].src = "aragon_voting" /\ log[k].block = log[j].block
    BY DEF DirectMeansNoVote
  <2>1. Source(i, d)
    BY SourceIsUnique DEF Entered, Submits
  <2>2. NoVoteAhead(i)
    BY <2>1, AragonKeys DEF Source
  <2> QED
    BY <2>2 DEF NoVoteAhead
<1> QED
  BY <1>1, Invariance, PTL

\* A proposal is shown as vetoed only when a rage quit followed its submission on
\* chain, although the one is dated by the block and the other by the archive.
THEOREM VetoIsLater == Spec => []VetoFollowsSubmission
<1>1. IInv => VetoFollowsSubmission
  <2> SUFFICES ASSUME IInv, NEW d \in DgIds, ledger[d] # NoEntry,
                      state[ledger[d].proposal] = "vetoed"
               PROVE  Quit(d)
    BY DEF VetoFollowsSubmission, Quit, Submits
  <2>1. ledger[d].proposal \in Keys
    BY LedgerIsTyped DEF IInv, Entry
  <2>2. PICK e \in DgIds : Entered(e) /\ ledger[e].proposal = ledger[d].proposal /\ Quit(e)
    BY <2>1 DEF IInv, Vetoed
  <2>3. d = e
    BY <2>2, EntryIsUnique DEF Entered
  <2> QED
    BY <2>2, <2>3
<1> QED
  BY <1>1, Invariance, PTL

\* Once the rows of Dual Governance are applied an execution is in the ledger,
\* scheduled before or not, unless a bulk cancellation follows it on chain.
THEOREM ExecutionIsLedgered == Spec => []ExecutionReachesLedger
<1>1. IInv => ExecutionReachesLedger
  <2> SUFFICES ASSUME IInv, DgSettled, NEW i \in Archived, log[i].typ = "ProposalExecuted",
                      ledger[log[i].id] # NoEntry, ledger[log[i].id].status # "executed"
               PROVE  \E j \in DOMAIN log : j > i /\ log[j].typ = "ProposalsCancelledTill"
    BY DEF ExecutionReachesLedger
  <2> DEFINE d == log[i].id
  <2>1. i \in DOMAIN log /\ i \in Nat /\ d \in DgIds /\ log[i].src = "dual_governance"
    BY ArchivedIsLogged, LoggedIsEvent, EventKinds DEF IInv
  <2>2. ledger[d].status = "cancelled"
    BY <2>1 DEF DgSettled, IInv, Executions
  <2>3. PICK j \in Archived : CancelsFrom(j, d)
    BY <2>1, <2>2 DEF IInv, Sourced, Entered
  <2>4. j \in DOMAIN log /\ j \in Nat /\ i < j
    BY <2>1, <2>3, ArchivedIsLogged, LoggedIsEvent DEF IInv, ChainOK, Ordered
  <2> QED
    BY <2>1, <2>3, <2>4 DEF CancelsFrom
<1> QED
  BY <1>1, Invariance, PTL
=============================================================================
