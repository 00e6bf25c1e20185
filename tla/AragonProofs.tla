----------------------------- MODULE AragonProofs -----------------------------
(***************************************************************************)
(* Proofs about AragonVoting, for every set of proposals, every log, batch *)
(* and threshold, and every number of faults and of operator's commands.   *)
(***************************************************************************)
EXTENDS AragonVoting, DerivationQueueProofs

USE QueueAssumption, OpsAssumption, AragonAssumption

-----------------------------------------------------------------------------
(* The vote table.                                                         *)

LEMMA PositionsHaveGreatest ==
    ASSUME NEW S, S \subseteq Positions, S # {}
    PROVE  \E greatest \in S : \A i \in S : i <= greatest
<1> DEFINE D == {MaxLog - i : i \in S}
<1>1. MaxLog \in Nat /\ \A i \in S : i \in 1..MaxLog
  BY DEF QueueAssumption, Positions
<1>2. D \subseteq Nat /\ D # {}
  BY <1>1
<1>3. PICK least \in D : \A d \in D : least <= d
  <2> HIDE DEF D
  <2> QED
    BY <1>2, NaturalsHaveLeast
<1>4. PICK greatest \in S : least = MaxLog - greatest
  BY <1>3
<1>5. \A i \in S : MaxLog - greatest <= MaxLog - i
  BY <1>3, <1>4
<1> QED
  BY <1>1, <1>5

NewestIsCurrent(rivals) ==
    \A i \in rivals \cap Table!Written :
        votes[i] = Table!Current <=> \A j \in rivals \cap Table!Written : j <= i

\* findCurrentVote finds the newest vote of those written.
LEMMA CurrentVoteIsNewest ==
    ASSUME NEW rivals \in SUBSET Positions, NewestIsCurrent(rivals)
    PROVE  LET current == Table!CurrentVote(rivals) IN
           \/ current = 0 /\ rivals \cap Table!Written = {}
           \/ /\ current \in rivals \cap Table!Written /\ votes[current] = Table!Current
              /\ \A j \in rivals \cap Table!Written : j <= current
<1> DEFINE among == Table!CurrentAmong(rivals)
<1>1. among \subseteq rivals \cap Table!Written
  BY DEF Table!CurrentAmong, Table!Written, Table!Current, Table!Unwritten
<1>2. CASE among = {}
  <2>1. ASSUME rivals \cap Table!Written # {} PROVE FALSE
    <3>1. PICK i \in rivals \cap Table!Written :
              \A j \in rivals \cap Table!Written : j <= i
      BY <2>1, PositionsHaveGreatest
    <3> QED
      BY <1>2, <3>1 DEF NewestIsCurrent, Table!CurrentAmong
  <2> QED
    BY <1>2, <2>1 DEF Table!CurrentVote
<1>3. CASE among # {}
  <2>1. \E i \in among : \A j \in among : j <= i
    BY <1>1, <1>3, PositionsHaveGreatest
  <2>2. Table!CurrentVote(rivals) = CHOOSE i \in among : \A j \in among : j <= i
    BY <1>3 DEF Table!CurrentVote
  <2>3. Table!CurrentVote(rivals) \in among
    BY <2>1, <2>2
  <2> QED
    BY <1>1, <2>3 DEF Table!CurrentAmong, NewestIsCurrent
<1> QED
  BY <1>2, <1>3

\* Writing a vote, or leaving it as the current one, keeps that so, whenever
\* it is written and however often.
LEMMA InsertKeepsNewest ==
    ASSUME NEW rivals \in SUBSET Positions, NEW i \in rivals,
           Table!VoteTypeOK, NewestIsCurrent(rivals),
           IF Table!CurrentVote(rivals) = i THEN votes' = votes
           ELSE Table!InsertVote(i, rivals)
    PROVE  /\ Table!VoteTypeOK' /\ Table!Written' = Table!Written \cup {i}
           /\ \A j \in Positions \ rivals : votes'[j] = votes[j]
           /\ \A k \in rivals \cap Table!Written' :
                  votes'[k] = Table!Current
                      <=> \A j \in rivals \cap Table!Written' : j <= k
<1> DEFINE current == Table!CurrentVote(rivals)
<1> USE DEF Table!Written, Table!Unwritten, Table!Current, Table!VoteTypeOK
<1>1. \/ current = 0 /\ rivals \cap Table!Written = {}
      \/ /\ current \in rivals \cap Table!Written /\ votes[current] = Table!Current
         /\ \A j \in rivals \cap Table!Written : j <= current
  BY CurrentVoteIsNewest
<1>2. Positions \subseteq Nat /\ 0 \notin Positions
  BY DEF Positions, QueueAssumption
<1> HIDE DEF current
<1>3. CASE current = i
  <2>1. votes' = votes /\ i \in Table!Written
    BY <1>1, <1>2, <1>3 DEF current
  <2>2. Table!VoteTypeOK' /\ Table!Written' = Table!Written \cup {i}
    BY <2>1
  <2> QED
    BY <2>1, <2>2 DEF NewestIsCurrent
<1>4. CASE current # i
  <2>1. votes' = Table!VoteRows(i, current)
    BY <1>4 DEF current, Table!InsertVote
  <2>2. CASE current # 0 /\ i < current
    <3> DEFINE late == Table!SupersededAt(i, current)
    <3>1. votes' = [votes EXCEPT ![i] = late]
      BY <1>1, <1>2, <2>1, <2>2 DEF Table!VoteRows, Table!IsNewer
    <3>2. /\ current \in rivals /\ current \in Positions /\ i \in Positions
          /\ votes[current] = Table!Current /\ current # i
          /\ \A j \in rivals \cap Table!Written : j <= current /\ j \in Nat
      BY <1>1, <1>2, <1>4, <2>2
    <3>3. late # Table!Current /\ late # Table!Unwritten
          /\ late \in [status : {"superseded"}, at : Positions, by : Positions]
      BY <3>2 DEF Table!SupersededAt
    <3> HIDE DEF late
    <3>4. votes'[i] = late /\ \A j \in Positions : j # i => votes'[j] = votes[j]
      BY <3>1, <3>2
    <3>5. Table!VoteTypeOK'
      BY <3>1, <3>2, <3>3
    <3>6. Table!Written' = Table!Written \cup {i}
      BY <3>2, <3>3, <3>4
    <3>7. ASSUME NEW k \in rivals \cap Table!Written'
          PROVE  votes'[k] = Table!Current
                     <=> \A j \in rivals \cap Table!Written' : j <= k
      <4>1. current \in rivals \cap Table!Written'
        BY <1>1, <2>2, <3>6
      <4>2. CASE k = i
        <5>1. ~(current <= i)
          BY <1>2, <2>2, <3>2
        <5>2. votes'[k] # Table!Current
          BY <3>3, <3>4, <4>2
        <5> QED
          BY <4>1, <4>2, <5>1, <5>2
      <4>3. CASE k # i
        <5>1. k \in rivals \cap Table!Written /\ k \in Nat /\ current \in Nat
          BY <1>2, <3>2, <3>6, <4>3
        <5>2. votes'[k] = votes[k]
          BY <3>4, <4>3
        <5>3. votes[k] = Table!Current
                  <=> \A j \in rivals \cap Table!Written : j <= k
          BY <5>1 DEF NewestIsCurrent
        <5>4. ASSUME \A j \in rivals \cap Table!Written : j <= k PROVE i <= k
          BY <1>1, <1>2, <2>2, <3>2, <5>1, <5>4
        <5>5. (\A j \in rivals \cap Table!Written : j <= k)
                  <=> \A j \in rivals \cap Table!Written' : j <= k
          <6> HIDE DEF Table!Written
          <6> QED
            BY <3>6, <5>4
        <5> QED
          BY <5>2, <5>3, <5>5
      <4> QED
        BY <4>2, <4>3
    <3> QED
      BY <3>4, <3>2, <3>5, <3>6, <3>7
  <2>3. CASE current = 0 \/ current < i
    <3>1. votes' = [j \in Positions |->
                      IF j = i THEN Table!Current
                      ELSE IF j = current THEN Table!SupersededAt(i, i) ELSE votes[j]]
      BY <1>1, <1>2, <2>1, <2>3 DEF Table!VoteRows, Table!IsNewer
    <3>2. CASE current = 0
      BY <1>1, <1>2, <3>1, <3>2
    <3>3. CASE current # 0
      <4>1. /\ current \in rivals /\ current \in Positions /\ current < i
            /\ \A j \in rivals \cap Table!Written : j <= current /\ j \in Nat
        BY <1>1, <1>2, <2>3, <3>3
      <4>2. i \notin Table!Written /\ i \in Nat /\ i \in Positions
        <5>1. i \in Nat /\ i \in Positions /\ current \in Nat /\ ~(i <= current)
          BY <1>2, <4>1
        <5> QED
          BY <4>1, <5>1
      <4> DEFINE old == Table!SupersededAt(i, i)
      <4>3. old # Table!Current /\ old # Table!Unwritten
            /\ old \in [status : {"superseded"}, at : Positions, by : Positions]
        BY <4>2 DEF Table!SupersededAt
      <4> HIDE DEF old
      <4>4. /\ votes'[i] = Table!Current /\ votes'[current] = old
            /\ \A j \in Positions : j # i /\ j # current => votes'[j] = votes[j]
        BY <3>1, <4>1, <4>2 DEF old
      <4>5. Table!VoteTypeOK'
        BY <3>1, <4>1, <4>2, <4>3 DEF old
      <4>6. Table!Written' = Table!Written \cup {i}
        BY <1>1, <3>3, <4>1, <4>2, <4>3, <4>4
      <4>7. \A k \in rivals \cap Table!Written' : k <= i
        BY <4>1, <4>2, <4>6
      <4>8. ASSUME NEW k \in rivals \cap Table!Written'
            PROVE  votes'[k] = Table!Current
                       <=> \A j \in rivals \cap Table!Written' : j <= k
        <5>1. CASE k = i
          BY <4>4, <4>7, <5>1
        <5>2. CASE k # i
          <6>1. ~(i <= k) /\ i \in rivals \cap Table!Written'
            BY <1>2, <4>2, <4>6, <4>7, <5>2
          <6>2. votes'[k] # Table!Current
            <7>1. CASE k = current
              BY <4>3, <4>4, <7>1
            <7>2. CASE k # current
              <8>1. k \in rivals \cap Table!Written /\ ~(current <= k)
                BY <1>2, <4>1, <4>6, <5>2, <7>2
              <8>2. votes[k] # Table!Current
                BY <1>1, <3>3, <8>1 DEF NewestIsCurrent
              <8> QED
                BY <4>4, <5>2, <7>2, <8>1, <8>2
            <7> QED
              BY <7>1, <7>2
          <6> QED
            BY <6>1, <6>2
        <5> QED
          BY <5>1, <5>2
      <4> QED
        BY <4>1, <4>2, <4>4, <4>5, <4>6, <4>8
    <3> QED
      BY <3>2, <3>3
  <2>4. current \in Nat /\ i \in Nat
    BY <1>1, <1>2
  <2>5. current < i \/ i < current
    BY <1>4, <2>4
  <2> QED
    BY <2>2, <2>3, <2>5
<1> QED
  BY <1>3, <1>4

-----------------------------------------------------------------------------
(* Types.                                                                  *)

Shape == QueueShape /\ TypeOK

\* The vote that is written and not marked.
Ready ==
    stage = "written" =>
        batch # {} /\ Row.typ = "CastVote" /\ Exists(Row.id) /\ First \in Table!Written

LEMMA ShapeInit == Init => Shape
<1> SUFFICES ASSUME Init PROVE Shape
  OBVIOUS
<1>1. QueueShape
  BY QueueShapeInit DEF Init
<1>2. log \in Seq(Event)
  BY DEF Init, QueueInit
<1> QED
  BY <1>1, <1>2 DEF Init, StateInit, Shape, TypeOK, QueueShape, StateTypeOK, States, Phases,
     Table!VotesInit, Table!VoteTypeOK, Table!Unwritten, Idle, AtRest

\* The row that is applied is one of the log.
LEMMA RowIsLogged ==
    ASSUME Shape, batch # {}
    PROVE  /\ First \in batch /\ First \in 1..Len(log) /\ First \in Positions /\ Row \in Event
           /\ \A j \in batch : ~Precedes(j, First)
<1>1. batch \subseteq Positions /\ batch \subseteq 1..Len(log)
  BY DEF Shape, QueueShape, QueueTypeOK, Archived, Positions
<1>2. \A i \in batch : log[i] \in Event
  BY <1>1 DEF Shape, TypeOK
<1>3. \A i \in batch : log[i].src \in DOMAIN ChainOf
  BY <1>2 DEF Event
<1>4. First \in batch /\ \A j \in batch : ~Precedes(j, First)
  BY <1>1, <1>3, FirstIsFirst
<1> QED
  BY <1>1, <1>2, <1>4 DEF Row

LEMMA LogGrows ==
    ASSUME log \in Seq(Event), NEW typ \in {"StartVote", "CastVote", "ExecuteVote"},
           NEW p \in Proposals, Logs(typ, p)
    PROVE  /\ log' \in Seq(Event) /\ Len(log') = Len(log) + 1 /\ Len(log') <= MaxLog
           /\ \A i \in 1..Len(log) : log'[i] = log[i]
<1> DEFINE e == [src |-> "aragon_voting", typ |-> typ, id |-> p]
<1>1. e \in Event
  BY DEF Event
<1>2. Emit(<<e>>)
  BY DEF Logs
<1> HIDE DEF e
<1>3. <<e>> \in Seq(Event) /\ Len(<<e>>) = 1
  BY <1>1
<1> QED
  BY <1>2, <1>3, EmitAppends

\* What the contract does: a log more, or none.
LEMMA ContractMoves ==
    ASSUME Shape, Contract
    PROVE  /\ Len(log) \in Nat /\ Len(log') \in Nat /\ Len(log) <= Len(log')
           /\ log' \in Seq(Event) /\ Len(log') <= MaxLog
           /\ \A i \in 1..Len(log) : log'[i] = log[i]
           /\ onchain' \in [Proposals -> Phases]
<1>1. log \in Seq(Event) /\ Len(log) \in Nat /\ Len(log) <= MaxLog
  BY DEF Shape, TypeOK, QueueShape, QueueTypeOK
<1>2. onchain' \in [Proposals -> Phases]
  BY DEF Shape, TypeOK, Contract, Becomes, Phases
<1>3. \/ log' = log
      \/ \E p \in Proposals, typ \in {"StartVote", "CastVote", "ExecuteVote"} : Logs(typ, p)
  BY DEF Contract
<1>4. CASE log' = log
  BY <1>1, <1>2, <1>4
<1>5. CASE \E p \in Proposals, typ \in {"StartVote", "CastVote", "ExecuteVote"} : Logs(typ, p)
  BY <1>1, <1>2, <1>5, LogGrows
<1> QED
  BY <1>3, <1>4, <1>5

\* A cast vote is written.
LEMMA WriteOfVote ==
    ASSUME Shape, CurrentIsNewest, WriteVote
    PROVE  /\ Table!VoteTypeOK' /\ CurrentIsNewest'
           /\ Table!Written' = Table!Written \cup {First}
           /\ Row.typ = "CastVote" /\ First \in 1..Len(log)
<1>1. /\ First \in 1..Len(log) /\ Row \in Event /\ Row.typ = "CastVote" /\ InsertRow
      /\ log' = log
  BY RowIsLogged DEF WriteVote, queueVars
<1> DEFINE p == Row.id
<1>2. p \in Proposals /\ First \in Rivals(p)
  BY <1>1 DEF Event, Rivals, Row
<1>3. ASSUME NEW q \in Proposals PROVE Rivals(q) \in SUBSET Positions
  BY DEF Rivals, Shape, TypeOK, QueueShape, QueueTypeOK, Positions
<1>4. \A q \in Proposals : q # p => Rivals(q) \cap Rivals(p) = {}
  BY DEF Rivals
<1>5. \A q \in Proposals : NewestIsCurrent(Rivals(q))
  BY DEF CurrentIsNewest, NewestIsCurrent
<1> HIDE DEF p
<1>6. IF Table!CurrentVote(Rivals(p)) = First THEN votes' = votes
      ELSE Table!InsertVote(First, Rivals(p))
  BY <1>1 DEF InsertRow, p
<1> DEFINE i == First
<1> HIDE DEF i
<1>7. /\ Table!VoteTypeOK' /\ Table!Written' = Table!Written \cup {i}
      /\ \A j \in Positions \ Rivals(p) : votes'[j] = votes[j]
      /\ \A k \in Rivals(p) \cap Table!Written' :
             votes'[k] = Table!Current
                 <=> \A j \in Rivals(p) \cap Table!Written' : j <= k
  BY <1>2, <1>3, <1>5, <1>6, InsertKeepsNewest DEF Shape, TypeOK, i
<1>8. ASSUME NEW q \in Proposals, NEW k \in Rivals(q) \cap Table!Written'
      PROVE  votes'[k] = Table!Current
                 <=> \A j \in Rivals(q) \cap Table!Written' : j <= k
  <2>1. CASE q = p
    BY <1>7, <1>8, <2>1
  <2>2. CASE q # p
    <3>1. Rivals(q) \cap Table!Written' = Rivals(q) \cap Table!Written
      BY <1>2, <1>4, <1>7, <2>2 DEF i
    <3>2. k \in Positions \ Rivals(p)
      BY <1>3, <1>4, <1>2, <1>8, <2>2
    <3> QED
      BY <1>5, <1>7, <1>8, <3>1, <3>2 DEF NewestIsCurrent
  <2> QED
    BY <2>1, <2>2
<1>9. \A q \in Proposals : Rivals(q)' = Rivals(q)
  BY <1>1 DEF Rivals
<1>10. Table!Current' = Table!Current
  BY DEF Table!Current
<1> QED
  BY <1>1, <1>7, <1>8, <1>9, <1>10 DEF CurrentIsNewest, i

LEMMA ShapeStep == ASSUME Shape, Ready, CurrentIsNewest, Next PROVE Shape'
<1> USE DEF Shape
<1>1. QueueTypeOK /\ Len(log) \in Nat
  BY DEF QueueShape
<1>2. CASE Contract
  <2>1. QueueShape'
    BY <1>2, ContractMoves, QueueShapeEmit DEF Contract
  <2> QED
    BY <1>2, <2>1, ContractMoves
    DEF Contract, rowVars, tableVars, reconcileVars, TypeOK, QueueShape, StateTypeOK,
        Table!VoteTypeOK
<1>3. CASE ArchiveRow
  <2>1. PICK i \in 1..Len(log) : Archive(i, 1)
    BY <1>3 DEF ArchiveRow, TypeOK
  <2>2. QueueShape'
    BY <1>3, <2>1, QueueShapeArchive DEF ArchiveRow
  <2> QED
    BY <1>3, <2>2
    DEF ArchiveRow, rowVars, tableVars, reconcileVars, TypeOK, QueueShape, StateTypeOK,
        Table!VoteTypeOK
<1>4. CASE Begin
  <2>1. QueueShape'
    BY <1>1, <1>4, QueueShapeWork DEF Begin, BeginTick, Derivable, QueueShape, QueueTypeOK
  <2>2. stage # "written"
    BY <1>4 DEF Begin, BeginTick, TypeOK
  <2> QED
    BY <1>4, <2>1, <2>2
    DEF Begin, tableVars, reconcileVars, TypeOK, QueueShape, StateTypeOK, Table!VoteTypeOK
<1>5. CASE ApplyRow
  <2>1. First \in batch /\ Row \in Event
    BY <1>5, RowIsLogged DEF ApplyRow
  <2>2. state' \in [Proposals -> States \cup {"none"}]
    BY <1>5, <2>1
    DEF ApplyRow, InsertProposal, AdvanceState, TypeOK, StateTypeOK, States, Event
  <2>3. /\ derived' = derived \cup {First} /\ batch' = batch \ {First}
        /\ early' \subseteq early \cup {First} /\ Row.typ # "CastVote"
        /\ UNCHANGED <<log, received, attempts, held, quarantined, faults>>
    BY <1>5 DEF ApplyRow, MarkDerived, NoteOrder
  <2>4. stage # "written"
    BY <2>3 DEF Ready
  <2>5. QueueShape'
    <3> HIDE DEF First
    <3> QED
      BY <1>1, <2>1, <2>3, QueueShapeWork DEF QueueShape, QueueTypeOK
  <2>6. early' \subseteq Positions
    <3> HIDE DEF First
    <3> QED
      BY <2>1, <2>3 DEF TypeOK, QueueShape, QueueTypeOK
  <2> QED
    BY <1>5, <2>2, <2>4, <2>5, <2>6
    DEF ApplyRow, reconcileVars, TypeOK, QueueShape, StateTypeOK, Table!VoteTypeOK
<1>6. CASE WriteVote
  <2>1. /\ Table!VoteTypeOK' /\ batch # {} /\ stage' = "written" /\ early' \subseteq Positions
        /\ UNCHANGED <<queueVars, state, onchain, reconcileVars, ops>>
    <3>1. First \in Positions /\ early' \subseteq early \cup {First}
      BY <1>6, RowIsLogged DEF WriteVote, NoteOrder
    <3>2. early' \subseteq Positions
      <4> HIDE DEF First
      <4> QED
        BY <3>1 DEF TypeOK
    <3> QED
      BY <1>6, <3>2, WriteOfVote DEF WriteVote
  <2> QED
    BY <2>1
    DEF queueVars, rowVars, reconcileVars, TypeOK, QueueShape, QueueTypeOK, Archived, StateTypeOK
<1>7. CASE MarkVote
  <2>1. First \in batch
    BY <1>7, RowIsLogged DEF MarkVote, TypeOK
  <2>2. /\ derived' = derived \cup {First} /\ batch' = batch \ {First} /\ stage' = "idle"
        /\ UNCHANGED <<log, received, attempts, held, quarantined, faults>>
    BY <1>7 DEF MarkVote, MarkDerived
  <2>3. QueueShape'
    <3> HIDE DEF First
    <3> QED
      BY <1>1, <2>1, <2>2, QueueShapeWork DEF QueueShape, QueueTypeOK
  <2> QED
    BY <1>7, <2>2, <2>3
    DEF MarkVote, tableVars, reconcileVars, TypeOK, QueueShape, StateTypeOK, Table!VoteTypeOK
<1>8. CASE NoProposal \/ RowFails
  <2>1. batch # {} /\ Fail /\ (faults' = faults \/ Fault)
    BY <1>8 DEF NoProposal, RowFails
  <2>2. First \in Positions
    BY <2>1, RowIsLogged
  <2>3. faults' \in 0..MaxFaults /\ attempts' \in [Positions -> 0..DlqThreshold]
        /\ quarantined' \subseteq Positions
    BY <1>1, <2>1, <2>2, FaultIsBounded, CountIsBounded DEF Fail, CountFailure, QueueTypeOK
  <2>4. QueueShape'
    BY <1>1, <1>8, <2>1, <2>3, QueueShapeWork
    DEF NoProposal, RowFails, Fail, QueueShape, QueueTypeOK
  <2>5. stage' = "idle"
    BY <1>8 DEF NoProposal, RowFails, Ready, TypeOK
  <2>6. UNCHANGED <<log, tableVars, onchain, reconcileVars, ops, early>>
    BY <1>8 DEF NoProposal, RowFails
  <2> QED
    BY <2>4, <2>5, <2>6
    DEF tableVars, reconcileVars, TypeOK, QueueShape, StateTypeOK, Table!VoteTypeOK
<1>9. CASE RunFails
  <2>1. faults' \in 0..MaxFaults
    BY <1>1, <1>9, FaultIsBounded DEF RunFails, QueueTypeOK
  <2>2. QueueShape'
    BY <1>1, <1>9, <2>1, QueueShapeWork DEF RunFails, SkipRun, QueueShape, QueueTypeOK
  <2> QED
    BY <1>9, <2>2
    DEF RunFails, tableVars, reconcileVars, TypeOK, QueueShape, StateTypeOK, Table!VoteTypeOK
<1>10. CASE DlqRetry
  <2>1. /\ derived' \subseteq derived /\ quarantined' \subseteq quarantined
        /\ attempts' \in [Positions -> 0..DlqThreshold] /\ ops' \in 0..MaxOps
    BY <1>1, <1>10 DEF DlqRetry, Operates, QueueTypeOK, TypeOK
  <2>2. QueueShape'
    BY <1>1, <1>10, <2>1, QueueShapeWork DEF DlqRetry, QueueShape, QueueTypeOK
  <2> QED
    BY <1>10, <2>1, <2>2
    DEF DlqRetry, tableVars, reconcileVars, TypeOK, QueueShape, StateTypeOK, Table!VoteTypeOK
<1>11. CASE Replay
  <2>1. /\ derived' \subseteq derived /\ attempts' \in [Positions -> 0..DlqThreshold]
        /\ ops' \in 0..MaxOps
    BY <1>1, <1>11 DEF Replay, Operates, QueueTypeOK, TypeOK
  <2>2. QueueShape'
    BY <1>1, <1>11, <2>1, QueueShapeWork DEF Replay, QueueShape, QueueTypeOK
  <2> QED
    BY <1>11, <2>1, <2>2
    DEF Replay, tableVars, reconcileVars, TypeOK, QueueShape, StateTypeOK, Table!VoteTypeOK
\* The reconciler leaves the queue and the votes alone.
<1>12. ASSUME UNCHANGED <<log, received, rowVars, votes, stage, onchain, ops, early>>,
              faults' \in 0..MaxFaults, state' \in [Proposals -> States \cup {"none"}],
              actions' \subseteq Proposals, pct' \subseteq Proposals,
              checked' \subseteq Proposals, rows' \subseteq Proposals,
              tick' \in [view : [Proposals -> Phases],
                         state : [Proposals -> States \cup {"none"}],
                         pct : SUBSET Proposals],
              at' \in {AtRest} \cup [p : Proposals, next : {"actions", "pct", "close"}]
       PROVE  Shape'
  <2>1. QueueShape'
    BY <1>12 DEF rowVars, QueueShape, QueueTypeOK, Archived
  <2> QED
    BY <1>12, <2>1 DEF rowVars, TypeOK, QueueShape, StateTypeOK, Table!VoteTypeOK
<1>13. CASE BeginReconcile
  <2>1. tick' = [view |-> onchain, state |-> state, pct |-> pct]
    BY <1>13 DEF BeginReconcile
  <2> QED
    BY <1>1, <1>12, <1>13, <2>1
    DEF BeginReconcile, queueVars, tableVars, QueueTypeOK, TypeOK, StateTypeOK
<1>14. tick' = tick \/ tick' = Idle =>
          tick' \in [view : [Proposals -> Phases], state : [Proposals -> States \cup {"none"}],
                     pct : SUBSET Proposals]
  BY DEF Idle, Phases, TypeOK
<1>15. \A p \in Proposals :
          Closing(p) \in {AtRest} \cup [p : Proposals, next : {"actions", "pct", "close"}]
  BY DEF Closing
<1>16. CASE CheckVote
  <2>1. PICK p \in rows : /\ rows' = rows \ {p} /\ checked' = checked \cup {p}
                          /\ at' = IF p \in tick.pct THEN Closing(p)
                                   ELSE [p |-> p, next |-> "actions"]
    BY <1>16 DEF CheckVote
  <2>2. p \in Proposals
    BY DEF TypeOK
  <2>3. at' \in {AtRest} \cup [p : Proposals, next : {"actions", "pct", "close"}]
    BY <1>15, <2>1, <2>2
  <2>4. rows' \subseteq Proposals /\ checked' \subseteq Proposals
    BY <2>1, <2>2 DEF TypeOK
  <2> HIDE DEF AtRest
  <2> QED
    BY <1>1, <1>12, <1>14, <1>16, <2>3, <2>4
    DEF CheckVote, Rest, queueVars, tableVars, QueueTypeOK, TypeOK, StateTypeOK
<1>17. CASE EnrichRow
  <2>1. at.next \in {"actions", "pct"} => at.p \in Proposals
    BY DEF TypeOK, AtRest
  <2>2. /\ at' \in {AtRest} \cup [p : Proposals, next : {"actions", "pct", "close"}]
        /\ actions' \subseteq Proposals /\ pct' \subseteq Proposals
    <3>1. CASE at.next = "actions" /\ at' = [at EXCEPT !.next = "pct"]
               /\ actions' = actions \cup {at.p} /\ UNCHANGED pct
      BY <2>1, <3>1 DEF TypeOK, AtRest
    <3>2. CASE at.next = "pct" /\ at' = Closing(at.p)
               /\ pct' = pct \cup {at.p} /\ UNCHANGED actions
      BY <1>15, <2>1, <3>2 DEF TypeOK
    <3> QED
      BY <1>17, <3>1, <3>2 DEF EnrichRow, Enrich
  <2> QED
    BY <1>1, <1>12, <1>14, <1>17, <2>2
    DEF EnrichRow, Rest, queueVars, tableVars, QueueTypeOK, TypeOK, StateTypeOK
<1>20. CASE WriteState
  <2>1. state' \in [Proposals -> States \cup {"none"}]
    BY <1>20 DEF WriteState, Correct, ReconcileState, Closed, TypeOK, StateTypeOK, States
  <2> QED
    BY <1>1, <1>12, <1>14, <1>20, <2>1
    DEF WriteState, Rest, queueVars, QueueTypeOK, TypeOK
<1>21. CASE ReconcileFails
  <2>1. faults' \in 0..MaxFaults
    BY <1>1, <1>21, FaultIsBounded DEF ReconcileFails, QueueTypeOK
  <2>2. rows' \subseteq Proposals /\ (at' = at \/ at' = AtRest)
    BY <1>21 DEF ReconcileFails, TypeOK
  <2> QED
    BY <1>12, <1>14, <1>21, <2>1, <2>2 DEF ReconcileFails, Rest, tableVars, TypeOK, StateTypeOK
<1>18. CASE GapPasses
  BY <1>1, <1>12, <1>18 DEF GapPasses, queueVars, tableVars, QueueTypeOK, TypeOK, StateTypeOK
<1>19. CASE Restart
  <2>1. faults' \in 0..MaxFaults
    BY <1>1, <1>19, FaultIsBounded DEF Restart, QueueTypeOK
  <2>2. QueueShape'
    BY <1>1, <1>19, <2>1, QueueShapeWork DEF Restart, QueueShape, QueueTypeOK
  <2>3. Idle \in [view : [Proposals -> Phases], state : [Proposals -> States \cup {"none"}],
                  pct : SUBSET Proposals]
    BY DEF Idle, Phases
  <2> HIDE DEF Idle
  <2> QED
    BY <1>19, <2>2, <2>3
    DEF Restart, tableVars, TypeOK, QueueShape, StateTypeOK, Table!VoteTypeOK
<1> QED
  BY <1>2, <1>3, <1>4, <1>5, <1>6, <1>7, <1>8, <1>9, <1>10, <1>11, <1>13, <1>16, <1>17,
     <1>18, <1>19, <1>20, <1>21
  DEF Next, Worker, Reconciler

-----------------------------------------------------------------------------
(* Votes.                                                                  *)

Casts == Table!Written \subseteq 1..Len(log)

VotesOK == Casts /\ CurrentIsNewest /\ DerivedVoteIsWritten /\ Ready

\* While a batch stays, so does the row that comes first.
LEMMA FirstStays ==
    ASSUME Shape, batch # {}, batch' = batch,
           \A i \in 1..Len(log) : log'[i] = log[i]
    PROVE  First' = First /\ Row' = Row
<1>1. First \in batch /\ First \in 1..Len(log) /\ \A j \in batch : ~Precedes(j, First)
  BY RowIsLogged
<1>2. /\ batch \subseteq 1..Len(log) /\ batch \subseteq Nat
      /\ \A i \in batch : log'[i] = log[i] /\ ChainOf[log[i].src] \in Nat
  <2>1. batch \subseteq 1..Len(log) /\ batch \subseteq Nat
    BY DEF Shape, QueueShape, QueueTypeOK, Archived, Positions
  <2>2. \A i \in batch : log[i].src \in DOMAIN ChainOf
    <3>1. \A i \in batch : log[i] \in Event
      BY <2>1 DEF Shape, TypeOK
    <3> QED
      BY <3>1 DEF Event
  <2> QED
    BY <2>1, <2>2
<1> DEFINE later(i, j) == IF i < j THEN ChainOf[log[i].src] <= ChainOf[log[j].src]
                          ELSE ChainOf[log[i].src] < ChainOf[log[j].src]
           first(i) == \A j \in batch : ~later(j, i)
<1>3. first(First)
  BY <1>1 DEF Precedes
<1>4. \A i, j \in batch : first(i) /\ first(j) => i = j
  BY <1>2
<1>5. First' \in batch /\ first(First')
  <2> DEFINE laterNow(i, j) == IF i < j THEN ChainOf[log'[i].src] <= ChainOf[log'[j].src]
                               ELSE ChainOf[log'[i].src] < ChainOf[log'[j].src]
  <2>1. First' = CHOOSE i \in batch : \A j \in batch : ~laterNow(j, i)
    BY DEF First, Precedes
  <2>2. \A i, j \in batch : laterNow(i, j) <=> later(i, j)
    BY <1>2
  <2> HIDE DEF laterNow
  <2>3. First' \in batch /\ \A j \in batch : ~laterNow(j, First')
    <3>1. First \in batch /\ \A j \in batch : ~laterNow(j, First)
      BY <1>1, <1>3, <2>2
    <3> HIDE DEF First
    <3> QED
      BY <2>1, <3>1
  <2> QED
    BY <2>2, <2>3
<1>6. First' = First
  BY <1>1, <1>3, <1>4, <1>5
<1> QED
  BY <1>1, <1>6 DEF Row

\* Where no vote is written and no log is taken back, the table stays right.
LEMMA TableStays ==
    ASSUME Shape, Casts, CurrentIsNewest, Len(log) \in Nat, Len(log') \in Nat,
           votes' = votes, Len(log) <= Len(log'), \A i \in 1..Len(log) : log'[i] = log[i],
           DOMAIN log = 1..Len(log), DOMAIN log' = 1..Len(log')
    PROVE  /\ Casts' /\ CurrentIsNewest' /\ Table!Written' = Table!Written
           /\ \A p \in Proposals : Rivals(p)' \cap Table!Written = Rivals(p) \cap Table!Written
<1>1. Table!Written' = Table!Written
  BY DEF Table!Written, Table!Unwritten
<1>2. Casts'
  BY <1>1 DEF Casts
<1>3. ASSUME NEW p \in Proposals
      PROVE  Rivals(p)' \cap Table!Written' = Rivals(p) \cap Table!Written
  BY <1>1 DEF Rivals, Casts
<1>4. ASSUME NEW p \in Proposals, NEW i \in Rivals(p)' \cap Table!Written'
      PROVE  votes'[i] = Table!Current
                 <=> \A j \in Rivals(p)' \cap Table!Written' : j <= i
  <2>1. i \in Rivals(p) \cap Table!Written
    BY <1>3, <1>4
  <2> QED
    BY <1>3, <2>1 DEF CurrentIsNewest
<1>5. CurrentIsNewest'
  BY <1>4 DEF CurrentIsNewest, Table!Current
<1> QED
  BY <1>1, <1>2, <1>3, <1>5

LEMMA VotesStep == ASSUME Shape, VotesOK, Next PROVE VotesOK'
<1>1. /\ Len(log) \in Nat /\ DOMAIN log = 1..Len(log) /\ derived \subseteq 1..Len(log)
      /\ log \in Seq(Event)
  BY DEF Shape, TypeOK, QueueShape, QueueTypeOK, Archived, Positions
<1>2. Casts /\ CurrentIsNewest /\ DerivedVoteIsWritten /\ Ready
  BY DEF VotesOK
<1>3. ASSUME log' = log, votes' = votes PROVE Casts' /\ CurrentIsNewest' /\ Table!Written' = Table!Written
  BY <1>1, <1>2, <1>3, TableStays
<1>4. CASE Contract
  <2>1. /\ UNCHANGED <<batch, derived, votes, stage, state>>
    BY <1>4 DEF Contract, rowVars, tableVars
  <2>2. /\ Len(log') \in Nat /\ Len(log) <= Len(log') /\ log' \in Seq(Event)
        /\ \A i \in 1..Len(log) : log'[i] = log[i]
    BY <1>4, ContractMoves
  <2>3. Casts' /\ CurrentIsNewest' /\ Table!Written' = Table!Written
    BY <1>1, <1>2, <2>1, <2>2, TableStays
  <2>4. DerivedVoteIsWritten'
    BY <1>1, <1>2, <2>1, <2>2, <2>3 DEF DerivedVoteIsWritten
  <2>5. Ready'
    <3> SUFFICES ASSUME stage = "written" PROVE Ready'
      BY <2>1 DEF Ready
    <3>1. batch # {} /\ Row.typ = "CastVote" /\ Exists(Row.id) /\ First \in Table!Written
      BY <1>2 DEF Ready
    <3>2. First' = First /\ Row' = Row
      BY <2>1, <2>2, <3>1, FirstStays
    <3> HIDE DEF First, Row
    <3> QED
      BY <2>1, <2>3, <3>1, <3>2 DEF Ready, Exists
  <2> QED
    BY <2>3, <2>4, <2>5 DEF VotesOK
\* The batch goes on or a row leaves it: nothing is in hand.
<1>5. ASSUME log' = log, votes' = votes, stage' # "written",
             \A i \in derived' : i \in derived \/ log[i].typ # "CastVote" \/ i \in Table!Written
      PROVE  VotesOK'
  <2>1. DerivedVoteIsWritten'
    BY <1>2, <1>3, <1>5 DEF DerivedVoteIsWritten
  <2> QED
    BY <1>3, <1>5, <2>1 DEF VotesOK, Ready
<1>6. ASSUME UNCHANGED <<log, votes, stage, batch>>, derived' \subseteq derived,
             \A p \in Proposals : Exists(p) => Exists(p)'
      PROVE  VotesOK'
  <2>1. DerivedVoteIsWritten'
    BY <1>2, <1>3, <1>6 DEF DerivedVoteIsWritten
  <2>2. Ready'
    <3> SUFFICES ASSUME stage = "written" PROVE Ready'
      BY <1>6 DEF Ready
    <3>1. batch # {} /\ Row.typ = "CastVote" /\ Exists(Row.id) /\ First \in Table!Written
      BY <1>2 DEF Ready
    <3>2. First' = First /\ Row' = Row /\ Row \in Event
      BY <1>6, <3>1, FirstStays, RowIsLogged
    <3>3. Row.id \in Proposals
      BY <3>2 DEF Event
    <3> HIDE DEF First, Row, Exists
    <3> QED
      BY <1>3, <1>6, <3>1, <3>2, <3>3 DEF Ready
  <2> QED
    BY <1>3, <1>6, <2>1, <2>2 DEF VotesOK
<1>7. ASSUME state' = state, NEW p \in Proposals, Exists(p) PROVE Exists(p)'
  BY <1>7 DEF Exists
<1>8. CASE Begin
  <2>1. stage # "written"
    BY <1>8 DEF Begin, BeginTick, Shape, TypeOK
  <2> QED
    BY <1>5, <1>8, <2>1 DEF Begin, tableVars
<1>9. CASE ApplyRow
  <2>1. Row.typ # "CastVote" /\ derived' = derived \cup {First}
        /\ UNCHANGED <<log, votes, stage>>
    BY <1>9 DEF ApplyRow, MarkDerived
  <2>2. stage # "written"
    BY <1>2, <2>1 DEF Ready
  <2> QED
    BY <1>5, <2>1, <2>2 DEF Row
<1>10. CASE WriteVote
  <2>1. /\ Table!Written' = Table!Written \cup {First} /\ CurrentIsNewest'
        /\ Row.typ = "CastVote" /\ First \in 1..Len(log)
    BY <1>2, <1>10, WriteOfVote
  <2>2. UNCHANGED <<log, batch, derived, state>> /\ batch # {} /\ Exists(Row.id)
    BY <1>10 DEF WriteVote, queueVars, rowVars
  <2>3. First' = First /\ Row' = Row
    BY <2>2, FirstStays
  <2>4. Casts'
    BY <1>2, <2>1, <2>2 DEF Casts
  <2>5. DerivedVoteIsWritten'
    BY <1>2, <2>1, <2>2 DEF DerivedVoteIsWritten
  <2>6. Ready'
    <3> HIDE DEF First, Row
    <3> QED
      BY <2>1, <2>2, <2>3 DEF Ready, Exists
  <2> QED
    BY <2>1, <2>4, <2>5, <2>6 DEF VotesOK
<1>11. CASE MarkVote
  <2>1. First \in Table!Written /\ derived' = derived \cup {First} /\ stage' = "idle"
        /\ UNCHANGED <<log, votes>>
    BY <1>2, <1>11 DEF MarkVote, MarkDerived, Ready, tableVars
  <2> QED
    BY <1>5, <2>1
<1>12. CASE NoProposal \/ RowFails \/ RunFails \/ Restart
  <2>1. stage' # "written"
    BY <1>2, <1>12 DEF NoProposal, RowFails, RunFails, Restart, Ready
  <2>2. UNCHANGED <<log, votes, derived>>
    BY <1>12 DEF NoProposal, RowFails, RunFails, Restart, Fail, tableVars
  <2> QED
    BY <1>5, <2>1, <2>2
<1>13. CASE ArchiveRow \/ DlqRetry \/ Replay \/ BeginReconcile \/ CheckVote \/ EnrichRow
            \/ ReconcileFails \/ GapPasses
  <2>1. UNCHANGED <<log, votes, stage, batch, state>> /\ derived' \subseteq derived
    BY <1>13
    DEF ArchiveRow, DlqRetry, Replay, BeginReconcile, CheckVote, EnrichRow, ReconcileFails,
        GapPasses, queueVars, rowVars, tableVars
  <2> QED
    BY <1>6, <1>7, <2>1
<1>14. CASE WriteState
  <2>1. \A p \in Proposals : Exists(p) => Exists(p)'
    BY <1>14 DEF WriteState, Correct, ReconcileState, Closed, Exists, Shape, TypeOK, StateTypeOK
  <2> QED
    BY <1>6, <1>14, <2>1 DEF WriteState, queueVars, rowVars
<1> QED
  BY <1>4, <1>8, <1>9, <1>10, <1>11, <1>12, <1>13, <1>14 DEF Next, Worker, Reconciler

-----------------------------------------------------------------------------
(* The reconciler's enrichment.                                            *)

\* The percentages come after the actions.
ActionsFirst == PctMeansActions /\ (at.next = "pct" => at.p \in actions)

LEMMA ActionsStep == ASSUME Shape, ActionsFirst, Next PROVE ActionsFirst'
<1> USE DEF ActionsFirst, PctMeansActions, AtRest
<1>1. CASE UNCHANGED <<actions, pct, at>>
  BY <1>1
<1>2. CASE Restart \/ ReconcileFails
  BY <1>2 DEF Restart, ReconcileFails
<1>3. \A p : Closing(p) \in {AtRest, [p |-> p, next |-> "close"]}
  BY DEF Closing
<1>4. CASE CheckVote
  <2>1. at'.next # "pct" /\ UNCHANGED <<actions, pct>>
    BY <1>3, <1>4 DEF CheckVote
  <2> QED
    BY <2>1
<1>5. CASE EnrichRow
  <2>1. CASE at.next = "actions" /\ at' = [at EXCEPT !.next = "pct"]
             /\ actions' = actions \cup {at.p} /\ UNCHANGED pct
    <3>1. at \in [p : Proposals, next : {"actions", "pct", "close"}]
      BY <2>1 DEF Shape, TypeOK
    <3> QED
      BY <2>1, <3>1
  <2>2. CASE at.next = "pct" /\ at' = Closing(at.p)
             /\ pct' = pct \cup {at.p} /\ UNCHANGED actions
    BY <1>3, <2>2
  <2> QED
    BY <1>5, <2>1, <2>2 DEF EnrichRow, Enrich
<1>6. CASE WriteState
  BY <1>6 DEF WriteState
<1> QED
  BY <1>1, <1>2, <1>4, <1>5, <1>6
  DEF Next, Worker, Reconciler, Contract, ArchiveRow, RowFails, RunFails, DlqRetry, Replay,
      BeginReconcile, GapPasses, Begin, ApplyRow, WriteVote, MarkVote, NoProposal, reconcileVars

-----------------------------------------------------------------------------
(* The tally.                                                              *)

ArchivedInOrder == \A i \in Archived : \A j \in 1..(i - 1) : j \in Archived

InOrder == early = {} /\ ops = 0

\* What is applied has no earlier row of its proposal to come.
PrefixOK ==
    \A j \in derived \cup Table!Written :
        \A i \in 1..(j - 1) : log[i].id = log[j].id => i \in derived

\* A vote that is replaced is so from the next of those written.
Chained(rivals) ==
    \A i \in rivals \cap Table!Written :
        votes[i] # Table!Current =>
            /\ votes[i].at \in rivals \cap Table!Written /\ votes[i].at > i
            /\ \A j \in rivals \cap Table!Written : j > i => votes[i].at <= j

TallyOK ==
    /\ ArchivedInOrder
    /\ ops = 0 => batch \cap derived = {}
    /\ InOrder => PrefixOK /\ \A p \in Proposals : Chained(Rivals(p))

\* A vote newer than those written takes the place of the last of them.
LEMMA InsertExtendsChain ==
    ASSUME NEW rivals \in SUBSET Positions, NEW i \in rivals,
           Table!VoteTypeOK, NewestIsCurrent(rivals), Chained(rivals),
           \A j \in rivals \cap Table!Written : j <= i,
           IF Table!CurrentVote(rivals) = i THEN votes' = votes
           ELSE Table!InsertVote(i, rivals),
           Table!Written' = Table!Written \cup {i}
    PROVE  \A k \in rivals \cap Table!Written' :
              votes'[k] # Table!Current =>
                  /\ votes'[k].at \in rivals \cap Table!Written' /\ votes'[k].at > k
                  /\ \A j \in rivals \cap Table!Written' : j > k => votes'[k].at <= j
<1> DEFINE current == Table!CurrentVote(rivals)
           W == rivals \cap Table!Written
<1>1. \/ current = 0 /\ W = {}
      \/ /\ current \in W /\ votes[current] = Table!Current
         /\ \A j \in W : j <= current
  BY CurrentVoteIsNewest
<1>2. Positions \subseteq Nat /\ 0 \notin Positions /\ W \subseteq Positions
  <2>1. Positions \subseteq Nat /\ 0 \notin Positions
    BY DEF Positions, QueueAssumption
  <2>2. W \subseteq Positions
    OBVIOUS
  <2> QED
    BY <2>1, <2>2
<1>3. \A j \in W : j <= i
  OBVIOUS
<1>4. \A k \in W : votes[k] # Table!Current =>
            /\ votes[k].at \in W /\ votes[k].at > k
            /\ \A j \in W : j > k => votes[k].at <= j
  BY DEF Chained
<1>5. rivals \cap Table!Written' = W \cup {i}
  OBVIOUS
<1>6. CASE current = i
  <2>1. votes' = votes /\ i \in W
    BY <1>1, <1>2, <1>6
  <2> QED
    BY <1>4, <1>5, <2>1
<1>7. CASE current # i
  <2>1. votes' = Table!VoteRows(i, current)
    BY <1>7 DEF Table!InsertVote
  <2> HIDE DEF current, W
  <2>2. Table!IsNewer(i, current)
    <3>1. CASE current = 0
      BY <3>1 DEF Table!IsNewer
    <3>2. CASE current # 0
      <4>1. current \in Nat /\ i \in Nat /\ current <= i /\ current # i
        BY <1>1, <1>2, <1>3, <1>7, <3>2
      <4>2. i > current
        BY <4>1
      <4> QED
        BY <4>2 DEF Table!IsNewer
    <3> QED
      BY <3>1, <3>2
  <2>3. votes' = [j \in Positions |->
                    IF j = i THEN Table!Current
                    ELSE IF j = current THEN Table!SupersededAt(i, i) ELSE votes[j]]
    BY <2>1, <2>2 DEF Table!VoteRows
  <2>4. ASSUME NEW k \in W \cup {i}, votes'[k] # Table!Current
        PROVE  /\ votes'[k].at \in W \cup {i} /\ votes'[k].at > k
               /\ \A j \in W \cup {i} : j > k => votes'[k].at <= j
    <3>1. k # i /\ k \in W /\ k \in Nat /\ i \in Nat /\ W \subseteq Nat /\ i \in Positions
      BY <1>2, <2>3, <2>4
    <3>2. k < i
      BY <1>3, <3>1
    <3>3. CASE k = current
      <4>1. votes'[k].at = i
        BY <1>2, <2>3, <3>1, <3>3 DEF Table!SupersededAt
      <4>2. \A j \in W : ~(j > k)
        BY <1>1, <3>1, <3>3
      <4> QED
        BY <3>1, <3>2, <4>1, <4>2
    <3>4. CASE k # current
      <4>1. votes'[k] = votes[k]
        BY <1>2, <2>3, <3>1, <3>4
      <4>2. /\ votes[k].at \in W /\ votes[k].at > k
            /\ \A j \in W : j > k => votes[k].at <= j
        BY <1>4, <2>4, <3>1, <4>1
      <4> QED
        BY <1>3, <4>1, <4>2
    <3> QED
      BY <3>3, <3>4
  <2> QED
    BY <1>5, <2>4
<1> QED
  BY <1>6, <1>7

LEMMA EarlierAreDerived ==
    ASSUME Shape, ArchivedInOrder, batch # {}, NEW f, f = First, ~Skipped(f)
    PROVE  \A i \in 1..(f - 1) : log[i].id = log[f].id => i \in derived
<1>1. f \in Archived
  BY RowIsLogged DEF Shape, QueueShape
<1>2. \A i \in 1..(f - 1) : i \in Archived
  BY <1>1 DEF ArchivedInOrder
<1>3. f \in Nat
  BY RowIsLogged
<1> QED
  BY <1>2, <1>3 DEF Skipped

\* Where no vote is written, and what is derived had nothing before it to come.
LEMMA TallyStays ==
    ASSUME Shape, Casts, CurrentIsNewest, TallyOK, votes' = votes, ArchivedInOrder',
           Len(log) \in Nat, Len(log') \in Nat, Len(log) <= Len(log'),
           \A i \in 1..Len(log) : log'[i] = log[i],
           DOMAIN log = 1..Len(log), DOMAIN log' = 1..Len(log'),
           ops' = 0 => ops = 0 /\ batch' \cap derived' = {},
           early' = {} => early = {},
           ops' = 0 /\ early' = {} =>
               /\ derived \subseteq derived'
               /\ \A j \in derived' \ derived : \A i \in 1..(j - 1) :
                     log[i].id = log[j].id => i \in derived,
           derived' \subseteq derived \cup 1..Len(log)
    PROVE  TallyOK'
<1>1. /\ Table!Written' = Table!Written
      /\ \A p \in Proposals : Rivals(p)' \cap Table!Written = Rivals(p) \cap Table!Written
  BY TableStays
<1>2. ASSUME InOrder' PROVE PrefixOK' /\ \A p \in Proposals : Chained(Rivals(p))'
  <2>1. InOrder /\ PrefixOK /\ \A p \in Proposals : Chained(Rivals(p))
    BY <1>2 DEF InOrder, TallyOK
  <2>2. ASSUME NEW j \in derived' \cup Table!Written,
               NEW i \in 1..(j - 1), log'[i].id = log'[j].id
        PROVE  i \in derived'
    <3>1. j \in 1..Len(log) /\ i \in 1..Len(log)
      <4>1. derived \subseteq 1..Len(log)
        BY DEF Shape, QueueShape, QueueTypeOK, Archived, Positions
      <4> QED
        BY <2>2, <4>1 DEF Casts
    <3>2. log[i].id = log[j].id
      BY <2>2, <3>1
    <3>3. i \in derived
      BY <1>2, <2>1, <2>2, <3>2 DEF PrefixOK, InOrder
    <3> QED
      BY <1>2, <3>3 DEF InOrder
  <2>3. PrefixOK'
    BY <1>1, <2>2 DEF PrefixOK
  <2>4. ASSUME NEW p \in Proposals PROVE Chained(Rivals(p))'
    BY <1>1, <2>1 DEF Chained, Table!Current
  <2> QED
    BY <2>3, <2>4
<1> QED
  BY <1>2 DEF TallyOK

LEMMA TallyWrite ==
    ASSUME Shape, VotesOK, TallyOK, WriteVote
    PROVE  TallyOK'
<1>0. PICK f, p : f = First /\ p = Row.id
  OBVIOUS
<1>1. /\ f \in 1..Len(log) /\ f \in Positions /\ f \in batch /\ Row \in Event /\ Row = log[f]
      /\ Row.typ = "CastVote" /\ InsertRow /\ batch # {}
      /\ UNCHANGED <<log, received, derived, batch, ops>>
  BY <1>0, RowIsLogged DEF WriteVote, queueVars, rowVars, Row
<1>2. p \in Proposals /\ p = log[f].id /\ f \in Rivals(p)
  <2>1. log \in Seq(Event)
    BY DEF Shape, TypeOK
  <2> QED
    BY <1>0, <1>1, <2>1 DEF Event, Rivals
<1>3. early' = IF Skipped(f) THEN early \cup {f} ELSE early
  BY <1>0 DEF WriteVote, NoteOrder
<1>4. Table!Written' = Table!Written \cup {f}
  BY <1>0, WriteOfVote DEF VotesOK
<1>5. ArchivedInOrder' /\ (ops' = 0 => batch' \cap derived' = {})
  BY <1>1 DEF TallyOK, ArchivedInOrder, Archived
<1>6. ASSUME InOrder' PROVE PrefixOK' /\ \A q \in Proposals : Chained(Rivals(q))'
  <2>1. InOrder /\ ~Skipped(f) /\ PrefixOK /\ f \notin derived
    BY <1>1, <1>3, <1>6 DEF InOrder, TallyOK
  <2>2. \A q \in Proposals : Chained(Rivals(q))
    BY <2>1 DEF TallyOK
  <2>3. PrefixOK'
    <3>1. \A i \in 1..(f - 1) : log[i].id = log[f].id => i \in derived
      BY <1>0, <1>1, <2>1, EarlierAreDerived DEF TallyOK
    <3> QED
      BY <1>1, <1>4, <2>1, <3>1 DEF PrefixOK
  <2>0. ASSUME NEW q PROVE Rivals(q) \in SUBSET Positions /\ Rivals(q)' = Rivals(q)
    BY <1>1 DEF Rivals, Shape, TypeOK, QueueShape, QueueTypeOK, Positions
  <2>4. PICK R \in SUBSET Positions : R = Rivals(p)
    BY <2>0
  <2>5. \A j \in R \cap Table!Written : j <= f
    <3> SUFFICES ASSUME NEW j \in R \cap Table!Written, ~(j <= f) PROVE FALSE
      OBVIOUS
    <3>1. j \in Nat /\ f \in Nat /\ log[j].id = p
      BY <1>1, <2>4 DEF Rivals, Positions
    <3>2. f \in 1..(j - 1)
      BY <1>1, <3>1
    <3> QED
      BY <1>2, <2>1, <3>1, <3>2 DEF PrefixOK
  <2>6. NewestIsCurrent(R) /\ Chained(R)
    BY <1>2, <2>2, <2>4 DEF VotesOK, CurrentIsNewest, NewestIsCurrent
  <2>7. IF Table!CurrentVote(R) = f THEN votes' = votes ELSE Table!InsertVote(f, R)
    BY <1>0, <1>1, <2>4 DEF InsertRow
  <2>8. /\ \A k \in R \cap Table!Written' :
              votes'[k] # Table!Current =>
                  /\ votes'[k].at \in R \cap Table!Written' /\ votes'[k].at > k
                  /\ \A j \in R \cap Table!Written' : j > k => votes'[k].at <= j
        /\ \A j \in Positions \ R : votes'[j] = votes[j]
    <3>1. f \in R /\ Table!VoteTypeOK
      BY <1>2, <2>4 DEF Shape, TypeOK
    <3>2. \A j \in Positions \ R : votes'[j] = votes[j]
      BY <2>6, <2>7, <3>1, InsertKeepsNewest
    <3> QED
      BY <1>4, <2>5, <2>6, <2>7, <3>1, <3>2, InsertExtendsChain
  <2>9. ASSUME NEW q \in Proposals PROVE Chained(Rivals(q))'
    <3>1. PICK Q \in SUBSET Positions : Q = Rivals(q) /\ Q = Rivals(q)'
      BY <2>0
    <3>2. CASE q = p
      BY <2>4, <2>8, <3>1, <3>2 DEF Chained, Table!Current
    <3>3. CASE q # p
      <4>1. Q \cap R = {}
        BY <2>4, <3>1, <3>3 DEF Rivals
      <4>2. Q \cap Table!Written' = Q \cap Table!Written /\ Q \subseteq Positions \ R
        BY <1>2, <1>4, <2>4, <4>1
      <4>3. Chained(Q)
        BY <2>2, <3>1
      <4> QED
        BY <2>8, <3>1, <4>2, <4>3 DEF Chained, Table!Current
    <3> QED
      BY <3>2, <3>3
  <2> QED
    BY <2>3, <2>9
<1> QED
  BY <1>5, <1>6 DEF TallyOK

LEMMA TallyStep == ASSUME Shape, VotesOK, TallyOK, Next PROVE TallyOK'
<1>1. /\ Len(log) \in Nat /\ DOMAIN log = 1..Len(log) /\ derived \subseteq 1..Len(log)
      /\ log \in Seq(Event) /\ Casts /\ CurrentIsNewest /\ ops \in Nat
      /\ ArchivedInOrder /\ (ops = 0 => batch \cap derived = {})
  BY DEF Shape, TypeOK, QueueShape, QueueTypeOK, Archived, Positions, VotesOK, TallyOK
\* What takes rows of the batch, or none, and derives nothing.
<1>2. ASSUME UNCHANGED <<log, votes, received, early, derived, ops>>, batch' \subseteq batch
      PROVE  TallyOK'
  <2>1. ArchivedInOrder'
    BY <1>1, <1>2 DEF ArchivedInOrder, Archived
  <2> QED
    BY <1>1, <1>2, <2>1, TallyStays
<1>3. CASE Contract
  <2>1. UNCHANGED <<batch, derived, votes, received, early, ops>>
    BY <1>3 DEF Contract, rowVars, tableVars
  <2>2. /\ Len(log') \in Nat /\ Len(log) <= Len(log') /\ log' \in Seq(Event)
        /\ \A i \in 1..Len(log) : log'[i] = log[i]
    BY <1>3, ContractMoves
  <2>3. ArchivedInOrder' /\ DOMAIN log' = 1..Len(log')
    BY <1>1, <2>1, <2>2 DEF ArchivedInOrder, Archived
  <2> QED
    BY <1>1, <2>1, <2>2, <2>3, TallyStays
<1>4. CASE ArchiveRow
  <2>1. UNCHANGED <<log, batch, derived, votes, early, ops>>
    BY <1>4 DEF ArchiveRow, rowVars, tableVars
  <2>2. PICK i \in 1..Len(log) : Archive(i, 1)
    BY <1>1, <1>4 DEF ArchiveRow
  <2>3. Archived' = Archived \cup {i}
    BY <1>4, <2>2, QueueShapeArchive DEF ArchiveRow, Shape
  <2>4. ASSUME NEW j \in 1..(i - 1) PROVE j \in Archived
    <3>1. j \in 1..Len(log) /\ j \in Positions
      BY <1>1, <2>2 DEF Positions, Shape, QueueShape, QueueTypeOK
    <3>2. log[j].src = log[i].src
      <4>1. log[j] \in Event /\ log[i] \in Event
        BY <1>1, <3>1
      <4> QED
        BY <4>1 DEF Event
    <3> QED
      BY <2>2, <3>1, <3>2 DEF Archive, Archived
  <2>5. ArchivedInOrder'
    BY <1>1, <2>3, <2>4 DEF ArchivedInOrder
  <2> QED
    BY <1>1, <2>1, <2>5, TallyStays
<1>5. CASE Begin
  <2>1. UNCHANGED <<log, votes, received, early, derived, ops>> /\ batch' \cap derived = {}
    BY <1>5 DEF Begin, BeginTick, Derivable, tableVars
  <2>2. ArchivedInOrder'
    BY <1>1, <2>1 DEF ArchivedInOrder, Archived
  <2> QED
    BY <1>1, <2>1, <2>2, TallyStays
<1>6. CASE ApplyRow \/ MarkVote
  <2>0. PICK f : f = First
    OBVIOUS
  <2>1. /\ batch # {} /\ f \in 1..Len(log)
        /\ derived' = derived \cup {f} /\ batch' = batch \ {f}
        /\ UNCHANGED <<log, received, votes, ops>> /\ early \subseteq early'
    <3>1. batch # {}
      BY <1>6 DEF ApplyRow, MarkVote, VotesOK, Ready
    <3>2. First \in 1..Len(log)
      BY <3>1, RowIsLogged
    <3> HIDE DEF First
    <3> QED
      BY <1>6, <2>0, <3>1, <3>2 DEF ApplyRow, MarkVote, MarkDerived, NoteOrder, tableVars
  <2>2. ArchivedInOrder'
    BY <1>1, <2>1 DEF ArchivedInOrder, Archived
  <2>3. InOrder' => \A i \in 1..(f - 1) : log[i].id = log[f].id => i \in derived
    <3>1. CASE ApplyRow
      <4>1. InOrder' => ~Skipped(f)
        BY <2>0, <3>1 DEF ApplyRow, NoteOrder, InOrder
      <4> QED
        BY <1>1, <2>0, <2>1, <4>1, EarlierAreDerived
    <3>2. CASE MarkVote
      <4>1. f \in Table!Written
        BY <2>0, <3>2 DEF MarkVote, VotesOK, Ready
      <4>2. InOrder' => PrefixOK
        BY <2>1 DEF InOrder, TallyOK
      <4> QED
        BY <4>1, <4>2 DEF PrefixOK
    <3> QED
      BY <1>6, <3>1, <3>2
  <2>4. ops' = 0 /\ early' = {} =>
           \A j \in derived' \ derived : \A i \in 1..(j - 1) :
              log[i].id = log[j].id => i \in derived
    BY <2>1, <2>3 DEF InOrder
  <2> QED
    BY <1>1, <2>1, <2>2, <2>4, TallyStays
<1>7. CASE DlqRetry \/ Replay
  <2>1. UNCHANGED <<log, votes, received, early>> /\ ops' # 0 /\ derived' \subseteq derived
    BY <1>1, <1>7 DEF DlqRetry, Replay, Operates, tableVars
  <2>2. ArchivedInOrder'
    BY <1>1, <2>1 DEF ArchivedInOrder, Archived
  <2> QED
    BY <1>1, <2>1, <2>2, TallyStays
<1>8. CASE NoProposal \/ RowFails \/ RunFails \/ Restart
  <2>1. UNCHANGED <<log, votes, received, early, derived, ops>> /\ batch' \subseteq batch
    BY <1>8 DEF NoProposal, RowFails, RunFails, SkipRun, Restart, Fail, tableVars
  <2> QED
    BY <1>2, <2>1
<1>9. CASE BeginReconcile \/ CheckVote \/ EnrichRow \/ WriteState \/ ReconcileFails \/ GapPasses
  <2>1. UNCHANGED <<log, votes, received, early, derived, ops, batch>>
    BY <1>9
    DEF BeginReconcile, CheckVote, EnrichRow, WriteState, ReconcileFails, GapPasses, queueVars,
        rowVars, tableVars
  <2> QED
    BY <1>2, <2>1
<1>10. CASE WriteVote
  BY <1>10, TallyWrite
<1> QED
  BY <1>3, <1>4, <1>5, <1>6, <1>7, <1>8, <1>9, <1>10 DEF Next, Worker, Reconciler

\* What the chains say of the tally.
LEMMA ChainTellsTally ==
    ASSUME NEW rivals \in SUBSET Positions, NewestIsCurrent(rivals), Chained(rivals),
           Table!VoteTypeOK, NEW time \in Positions
    PROVE  LET cast == {i \in rivals \cap Table!Written : i <= time} IN
           Table!CountAt(time, rivals) = {i \in cast : \A j \in cast : j <= i}
<1> DEFINE W == rivals \cap Table!Written
           cast == {i \in W : i <= time}
<1>1. Positions \subseteq Nat /\ W \subseteq Nat /\ time \in Nat
  <2>1. Positions \subseteq Nat
    BY DEF Positions, QueueAssumption
  <2> QED
    BY <2>1
<1>2. /\ \A i \in W : votes[i] = Table!Current <=> \A j \in W : j <= i
      /\ \A i \in W : votes[i] # Table!Current =>
            /\ votes[i].at \in W /\ votes[i].at > i
            /\ \A j \in W : j > i => votes[i].at <= j
  BY DEF NewestIsCurrent, Chained
<1>3. Table!CountAt(time, rivals) =
         {i \in W : i <= time /\ (votes[i] = Table!Current \/ votes[i].at > time)}
  BY DEF Table!CountAt, Table!Written
<1> HIDE DEF W
<1>4. ASSUME NEW i \in W, i <= time
      PROVE  (votes[i] = Table!Current \/ votes[i].at > time) <=> \A j \in cast : j <= i
  <2>1. CASE votes[i] = Table!Current
    BY <1>2, <2>1
  <2>2. CASE votes[i] # Table!Current
    <3>1. /\ votes[i].at \in W /\ votes[i].at \in Nat /\ votes[i].at > i /\ i \in Nat
          /\ \A j \in W : j > i => votes[i].at <= j
      BY <1>1, <1>2, <2>2
    <3>2. ASSUME votes[i].at > time, NEW j \in cast PROVE j <= i
      BY <1>1, <3>1, <3>2
    <3>3. ASSUME ~(votes[i].at > time) PROVE votes[i].at \in cast /\ ~(votes[i].at <= i)
      BY <1>1, <3>1, <3>3
    <3> QED
      BY <2>2, <3>2, <3>3
  <2> QED
    BY <2>1, <2>2
<1>5. Table!CountAt(time, rivals) = {i \in cast : \A j \in cast : j <= i}
  BY <1>3, <1>4
<1> QED
  BY <1>5 DEF W

-----------------------------------------------------------------------------
(* The theorems.                                                           *)

Inv == Shape /\ VotesOK /\ ActionsFirst /\ TallyOK

LEMMA InvInductive == (Init => Inv) /\ (Inv /\ [Next]_vars => Inv')
<1>1. ASSUME Init PROVE Inv
  <2>1. Shape
    BY <1>1, ShapeInit
  <2>2. Table!Written = {}
    BY <1>1 DEF Init, Table!VotesInit, Table!Written
  <2>3. VotesOK
    BY <1>1, <2>2
    DEF Init, QueueInit, VotesOK, Casts, CurrentIsNewest, DerivedVoteIsWritten, Ready
  <2>4. ActionsFirst
    BY <1>1 DEF Init, ActionsFirst, PctMeansActions, AtRest
  <2>5. TallyOK
    BY <1>1, <2>2 DEF Init, QueueInit, TallyOK, ArchivedInOrder, Archived, InOrder, PrefixOK, Chained
  <2> QED
    BY <2>1, <2>3, <2>4, <2>5 DEF Inv
<1>2. ASSUME Inv, Next PROVE Inv'
  <2>1. Shape'
    BY <1>2, ShapeStep DEF Inv, VotesOK
  <2> QED
    BY <1>2, <2>1, VotesStep, ActionsStep, TallyStep DEF Inv
<1>3. ASSUME Inv, UNCHANGED vars PROVE Inv'
  <2>1. UNCHANGED <<queueVars, rowVars, tableVars, reconcileVars, log, received, faults, batch,
                    derived, state, votes, stage, onchain, actions, pct, at, rows, tick,
                    checked, ops, early>>
    BY <1>3 DEF vars, queueVars, rowVars, tableVars, reconcileVars
  <2>2. Shape'
    BY <1>3, <2>1
    DEF Inv, Shape, QueueShape, TypeOK, QueueTypeOK, Archived, StateTypeOK, Table!VoteTypeOK,
        rowVars
  <2>3. Table!Written' = Table!Written /\ First' = First /\ Row' = Row
    BY <2>1 DEF Table!Written, Table!Unwritten, First, Row, Precedes
  <2>4. VotesOK'
    <3>1. \A p \in Proposals : Rivals(p)' = Rivals(p) /\ (Exists(p) <=> Exists(p)')
      BY <2>1 DEF Rivals, Exists
    <3>2. Casts' /\ CurrentIsNewest' /\ DerivedVoteIsWritten'
      BY <1>3, <2>1, <2>3, <3>1
      DEF Inv, VotesOK, Casts, CurrentIsNewest, DerivedVoteIsWritten, Table!Current
    <3>3. Ready'
      <4> HIDE DEF First, Row
      <4> QED
        BY <1>3, <2>1, <2>3 DEF Inv, VotesOK, Ready, Exists
    <3> QED
      BY <3>2, <3>3 DEF VotesOK
  <2>5. ActionsFirst'
    BY <1>3, <2>1 DEF Inv, ActionsFirst, PctMeansActions
  <2>6. TallyOK'
    <3>1. \A p \in Proposals : Rivals(p)' = Rivals(p)
      BY <2>1 DEF Rivals
    <3>2. ArchivedInOrder'
      BY <1>3, <2>1 DEF Inv, TallyOK, ArchivedInOrder, Archived
    <3>3. InOrder' => PrefixOK' /\ \A p \in Proposals : Chained(Rivals(p))'
      BY <1>3, <2>1, <2>3, <3>1 DEF Inv, TallyOK, InOrder, PrefixOK, Chained, Table!Current
    <3> QED
      BY <1>3, <2>1, <3>2, <3>3 DEF Inv, TallyOK
  <2> QED
    BY <2>2, <2>4, <2>5, <2>6 DEF Inv
<1> QED
  BY <1>1, <1>2, <1>3

\* The queue, the two tables and the reconcile tick stay well typed, and what
\* the reconciler writes is a state.
THEOREM TypeCorrect == Spec => []TypeOK
<1>1. Inv => TypeOK
  BY DEF Inv, Shape
<1> QED
  BY <1>1, InvInductive, PTL DEF Spec

\* ADR-0021, as the vote applier keeps it: of the written votes of a voter on
\* a proposal the newest is current and no other, whatever failed, was retried
\* or replayed, and in whatever order the rows came.
THEOREM NewestVoteCounts == Spec => []CurrentIsNewest
<1>1. Inv => CurrentIsNewest
  BY DEF Inv, VotesOK
<1> QED
  BY <1>1, InvInductive, PTL DEF Spec

\* The vote applier writes to one database and marks in another: a row marked
\* as derived has its vote in the vote table, wherever the applier stopped.
THEOREM NoVoteIsLost == Spec => []DerivedVoteIsWritten
<1>1. Inv => DerivedVoteIsWritten
  BY DEF Inv, VotesOK
<1> QED
  BY <1>1, InvInductive, PTL DEF Spec

\* ADR-0021's tally at any time: among the votes cast up to a time the last one of
\* the voter counts and no other, though the rows are only superseded one by one and
\* every statement may fail, as long as the rows came in order and the operator
\* replayed nothing.
THEOREM TallyCounts == Spec => []TallyAtAnyTime
<1>1. ASSUME Inv, InOrder, NEW p \in Proposals, NEW time \in Positions
      PROVE  LET cast == {i \in Rivals(p) \cap Table!Written : i <= time} IN
             Table!CountAt(time, Rivals(p)) = {i \in cast : \A j \in cast : j <= i}
  <2>0. Shape
    BY <1>1 DEF Inv
  <2>1. PICK R \in SUBSET Positions : R = Rivals(p)
    <3>1. Rivals(p) \in SUBSET Positions
      BY <2>0 DEF Rivals, Shape, TypeOK, QueueShape, QueueTypeOK, Positions
    <3> QED
      BY <3>1
  <2>2. NewestIsCurrent(R) /\ Chained(R) /\ Table!VoteTypeOK
    BY <1>1, <2>1 DEF Inv, VotesOK, CurrentIsNewest, NewestIsCurrent, TallyOK, Shape, TypeOK
  <2> QED
    BY <2>1, <2>2, ChainTellsTally
<1>2. Inv => TallyAtAnyTime
  BY <1>1 DEF TallyAtAnyTime, InOrder
<1> QED
  BY <1>2, InvInductive, PTL DEF Spec

\* The reconciler may skip a proposal whose percentages are filled: its actions
\* are in.
THEOREM PctComesLast == Spec => []PctMeansActions
<1>1. Inv => PctMeansActions
  BY DEF Inv, ActionsFirst
<1> QED
  BY <1>1, InvInductive, PTL DEF Spec

\* Once the row shows an execution neither a late event nor the reconciler,
\* however old what it has read, takes it back.
THEOREM ExecutionStays == Spec => ExecutedIsFinal
<1>1. ASSUME TypeOK, [Next]_vars, NEW p \in Proposals, state[p] = "executed"
      PROVE  state'[p] = "executed"
  <2>1. state \in [Proposals -> States \cup {"none"}]
    BY <1>1 DEF TypeOK, StateTypeOK
  <2>2. CASE ApplyRow
    <3>1. (\E t : InsertProposal(Row.id, t)) \/ AdvanceState(Row.id, "executed")
      BY <2>2 DEF ApplyRow
    <3> QED
      BY <1>1, <2>1, <3>1 DEF InsertProposal, AdvanceState, Exists
  <2>3. CASE WriteState
    BY <1>1, <2>1, <2>3 DEF WriteState, Correct, ReconcileState
  <2>4. state' = state \/ ApplyRow \/ WriteState
    BY <1>1
    DEF Next, Worker, Reconciler, Contract, ArchiveRow, RowFails, RunFails, DlqRetry, Replay,
        BeginReconcile, CheckVote, EnrichRow, ReconcileFails, GapPasses, Restart, Begin,
        WriteVote, MarkVote, NoProposal, vars, queueVars, tableVars
  <2> QED
    BY <1>1, <2>2, <2>3, <2>4
<1>2. TypeOK /\ [Next]_vars =>
        [\A p \in Proposals : state[p] = "executed" => state'[p] = "executed"]_vars
  BY <1>1
<1>3. Inv => TypeOK
  BY DEF Inv, Shape
<1> QED
  BY <1>2, <1>3, InvInductive, PTL DEF Spec, ExecutedIsFinal
=============================================================================
