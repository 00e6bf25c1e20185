--------------------------- MODULE IngestionProofs ---------------------------
(***************************************************************************)
(* Proofs about the ingestion of an EVM source, for every set of logs,     *)
(* head lag, chunk size and number of failures: EventPoller by itself,     *)
(* BackfillDriver by itself, and LogIngestion, where the two share a       *)
(* cursor and a process.  Only the part about the last uses its assumption *)
(* that both read the logs of one source.                                  *)
(***************************************************************************)
EXTENDS LogIngestion, TLAPS

-----------------------------------------------------------------------------
(* EventPoller.                                                            *)

USE DEF NoBlock, Unloaded, Blocks, ChainTypeOK

(* The confirmed head is a block at or below the tip. *)
LEMMA PollerHeadType ==
    ASSUME ChainTypeOK
    PROVE  ConfirmedHead \in Blocks /\ ConfirmedHead <= tip
  BY ChainAssumption DEF ConfirmedHead

(* A chain step never lowers the confirmed head, and leaves every log up to *)
(* it as it was: on the chain or not.                                       *)
LEMMA PollerChainStep ==
    ASSUME ChainTypeOK, ChainNext
    PROVE  /\ ChainTypeOK'
           /\ ConfirmedHead <= ConfirmedHead'
           /\ \A l \in Logs : BlockOf[l] <= ConfirmedHead =>
                                  (Canonical(l)' <=> Canonical(l))
           /\ \A a, b \in Nat : b <= ConfirmedHead =>
                                  LogsIn(a, b)' = LogsIn(a, b)
  <1>1. CASE Mine
    <2>1. ChainTypeOK' /\ ConfirmedHead <= ConfirmedHead'
      BY <1>1, ChainAssumption DEF Mine, ConfirmedHead
    <2>2. \A l \in Logs : Canonical(l)' <=> Canonical(l)
      BY <1>1 DEF Mine, Canonical
    <2>3. ASSUME NEW a \in Nat, NEW b \in Nat, b <= ConfirmedHead
          PROVE  LogsIn(a, b)' = LogsIn(a, b)
      BY <1>1, <2>2, <2>3, PollerHeadType, ChainAssumption DEF Mine, LogsIn
    <2> QED BY <2>1, <2>2, <2>3
  <1>2. CASE Reorg
    <2>1. PICK b0 \in Blocks :
              /\ ConfirmedHead < b0 /\ b0 <= tip
              /\ canon' = [x \in Blocks |->
                             IF b0 <= x /\ x <= tip THEN 1 ELSE canon[x]]
              /\ UNCHANGED tip
      BY <1>2 DEF Reorg
    <2>2. ChainTypeOK' /\ ConfirmedHead' = ConfirmedHead
      BY <2>1 DEF ConfirmedHead
    <2>3. ASSUME NEW l \in Logs, BlockOf[l] <= ConfirmedHead
          PROVE  Canonical(l)' <=> Canonical(l)
      BY <2>1, <2>3, PollerHeadType, ChainAssumption DEF Canonical
    <2>4. ASSUME NEW a \in Nat, NEW b \in Nat, b <= ConfirmedHead
          PROVE  LogsIn(a, b)' = LogsIn(a, b)
      <3>1. \A l \in Logs : BlockOf[l] <= b => BlockOf[l] <= ConfirmedHead
        BY <2>4, PollerHeadType, ChainAssumption
      <3> QED BY <2>1, <2>3, <3>1 DEF LogsIn
    <2> QED BY <2>2, <2>3, <2>4, PollerHeadType
  <1> QED BY <1>1, <1>2 DEF ChainNext

-----------------------------------------------------------------------------

(* Initial states satisfy the invariant. *)
LEMMA PollerInvInit == PollerInit => PollerInv
  <1> SUFFICES ASSUME PollerInit PROVE PollerInv
    OBVIOUS
  <1>1. cursor \in Blocks \cup {NoBlock} /\ origin \in Nat
    BY ChainAssumption, PollerAssumption DEF PollerInit, ChainInit
  <1>2. PollerTypeOK
    BY <1>1, ChainAssumption, PollerAssumption DEF PollerInit, ChainInit, PollerTypeOK
  <1>3. MirrorInv /\ TickInv /\ CursorInv
    BY <1>1, ChainAssumption, PollerAssumption
    DEF PollerInit, ChainInit, MirrorInv, TickInv, CursorInv
  <1>4. CursorCovered /\ SentIsFinal /\ \A l \in seen : sent[l] > 0
    BY <1>1, ChainAssumption DEF PollerInit, CursorCovered, SentIsFinal
  <1> QED BY <1>2, <1>3, <1>4 DEF PollerInv

(* The range a tick resolves is a confirmed one, just past the mirror. *)
LEMMA RangeType ==
    ASSUME PollerInv, pc = "walk", RangeFrom <= head
    PROVE  /\ Watermark \in Blocks \cup {NoBlock} /\ Watermark <= cursor
           /\ RangeFrom \in Nat /\ RangeTo \in Blocks
           /\ RangeFrom <= RangeTo /\ RangeTo <= head
           /\ IF Watermark = NoBlock THEN RangeTo = head ELSE RangeFrom = Watermark + 1
           /\ Watermark = NoBlock => cursor <= head /\ cursor <= ConfirmedHead
  BY PollerHeadType, ChainAssumption, PollerAssumption
  DEF PollerInv, PollerTypeOK, MirrorInv, Watermark, RangeFrom, RangeTo, HeadWindowFrom

(* Steps of the chain. *)
LEMMA ChainStepInv ==
    ASSUME PollerInv, ChainNext,
           UNCHANGED <<dbVars, pc, mem, tickVars, firstHead, faults, origin>>
    PROVE  PollerInv'
  <1> USE DEF dbVars, tickVars, rangeVars
  <1>1. PollerTypeOK'
    BY PollerChainStep DEF PollerInv, PollerTypeOK
  <1>2. ConfirmedHead \in Nat /\ ConfirmedHead' \in Nat
        /\ ConfirmedHead <= ConfirmedHead'
    BY PollerHeadType, PollerChainStep, ChainAssumption
    DEF PollerInv, PollerTypeOK, ConfirmedHead
  <1>3. TickInv'
    <2>1. pc' \in {"walk", "dispatch"} => head' <= ConfirmedHead'
      BY <1>2 DEF PollerInv, PollerTypeOK, TickInv
    <2>2. pc = "dispatch" => LogsIn(from, to)' = LogsIn(from, to)
      <3> SUFFICES ASSUME pc = "dispatch"
                   PROVE  LogsIn(from, to)' = LogsIn(from, to)
        OBVIOUS
      <3>1. from \in Nat /\ to \in Nat /\ to <= ConfirmedHead
        BY <1>2, ChainAssumption DEF PollerInv, PollerTypeOK, TickInv
      <3>2. from' = from /\ to' = to
        OBVIOUS
      <3> QED BY <3>1, <3>2, PollerChainStep DEF PollerInv, PollerTypeOK, LogsIn
    <2> QED BY <2>1, <2>2 DEF PollerInv, TickInv
  <1>4. CursorInv' /\ MirrorInv'
    BY <1>2, ChainAssumption DEF PollerInv, PollerTypeOK, CursorInv, MirrorInv
  <1>5. CursorCovered' /\ SentIsFinal'
    <2>1. \A l \in Logs : BlockOf[l] \in Nat
      BY ChainAssumption
    <2>2. CursorCovered'
      BY <1>2, <2>1, PollerChainStep, PollerAssumption
      DEF PollerInv, PollerTypeOK, CursorInv, CursorCovered
    <2>3. SentIsFinal'
      BY <1>2, <2>1, PollerChainStep DEF PollerInv, PollerTypeOK, SentIsFinal
    <2> QED BY <2>2, <2>3
  <1> QED BY <1>1, <1>3, <1>4, <1>5 DEF PollerInv


(* Steps that touch only the poller's memory: nothing is sent or written. *)
LEMMA MemoryStepInv ==
    ASSUME PollerInv,
           \/ Start \/ Stop \/ BeginTick \/ NothingToPoll
           \/ FetchFails \/ ProduceFails
    PROVE  PollerInv'
  <1> USE DEF PollerInv, Start, Stop, BeginTick, NothingToPoll, FetchFails,
              ProduceFails, EndTick, EndRange, Fault, dbVars, tickVars,
              rangeVars, chainVars
  <1>1. ConfirmedHead' = ConfirmedHead /\ ConfirmedHead \in Blocks
    BY PollerHeadType DEF PollerTypeOK, ConfirmedHead
  <1>2. PollerTypeOK' /\ MirrorInv'
    <2>1. Watermark \in {mem, cursor} /\ 0 \in Blocks
      BY ChainAssumption DEF Watermark
    <2>2. mem' \in {Unloaded, mem, cursor} /\ cursor' = cursor
      BY <2>1
    <2>3. UNCHANGED <<tip, canon, cursor, seen, sent, origin>>
      OBVIOUS
    <2>4. head' \in Blocks /\ chunk' \in Nat /\ from' \in Nat /\ to' \in Blocks
          /\ pending' \in SUBSET Logs
      BY <1>1, <2>1, SMTT(60) DEF PollerTypeOK
    <2>5. pc' \in {"down", "idle", "walk", "dispatch"}
      BY DEF PollerTypeOK
    <2>6. firstHead' \in Blocks \cup {NoBlock} /\ faults' \in Nat
      BY DEF PollerTypeOK
    <2>7. mem' \in Blocks \cup {NoBlock, Unloaded}
      BY <2>2 DEF PollerTypeOK
    <2>8. PollerTypeOK /\ PollerInv
      OBVIOUS
    <2>9. MirrorInv'
      <3>1. MirrorInv
        OBVIOUS
      <3>2. cursor \in Blocks \cup {NoBlock} /\ mem \in Blocks \cup {NoBlock, Unloaded}
        BY DEF PollerTypeOK
      <3>3. pc' \in {"walk", "dispatch"} => head' = ConfirmedHead /\ mem' = mem
        BY <1>1
      <3> HIDE DEF PollerInv, Start, Stop, BeginTick, NothingToPoll, FetchFails,
                   ProduceFails
      <3> QED BY <1>1, <2>2, <3>1, <3>2, <3>3, ChainAssumption DEF MirrorInv
    <2> HIDE DEF PollerInv, Start, Stop, BeginTick, NothingToPoll, FetchFails,
                ProduceFails
    <2> QED BY <2>3, <2>4, <2>5, <2>6, <2>7, <2>8, <2>9 DEF PollerTypeOK
  <1>3. TickInv'
    BY <1>1 DEF PollerTypeOK, TickInv
  <1>4. CursorInv' /\ CursorCovered' /\ SentIsFinal'
    BY <1>1 DEF CursorInv, CursorCovered, SentIsFinal, Canonical
  <1> QED BY <1>2, <1>3, <1>4

(* The logs fetched are those of a confirmed range. *)
LEMMA FetchRangeInv ==
    ASSUME PollerInv, FetchRange PROVE PollerInv'
  <1> USE DEF PollerInv, FetchRange, dbVars, chainVars
  <1>1. ConfirmedHead' = ConfirmedHead /\ ConfirmedHead \in Blocks
    BY PollerHeadType DEF PollerTypeOK, ConfirmedHead
  <1>2. PollerTypeOK'
    BY RangeType DEF PollerTypeOK, LogsIn
  <1>3. MirrorInv'
    BY <1>1, RangeType DEF MirrorInv
  <1>4. TickInv'
    BY <1>1, RangeType DEF PollerTypeOK, TickInv, LogsIn, Canonical
  <1>5. CursorInv' /\ CursorCovered' /\ SentIsFinal'
    BY <1>1 DEF CursorInv, CursorCovered, SentIsFinal, Canonical
  <1> QED BY <1>2, <1>3, <1>4, <1>5

(* A transaction sends a log of the range, unless seen_log has it: then it *)
(* was sent before.                                                        *)
LEMMA ProduceLogInv ==
    ASSUME PollerInv, ProduceLog PROVE PollerInv'
  <1> USE DEF PollerInv, chainVars
  <1>1. ConfirmedHead' = ConfirmedHead /\ ConfirmedHead \in Blocks
    BY PollerHeadType DEF ProduceLog, PollerTypeOK, ConfirmedHead
  <1>2. PICK l \in pending :
            /\ sent' = IF RecordIfNew(l) THEN [sent EXCEPT ![l] = @ + 1]
                                         ELSE sent
            /\ seen' = seen \cup {l}
            /\ pending' = pending \ {l}
    BY DEF ProduceLog
  <1>3. l \in Logs /\ l \in LogsIn(from, to)
    BY <1>2 DEF ProduceLog, PollerTypeOK, TickInv
  <1>4. PollerTypeOK' /\ MirrorInv' /\ CursorInv'
    BY <1>1, <1>2, <1>3 DEF ProduceLog, PollerTypeOK, MirrorInv, CursorInv
  <1>5. sent'[l] > 0 /\ \A m \in Logs : sent[m] > 0 => sent'[m] > 0
    BY <1>2, <1>3 DEF PollerTypeOK, RecordIfNew
  <1>6. \A m \in Logs : m # l => sent'[m] = sent[m]
    BY <1>2, <1>3 DEF PollerTypeOK
  <1>7. TickInv' /\ CursorCovered' /\ \A m \in seen' : sent'[m] > 0
    BY <1>1, <1>2, <1>3, <1>5
    DEF ProduceLog, PollerTypeOK, TickInv, CursorCovered, LogsIn, Canonical
  <1>8. SentIsFinal'
    <2>1. Canonical(l) /\ BlockOf[l] <= ConfirmedHead
      BY <1>1, <1>3, ChainAssumption
      DEF ProduceLog, PollerTypeOK, TickInv, LogsIn
    <2> QED BY <1>1, <1>6, <2>1 DEF ProduceLog, SentIsFinal, Canonical
  <1> QED BY <1>4, <1>7, <1>8

(* Every log of the range was accepted, so the cursor may cover it, whether *)
(* the poller is told that it does or not.                                  *)
LEMMA AdvanceCursorInv ==
    ASSUME PollerInv, AdvanceCursor \/ AdvanceCursorFails PROVE PollerInv'
  <1> USE DEF PollerInv, AdvanceCursor, AdvanceCursorFails, Persist, RangeAccepted,
              EndTick, EndRange, Fault, chainVars
  <1>1. ConfirmedHead' = ConfirmedHead /\ ConfirmedHead \in Blocks
    BY PollerHeadType DEF PollerTypeOK, ConfirmedHead
  <1>2. \A l \in LogsIn(from, to) \ Malformed : sent[l] > 0
    BY DEF TickInv
  <1>3. PollerTypeOK'
    <2>1. (from..to) \subseteq Blocks /\ 0 \in Blocks
      BY ChainAssumption DEF PollerTypeOK
    <2>2. cursor' \in Blocks \cup {NoBlock} /\ mem' \in Blocks \cup {NoBlock, Unloaded}
      BY DEF PollerTypeOK, WritePollCursor
    <2>3. UNCHANGED <<tip, canon, seen, sent>>
      OBVIOUS
    <2>4. head' \in Blocks /\ chunk' \in Nat /\ from' \in Nat /\ to' \in Blocks
          /\ pending' \in SUBSET Logs
      BY <2>1 DEF PollerTypeOK
    <2>5. pc' \in {"down", "idle", "walk", "dispatch"}
      BY DEF PollerTypeOK
    <2>6. firstHead' \in Blocks \cup {NoBlock} /\ faults' \in Nat
      BY DEF PollerTypeOK
    <2>7. origin' \in Nat
      BY DEF PollerTypeOK
    <2>8. PollerTypeOK
      OBVIOUS
    <2> HIDE DEF PollerInv, AdvanceCursor, AdvanceCursorFails, RangeAccepted
    <2> QED BY <2>2, <2>3, <2>4, <2>5, <2>6, <2>7, <2>8 DEF PollerTypeOK
  <1>4. TickInv'
    BY <1>1 DEF PollerTypeOK, TickInv
  <1>5. SentIsFinal' /\ \A l \in seen' : sent'[l] > 0
    BY <1>1 DEF SentIsFinal, Canonical
  <1>6. CASE Persist
    <2>1. /\ cursor' = IF cursor > to THEN cursor ELSE to
          /\ origin' = IF mem = NoBlock THEN from ELSE origin
          /\ mem' \in {mem, to}
      BY <1>6 DEF WritePollCursor
    <2>2. /\ cursor \in Blocks \cup {NoBlock} /\ mem \in Blocks \cup {NoBlock}
          /\ from \in Nat /\ to \in Blocks /\ head \in Blocks /\ origin \in Nat
          /\ IF mem = NoBlock THEN to = head /\ cursor <= head ELSE from = mem + 1
          /\ mem <= cursor /\ from <= to /\ to <= head /\ head <= ConfirmedHead
      BY DEF PollerTypeOK, TickInv, MirrorInv
    <2> HIDE DEF PollerInv, AdvanceCursor, AdvanceCursorFails, Persist, RangeAccepted
    <2>3. pc' = "idle" \/ (pc' = "walk" /\ to < head)
      BY DEF AdvanceCursor, AdvanceCursorFails, RangeAccepted
    <2>4. MirrorInv'
      BY <1>1, <2>1, <2>2, <2>3, ChainAssumption DEF MirrorInv
    <2>5. CursorInv'
      BY <1>1, <2>1, <2>2, ChainAssumption DEF PollerInv, CursorInv
    <2>6. UNCHANGED <<canon, sent, tip>> /\ tip \in Blocks
      BY DEF PollerInv, PollerTypeOK, AdvanceCursor, AdvanceCursorFails, RangeAccepted
    <2>7. CursorCovered'
      <3> SUFFICES ASSUME NEW l \in Logs \ Malformed, Canonical(l),
                          origin' <= BlockOf[l], BlockOf[l] <= cursor'
                   PROVE  sent[l] > 0
        BY <2>6 DEF CursorCovered, Canonical
      <3>1. BlockOf[l] \in Nat
        BY ChainAssumption
      <3>2. CASE from <= BlockOf[l] /\ BlockOf[l] <= to
        <4>1. BlockOf[l] <= tip
          BY <1>1, <2>2, <2>6, <3>1, <3>2, PollerHeadType DEF PollerInv, PollerTypeOK
        <4> QED BY <1>2, <3>2, <4>1 DEF LogsIn
      <3>3. CASE mem # NoBlock /\ BlockOf[l] <= cursor
        BY <2>1, <3>3 DEF PollerInv, CursorCovered
      <3> QED BY <2>1, <2>2, <3>1, <3>2, <3>3
    <2> QED BY <1>3, <1>4, <1>5, <2>4, <2>5, <2>7 DEF PollerInv
  <1>7. CASE AdvanceCursorFails /\ UNCHANGED <<cursor, origin>>
    <2>1. MirrorInv'
      BY <1>1, <1>7 DEF MirrorInv, TickInv
    <2> QED
      BY <1>1, <1>3, <1>4, <1>5, <1>7, <2>1 DEF CursorInv, CursorCovered, Canonical
  <1> QED BY <1>6, <1>7

(* Pruning forgets what was seen, never what was sent. *)
LEMMA PruneInv ==
    ASSUME PollerInv, Prune PROVE PollerInv'
  <1> USE DEF PollerInv, Prune, chainVars, tickVars, rangeVars
  <1>1. ConfirmedHead' = ConfirmedHead
    BY DEF ConfirmedHead
  <1> QED BY <1>1
      DEF PollerTypeOK, MirrorInv, TickInv, CursorInv, CursorCovered, SentIsFinal,
          Canonical, LogsIn

LEMMA StutterInv ==
    ASSUME PollerInv, UNCHANGED pollerVars PROVE PollerInv'
  BY DEF PollerInv, pollerVars, chainVars, dbVars, tickVars, rangeVars, PollerTypeOK,
         MirrorInv, TickInv, CursorInv, CursorCovered, SentIsFinal, Canonical,
         LogsIn, ConfirmedHead

LEMMA PollerInvStep == PollerInv /\ [PollerNext]_pollerVars => PollerInv'
  <1> SUFFICES ASSUME PollerInv, [PollerNext]_pollerVars PROVE PollerInv'
    OBVIOUS
  <1>1. CASE \/ Start \/ Stop \/ BeginTick \/ NothingToPoll
             \/ FetchFails \/ ProduceFails
    BY <1>1, MemoryStepInv
  <1>2. CASE FetchRange
    BY <1>2, FetchRangeInv
  <1>3. CASE ProduceLog
    BY <1>3, ProduceLogInv
  <1>4. CASE AdvanceCursor \/ AdvanceCursorFails
    BY <1>4, AdvanceCursorInv
  <1>5. CASE Prune
    BY <1>5, PruneInv
  <1>6. CASE ChainNext /\ UNCHANGED <<dbVars, pc, mem, tickVars, firstHead,
                                      faults, origin>>
    BY <1>6, ChainStepInv
  <1>7. CASE UNCHANGED pollerVars
    BY <1>7, StutterInv
  <1> QED BY <1>1, <1>2, <1>3, <1>4, <1>5, <1>6, <1>7
          DEF PollerNext, PollerStep, Tick, PollerFaults

THEOREM PollerInvariance == PollerSpec => []PollerInv
  BY PollerInvInit, PollerInvStep, PTL DEF PollerSpec

(* Types: every variable stays in the set that TypeOK gives it. *)
THEOREM PollerTypeCorrect == PollerSpec => []PollerTypeOK
  <1>1. PollerInv => PollerTypeOK
    BY DEF PollerInv
  <1> QED BY <1>1, PollerInvariance, PTL

(* The durability contract of EventPoller: no failed call, crash, prune or *)
(* reorganisation leaves a log behind the cursor that was never queued.    *)
THEOREM NoSilentHole == PollerSpec => []CursorCovered
  <1>1. PollerInv => CursorCovered
    BY DEF PollerInv
  <1> QED BY <1>1, PollerInvariance, PTL

(* The premise of ADR-0058: what is queued is on the chain for good. *)
THEOREM OnlyFinalLogsAreSent == PollerSpec => []SentIsFinal
  <1>1. PollerInv => SentIsFinal
    BY DEF PollerInv
  <1> QED BY <1>1, PollerInvariance, PTL

-----------------------------------------------------------------------------

(* Only the end of a range writes the cursor, never backwards, and the      *)
(* mirror is not past it.                                                   *)
LEMMA PollerCursorStep ==
    PollerInv /\ [PollerNext]_pollerVars => cursor' >= cursor /\ mem' <= cursor'
  <1> SUFFICES ASSUME PollerInv, [PollerNext]_pollerVars
               PROVE  cursor' >= cursor /\ mem' <= cursor'
    OBVIOUS
  <1>1. cursor \in Blocks \cup {NoBlock} /\ to \in Blocks
    BY DEF PollerInv, PollerTypeOK
  <1>2. mem' <= cursor'
    BY PollerInvStep DEF PollerInv, MirrorInv
  <1>3. CASE WritePollCursor(to)
    BY <1>1, <1>2, <1>3, ChainAssumption DEF WritePollCursor
  <1>4. cursor' = cursor \/ WritePollCursor(to)
    BY DEF PollerNext, PollerStep, Tick, PollerFaults, Start, Stop, BeginTick,
           NothingToPoll, FetchRange, FetchFails, ProduceLog, ProduceFails,
           AdvanceCursor, AdvanceCursorFails, Persist, Prune, dbVars, pollerVars
  <1> QED BY <1>1, <1>2, <1>3, <1>4, ChainAssumption

(* Crashes and failed writes cost work, never blocks: the durable cursor is *)
(* never lowered and the mirror never runs ahead of it.                     *)
THEOREM CursorNeverLost == PollerSpec => CursorIsDurable
  <1>1. PollerInv /\ [PollerNext]_pollerVars => [cursor' >= cursor /\ mem' <= cursor']_pollerVars
    BY PollerCursorStep
  <1> QED BY <1>1, PollerInvariance, PTL DEF PollerSpec, CursorIsDurable

(* A log leaves seen_log only through Prune, and the horizon never recedes. *)
LEMMA ForgottenStep == PollerInv /\ ForgottenInv /\ [PollerNext]_pollerVars => ForgottenInv'
  <1> SUFFICES ASSUME PollerInv, ForgottenInv, [PollerNext]_pollerVars
               PROVE  ForgottenInv'
    OBVIOUS
  <1>1. ConfirmedHead \in Nat /\ \A l \in Logs : BlockOf[l] \in Nat
    BY PollerHeadType, ChainAssumption DEF PollerInv, PollerTypeOK
  <1>2. CASE ProduceLog
    <2>1. PICK l \in pending :
              /\ sent' = IF RecordIfNew(l) THEN [sent EXCEPT ![l] = @ + 1]
                                           ELSE sent
              /\ seen' = seen \cup {l}
      BY <1>2 DEF ProduceLog
    <2>2. \A m \in Logs : m # l => sent'[m] = sent[m]
      BY <2>1 DEF PollerInv, PollerTypeOK
    <2>3. PruneHorizon' = PruneHorizon
      BY <1>2 DEF ProduceLog, chainVars, PruneHorizon, ConfirmedHead
    <2> QED BY <2>1, <2>2, <2>3 DEF ForgottenInv
  <1>3. CASE Prune
    <2>1. PruneHorizon' = PruneHorizon
      BY <1>3 DEF Prune, chainVars, PruneHorizon, ConfirmedHead
    <2>2. PruneHorizon \in Int
      BY <1>1, ChainAssumption, PollerAssumption DEF PruneHorizon
    <2> QED BY <1>1, <1>3, <2>1, <2>2 DEF Prune, ForgottenInv
  <1>4. CASE ChainNext /\ UNCHANGED <<dbVars, pc, mem, tickVars, firstHead,
                                      faults, origin>>
    <2>1. ConfirmedHead' \in Nat /\ ConfirmedHead <= ConfirmedHead'
      BY <1>4, PollerChainStep, PollerHeadType, ChainAssumption
      DEF PollerInv, PollerTypeOK, ConfirmedHead
    <2>2. HeadLag \in Nat /\ PruneMargin \in Nat
      BY ChainAssumption, PollerAssumption
    <2>3. PruneHorizon <= PruneHorizon'
          /\ PruneHorizon \in Int /\ PruneHorizon' \in Int
      <3> DEFINE h1 == ConfirmedHead
                 h2 == ConfirmedHead'
      <3>1. PruneHorizon = h1 - 2 * HeadLag - PruneMargin
        BY DEF PruneHorizon
      <3>2. PruneHorizon' = h2 - 2 * HeadLag - PruneMargin
        BY DEF PruneHorizon
      <3>3. h1 \in Nat /\ h2 \in Nat /\ h1 <= h2
        BY <1>1, <2>1
      <3> HIDE DEF h1, h2
      <3> QED BY <2>2, <3>1, <3>2, <3>3
    <2> QED BY <1>1, <1>4, <2>3 DEF ForgottenInv, dbVars
  <1>5. CASE UNCHANGED <<chainVars, seen, sent>>
    BY <1>5 DEF ForgottenInv, PruneHorizon, ConfirmedHead, chainVars
  <1>6. \/ UNCHANGED <<chainVars, seen, sent>>
        \/ ProduceLog \/ Prune
        \/ ChainNext /\ UNCHANGED <<dbVars, pc, mem, tickVars, firstHead,
                                     faults, origin>>
    BY DEF PollerNext, PollerStep, Tick, PollerFaults, Start, Stop, BeginTick,
           NothingToPoll, FetchRange, FetchFails, ProduceFails, RangeAccepted,
           AdvanceCursor, AdvanceCursorFails, dbVars, pollerVars
  <1> QED BY <1>2, <1>3, <1>4, <1>5, <1>6

(* A log that is sent again was sent, is not in seen_log, and so is behind  *)
(* the horizon.                                                             *)
LEMMA ResendStep ==
    PollerInv /\ ForgottenInv /\ [PollerNext]_pollerVars =>
        \A l \in Logs :
            sent[l] > 0 /\ sent'[l] > sent[l] => BlockOf[l] < PruneHorizon
  <1> SUFFICES ASSUME PollerInv, ForgottenInv, [PollerNext]_pollerVars, NEW l \in Logs,
                      sent[l] > 0, sent'[l] > sent[l]
               PROVE  BlockOf[l] < PruneHorizon
    OBVIOUS
  <1>1. sent[l] \in Nat
    BY DEF PollerInv, PollerTypeOK
  <1>2. sent' = sent \/ ProduceLog
    BY DEF PollerNext, PollerStep, Tick, PollerFaults, Start, Stop, BeginTick,
           NothingToPoll, FetchRange, FetchFails, ProduceFails, RangeAccepted,
           AdvanceCursor, AdvanceCursorFails, Prune, dbVars, pollerVars
  <1>3. CASE ProduceLog
    <2>1. PICK m \in pending :
              sent' = IF RecordIfNew(m) THEN [sent EXCEPT ![m] = @ + 1] ELSE sent
      BY <1>3 DEF ProduceLog
    <2>2. m = l /\ RecordIfNew(l)
      BY <1>1, <2>1 DEF PollerInv, PollerTypeOK
    <2> QED BY <2>2 DEF RecordIfNew, ForgottenInv
  <1> QED BY <1>1, <1>2, <1>3

(* seen_log keeps its promise down to the prune horizon: no log at or above *)
(* it is given to the archive queue a second time.                          *)
THEOREM NoResendAboveHorizon == PollerSpec => ResentOnlyBelowHorizon
  <1>1. PollerInit => ForgottenInv
    BY DEF PollerInit, ForgottenInv
  <1>2. PollerInv /\ ForgottenInv /\ [PollerNext]_pollerVars =>
            [\A l \in Logs :
                sent[l] > 0 /\ sent'[l] > sent[l] => BlockOf[l] < PruneHorizon]_pollerVars
    BY ResendStep
  <1> QED BY <1>1, <1>2, ForgottenStep, PollerInvariance, PTL
          DEF PollerSpec, ResentOnlyBelowHorizon

-----------------------------------------------------------------------------
(* EventPoller implements LogFeed, seen through the jobs it has sent, the    *)
(* cursor and the block its coverage starts at.                            *)

Delivered == {l \in Logs : sent[l] > 0}

LEMMA SameFinality ==
    ASSUME NEW l \in Logs
    PROVE  /\ Feed!ConfirmedHead = ConfirmedHead /\ Feed!Canonical(l) = Canonical(l)
           /\ Feed!Final(l) <=> (Canonical(l) /\ BlockOf[l] <= ConfirmedHead)
  BY DEF Feed!ConfirmedHead, ConfirmedHead, Feed!Canonical, Canonical, Feed!Final

\* A log that was sent before is seen, or delivered once more: the feed does not
\* tell the two apart.
LEMMA ProduceDelivers ==
    ASSUME PollerInv, ProduceLog PROVE Feed!Deliver \/ UNCHANGED Feed!feedVars
  <1>1. PICK l \in pending :
          /\ sent' = IF RecordIfNew(l) THEN [sent EXCEPT ![l] = @ + 1] ELSE sent
          /\ UNCHANGED <<tip, canon, cursor, origin, mem>>
    BY DEF ProduceLog, chainVars
  <1>2. pc = "dispatch"
    BY DEF ProduceLog
  <1>3. l \in Logs /\ Canonical(l) /\ BlockOf[l] <= ConfirmedHead
    <2>1. l \in LogsIn(from, to) /\ to <= head /\ head <= ConfirmedHead
      BY <1>2 DEF PollerInv, TickInv
    <2>2. ConfirmedHead \in Blocks /\ to \in Blocks /\ head \in Blocks
      BY PollerHeadType DEF PollerInv, PollerTypeOK
    <2> QED
      BY <2>1, <2>2, ChainAssumption DEF LogsIn
  <1>4. CASE RecordIfNew(l)
    <2>1. sent \in [Logs -> Nat] /\ sent' = [sent EXCEPT ![l] = @ + 1]
      BY <1>1, <1>4 DEF PollerInv, PollerTypeOK
    <2>2. Delivered' = Delivered \cup {l}
      BY <1>3, <2>1 DEF Delivered
    <2> QED
      BY <1>1, <1>3, <2>2, SameFinality DEF Feed!Deliver, Feed!chainVars, Delivered
  <1>5. CASE ~RecordIfNew(l)
    BY <1>1, <1>5 DEF Feed!feedVars, Feed!chainVars
  <1> QED
    BY <1>4, <1>5

\* A written cursor is an advance of the mark, or it was there already.
LEMMA AdvanceAdvances ==
    ASSUME PollerInv, AdvanceCursor \/ (AdvanceCursorFails /\ Persist)
    PROVE  Feed!Advance \/ UNCHANGED Feed!feedVars
  <1>1. /\ pc = "dispatch"
        /\ cursor' = IF cursor > to THEN cursor ELSE to
        /\ origin' = IF mem = NoBlock THEN from ELSE origin
        /\ mem' \in {mem, to}
        /\ UNCHANGED <<tip, canon, sent>>
    BY DEF AdvanceCursor, AdvanceCursorFails, Persist, RangeAccepted, WritePollCursor, chainVars
  <1>2. /\ cursor \in Blocks \cup {NoBlock} /\ mem \in Blocks \cup {NoBlock}
        /\ from \in Nat /\ to \in Blocks /\ head \in Blocks
        /\ origin \in Nat /\ ConfirmedHead \in Blocks
        /\ mem <= cursor /\ (mem = NoBlock => to = head /\ cursor <= head)
        /\ from <= to /\ to <= head /\ head <= ConfirmedHead
    BY <1>1, PollerHeadType DEF PollerInv, PollerTypeOK, TickInv, MirrorInv
  <1> DEFINE Known == cursor # NoBlock /\ mem # NoBlock
  <1>3. CASE Known /\ cursor' = cursor
    <2>1. UNCHANGED <<tip, canon, sent, cursor, origin>> /\ mem' # NoBlock
      BY <1>1, <1>2, <1>3, ChainAssumption
    <2> QED
      BY <1>3, <2>1 DEF Feed!feedVars, Feed!chainVars
  <1>4. CASE ~(Known /\ cursor' = cursor)
    <2>1. cursor' = to /\ to >= cursor
      BY <1>1, <1>2, <1>4, ChainAssumption
    <2>2. /\ Known => UNCHANGED origin /\ Known'
          /\ ~Known => origin' \in 0..cursor' /\ Known' \in BOOLEAN
      BY <1>1, <1>2, <2>1, ChainAssumption
    <2>3. CursorCovered'
      BY AdvanceCursorInv DEF PollerInv
    <2>4. Feed!ConfirmedHead' = ConfirmedHead /\ Feed!ConfirmedHead = ConfirmedHead
      BY <1>1 DEF Feed!ConfirmedHead, ConfirmedHead
    <2>5. \A l \in Logs \ Malformed :
             Feed!Canonical(l) /\ origin' <= BlockOf[l] /\ BlockOf[l] <= cursor'
                 => l \in Delivered
      BY <1>1, <2>3, SameFinality DEF CursorCovered, Canonical, Delivered
    <2>6. cursor' \in Feed!Blocks /\ cursor' >= cursor /\ cursor' <= Feed!ConfirmedHead
      BY <1>2, <2>1, <2>4, ChainAssumption DEF Feed!Blocks
    <2> QED
      BY <1>1, <2>2, <2>5, <2>6 DEF Feed!Advance, Feed!chainVars, Delivered
  <1> QED
    BY <1>3, <1>4

\* A restart, after a write that was taken for failed, finds the cursor it made.
LEMMA MemoryIsFeedStep ==
    ASSUME PollerInv, UNCHANGED <<tip, canon, sent, cursor, origin>>,
           mem' \in {mem, Unloaded, Watermark}
    PROVE  Feed!Begin \/ UNCHANGED Feed!feedVars
  <1>1. CASE cursor = NoBlock \/ (mem = NoBlock <=> mem' = NoBlock)
    BY <1>1 DEF Feed!feedVars, Feed!chainVars
  <1>2. CASE cursor # NoBlock /\ mem = NoBlock /\ mem' # NoBlock
    BY <1>2 DEF Feed!Begin, Feed!NoMark, Feed!chainVars
  <1>3. cursor # NoBlock /\ mem' = NoBlock => mem = NoBlock
    BY DEF Watermark
  <1> QED
    BY <1>1, <1>2, <1>3

LEMMA PollerStepIsFeedStep ==
    PollerInv /\ [PollerNext]_pollerVars => [Feed!FeedNext]_(Feed!feedVars)
  <1> SUFFICES ASSUME PollerInv, [PollerNext]_pollerVars
               PROVE  Feed!FeedNext \/ UNCHANGED Feed!feedVars
    OBVIOUS
  <1>1. CASE ProduceLog
    BY <1>1, ProduceDelivers DEF Feed!FeedNext
  <1>2. CASE AdvanceCursor \/ (AdvanceCursorFails /\ Persist)
    BY <1>2, AdvanceAdvances DEF Feed!FeedNext
  <1>3. CASE ChainNext /\ UNCHANGED <<dbVars, pc, mem, tickVars, firstHead, faults, origin>>
    <2>1. Feed!ChainNext
      BY <1>3 DEF ChainNext, Mine, Reorg, ConfirmedHead, Feed!ChainNext, Feed!Mine,
         Feed!Reorg, Feed!ConfirmedHead, Feed!Blocks
    <2>2. UNCHANGED <<Delivered, cursor, origin, mem>>
      BY <1>3 DEF dbVars, Delivered
    <2> QED
      BY <2>1, <2>2 DEF Feed!FeedNext, Delivered
  <1> DEFINE Quiet ==
        /\ UNCHANGED <<tip, canon, sent, cursor, origin>>
        /\ mem' \in {mem, Unloaded, Watermark}
  <1>4. CASE Quiet
    BY <1>4, MemoryIsFeedStep DEF Feed!FeedNext
  <1>5. UNCHANGED pollerVars => Quiet
    BY DEF pollerVars, chainVars, dbVars
  <1>6. Start \/ Stop \/ BeginTick \/ NothingToPoll \/ FetchRange \/ FetchFails \/ ProduceFails
            => Quiet
    BY DEF Start, Stop, BeginTick, NothingToPoll, FetchRange, FetchFails, ProduceFails,
       chainVars,
       dbVars
  <1>7. (AdvanceCursorFails /\ ~Persist) \/ Prune => Quiet
    BY DEF AdvanceCursorFails, RangeAccepted, Prune, chainVars
  <1> HIDE DEF Quiet
  <1> QED
    BY <1>1, <1>2, <1>3, <1>4, <1>5, <1>6, <1>7 DEF PollerNext, PollerStep, Tick, PollerFaults

\* The poller promises what LogFeed says: a behaviour of it, with its ticks, its
\* memory, seen_log and every failure hidden, is one of a feed that hands on
\* final logs only and never moves its mark over a log it has not handed on
\* (event-poller.ts, archive-producer.ts).
THEOREM PollerIsLogFeed == PollerSpec => IsLogFeed
  <1>1. PollerInit => Feed!FeedInit
    BY DEF PollerInit, ChainInit, Feed!FeedInit, Feed!ChainInit, Feed!Blocks, Feed!NoMark
  <1> QED
    BY <1>1, PollerInvariance, PollerStepIsFeedStep, PTL DEF PollerSpec, IsLogFeed,
       Feed!FeedSpec

HIDE DEF Unloaded, ChainTypeOK

-----------------------------------------------------------------------------
(* BackfillDriver.                                                         *)

USE ChainAssumption, BackfillAssumption

\* Every run begins at active_from_block or at the floor: the gate lets no start
\* below the former through.
FromTheStart == FromBlocks \subseteq {NoBlock} \cup 0..ActiveFrom

-----------------------------------------------------------------------------
(* Types.                                                                  *)

LEMMA DriverHead ==
    ASSUME tip \in Blocks PROVE ConfirmedHead \in Blocks /\ ConfirmedHead <= tip
BY DEF ConfirmedHead

LEMMA DriverTypeStep == DriverTypeOK /\ [DriverNext]_sourceVars => DriverTypeOK'
<1> SUFFICES ASSUME DriverTypeOK, [DriverNext]_sourceVars PROVE DriverTypeOK'
  OBVIOUS
<1> USE DEF DriverTypeOK, ChainTypeOK
<1>1. CASE UNCHANGED sourceVars
  BY <1>1 DEF sourceVars, chainVars, driverVars, checkpointVars, archiveVars, runVars
<1>2. CASE ChainNext /\ UNCHANGED <<cursor, driverVars>>
  BY <1>2 DEF ChainNext, Mine, Reorg, driverVars, checkpointVars, archiveVars, runVars
<1>3. ASSUME NEW m \in {"fresh", "resume", "catch-up"}, NEW first \in 0..(MaxTip + 1),
             NEW last \in Blocks, Begin(m, first, last),
             {started', floor'} \subseteq Blocks \cup {NoBlock}
      PROVE  DriverTypeOK'
  BY <1>3 DEF Begin, chainVars, archiveVars
<1>4. CASE BeginFresh
  <2>1. PICK first \in FromBlocks, last \in ToBlocks :
           /\ started' = tip /\ floor' = NoBlock
           /\ Begin("fresh", Or(first, ActiveFrom), Or(last, tip))
    BY <1>4 DEF BeginFresh
  <2>2. Or(first, ActiveFrom) \in 0..(MaxTip + 1) /\ Or(last, tip) \in Blocks
    BY DEF Or
  <2> QED
    BY <1>3, <2>1, <2>2
<1>5. CASE BeginResume
  <2> DEFINE first == IF floor # NoBlock THEN floor + 1 ELSE ActiveFrom
  <2>1. PICK last \in ToBlocks :
           started # NoBlock /\ UNCHANGED checkpointVars
           /\ Begin("resume", first, Or(last, started))
    BY <1>5 DEF BeginResume
  <2>2. first \in 0..(MaxTip + 1) /\ Or(last, started) \in Blocks
    BY <2>1 DEF Or
  <2> HIDE DEF first
  <2> QED
    BY <1>3, <2>1, <2>2 DEF checkpointVars
<1>6. CASE BeginCatchUp(ConfirmedHead)
  <2>1. GapStart \in 0..(MaxTip + 1) /\ ConfirmedHead \in Blocks /\ GapStart <= ConfirmedHead
    BY <1>6, DriverHead, SMTT(60) DEF GapStart, BeginCatchUp
  <2>2. /\ Begin("catch-up", GapStart, ConfirmedHead)
        /\ started' \in {started, GapStart} /\ floor' = floor
    BY <1>6 DEF BeginCatchUp
  <2>3. {started', floor'} \subseteq Blocks \cup {NoBlock}
    BY <2>1, <2>2
  <2> QED
    BY <1>3, <2>1, <2>2, <2>3
<1>7. CASE FetchChunk
  <2>1. PICK end \in at..upto :
           /\ chunkEnd' = end /\ batch' = LogsIn(at, end) \cap Scope
           /\ unsettled' = {b \in unsettled : ~(at <= b /\ b <= end)}
                               \cup {b \in at..end : b > ConfirmedHead}
    BY <1>7 DEF FetchChunk
  <2>2. end \in Blocks /\ batch' \subseteq Scope
    BY <2>1
  <2>3. at..end \subseteq Blocks
    BY <2>1
  <2>4. unsettled' \subseteq Blocks
    BY <2>1, <2>3
  <2>5. run' = "land"
        /\ UNCHANGED <<tip, canon, cursor, started, floor, archived, dlq, lost, mode, at, upto,
                       failures>>
    BY <1>7 DEF FetchChunk, chainVars, checkpointVars, archiveVars
  <2> QED
    BY <2>1, <2>2, <2>4, <2>5
<1>8. CASE Land
  <2>1. /\ batch' \subseteq batch
        /\ UNCHANGED <<tip, canon, cursor, started, floor, run, mode, at, upto, chunkEnd,
                       unsettled>>
    BY <1>8 DEF Land, ArchiveLog, DeadLetter, DropLog, NextOfBatch, chainVars, checkpointVars
  <2>2. /\ archived' \subseteq archived \cup batch /\ dlq' \subseteq dlq \cup batch
        /\ lost' \subseteq lost \cup batch
    BY <1>8 DEF Land, ArchiveLog, DeadLetter, DropLog
  <2>3. failures' \in 0..MaxFailures
    BY <1>8 DEF Land, ArchiveLog, DeadLetter, DropLog, Failure
  <2> QED
    BY <2>1, <2>2, <2>3
<1>9. CASE Checkpoint \/ AdvancePollCursor
  <2>1. /\ run' \in {"checkpoint", "scan"} /\ at' \in {at, chunkEnd + 1}
        /\ chunkEnd' \in {chunkEnd, 0} /\ floor' \in {floor, chunkEnd}
        /\ cursor' \in {cursor, chunkEnd}
        /\ UNCHANGED <<tip, canon, started, archived, dlq, lost, mode, upto, batch, failures,
                       unsettled>>
    BY <1>9 DEF Checkpoint, AdvancePollCursor, WritePollCursor, chainVars, checkpointVars,
       archiveVars
  <2>2. 0 \in Blocks /\ chunkEnd + 1 \in 0..(MaxTip + 1)
    OBVIOUS
  <2> QED
    BY <2>1, <2>2
<1>10. CASE Complete \/ Abandon
  <2>1. /\ EndRun /\ started' \in {started, NoBlock} /\ floor' \in {floor, NoBlock}
        /\ UNCHANGED <<tip, canon, cursor, archived, dlq, lost, unsettled>>
    BY <1>10 DEF Complete, Abandon, chainVars, checkpointVars, archiveVars
  <2>2. failures' \in 0..MaxFailures
    BY <1>10 DEF Complete, Abandon, Failure
  <2> QED
    BY <2>1, <2>2 DEF EndRun
<1> QED
  BY <1>1, <1>2, <1>4, <1>5, <1>6, <1>7, <1>8, <1>9, <1>10
  DEF DriverNext, DriverStep, BeginByOperator, Work

LEMMA DriverTypeInit == DriverInit => DriverTypeOK
BY DEF DriverInit, DriverTypeOK, ChainInit, ChainTypeOK

\* Every variable keeps its type: checkpoints, dead letters and the run's locals.
THEOREM BackfillTypeCorrect == DriverSpec => []DriverTypeOK
BY DriverTypeInit, DriverTypeStep, PTL DEF DriverSpec

-----------------------------------------------------------------------------
(* What is behind a run.                                                   *)

\* A block that needs no run any more: it was scanned when it was confirmed and
\* its logs are handled, or a history variable says that it was not.
Safe(b) ==
    \/ b \in unsettled
    \/ b <= ConfirmedHead /\ \A l \in Scope : Canonical(l) /\ BlockOf[l] = b => Handled(l)

\* A block of the chunk in hand: its logs are handled or in the batch.
InHand(b) ==
    \/ b \in unsettled
    \/ /\ b <= ConfirmedHead
       /\ \A l \in Scope : Canonical(l) /\ BlockOf[l] = b => Handled(l) \/ l \in batch

SafeUpTo(last) == \A b \in Blocks : ActiveFrom <= b /\ b <= last => Safe(b)

Behind ==
    /\ SafeUpTo(floor)
    /\ run \in {"scan", "land"} => floor < at /\ SafeUpTo(at - 1)
    /\ run = "land" => at <= chunkEnd /\ \A b \in Blocks : at <= b /\ b <= chunkEnd => InHand(b)
    /\ run = "checkpoint" => floor = chunkEnd

\* A reorganisation replaces no confirmed block.
LEMMA DriverChainStep ==
    ASSUME DriverTypeOK, ChainNext, NEW b \in Blocks, b <= ConfirmedHead PROVE canon'[b] = canon[b]
<1>1. ConfirmedHead \in Nat
  BY DriverHead DEF DriverTypeOK, ChainTypeOK
<1>2. CASE Mine
  BY <1>2 DEF Mine
<1>3. CASE Reorg
  <2>1. PICK c \in Blocks :
           /\ ConfirmedHead < c
           /\ canon' = [x \in Blocks |-> IF c <= x /\ x <= tip THEN 1 ELSE canon[x]]
    BY <1>3 DEF Reorg
  <2>2. ~(c <= b)
    BY <1>1, <2>1
  <2> QED
    BY <2>1, <2>2
<1> QED
  BY <1>2, <1>3 DEF ChainNext

\* The head only grows and a reorganisation replaces no confirmed block, so what
\* is safe stays safe.
LEMMA DriverChainKeeps ==
    ASSUME DriverTypeOK, ChainNext, UNCHANGED <<archived, dlq, lost, unsettled, batch>>,
           NEW b \in Blocks
    PROVE  (Safe(b) => Safe(b)') /\ (InHand(b) => InHand(b)')
<1> USE DEF DriverTypeOK, ChainTypeOK
<1>1. ConfirmedHead <= ConfirmedHead'
  BY DEF ChainNext, Mine, Reorg, ConfirmedHead
<1>2. ConfirmedHead \in Nat /\ ConfirmedHead' \in Nat
  BY DEF ChainNext, Mine, Reorg, ConfirmedHead
<1>3. b <= ConfirmedHead => canon'[b] = canon[b]
  BY DriverChainStep
<1>4. \A l \in Scope : BlockOf[l] = b /\ b <= ConfirmedHead => (Canonical(l)' <=> Canonical(l))
  BY <1>3 DEF Canonical
<1>5. \A l : (Handled(l)' <=> Handled(l))
  BY DEF Handled
<1> QED
  BY <1>1, <1>2, <1>4, <1>5 DEF Safe, InHand

\* A step of the driver takes nothing back: what it handled stays handled.
LEMMA DriverKeeps ==
    ASSUME UNCHANGED chainVars, archived \subseteq archived', dlq \subseteq dlq',
           lost \subseteq lost', NEW b, b \in unsettled => b \in unsettled'
    PROVE  /\ Safe(b) => Safe(b)'
           /\ (\A l \in batch : l \in batch' \/ Handled(l)') => (InHand(b) => InHand(b)')
<1>1. ConfirmedHead' = ConfirmedHead /\ \A l : Canonical(l)' <=> Canonical(l)
  BY DEF chainVars, ConfirmedHead, Canonical
<1>2. \A l : Handled(l) => Handled(l)'
  BY DEF Handled
<1> QED
  BY <1>1, <1>2 DEF Safe, InHand

LEMMA BehindStep ==
    FromTheStart /\ DriverTypeOK /\ Behind /\ [DriverNext]_sourceVars => Behind'
<1> SUFFICES ASSUME FromTheStart, DriverTypeOK, Behind, [DriverNext]_sourceVars PROVE Behind'
  OBVIOUS
<1>1. /\ floor \in Blocks \cup {NoBlock} /\ at \in 0..(MaxTip + 1)
      /\ chunkEnd \in Blocks /\ ActiveFrom \in Blocks /\ MaxTip \in Nat
  BY DEF DriverTypeOK
<1>2. CASE UNCHANGED sourceVars
  <2>1. /\ UNCHANGED chainVars /\ archived \subseteq archived' /\ dlq \subseteq dlq'
        /\ lost \subseteq lost' /\ unsettled' = unsettled
        /\ UNCHANGED <<batch, floor, run, at, chunkEnd>>
    BY <1>2 DEF sourceVars, driverVars, checkpointVars, archiveVars, runVars
  <2>2. \A b \in Blocks : (Safe(b) => Safe(b)') /\ (InHand(b) => InHand(b)')
    BY <2>1, DriverKeeps
  <2> QED
    BY <2>1, <2>2 DEF Behind, SafeUpTo
<1>3. CASE ChainNext /\ UNCHANGED <<cursor, driverVars>>
  <2>1. UNCHANGED <<archived, dlq, lost, unsettled, batch, floor, run, at, chunkEnd>>
    BY <1>3 DEF driverVars, checkpointVars, archiveVars, runVars
  <2>2. \A b \in Blocks : (Safe(b) => Safe(b)') /\ (InHand(b) => InHand(b)')
    BY <1>3, <2>1, DriverChainKeeps
  <2> QED
    BY <2>1, <2>2 DEF Behind, SafeUpTo
\* The steps that scan nothing.
<1>4. ASSUME UNCHANGED <<chainVars, archived, dlq, lost, unsettled>>, NEW b \in Blocks
      PROVE  Safe(b) => Safe(b)'
  BY <1>4, DriverKeeps
\* A run begins with nothing missing behind it.
<1>5. ASSUME NEW m, NEW first \in 0..(MaxTip + 1), NEW last, Begin(m, first, last),
             floor' \in {floor, NoBlock}, floor' < first,
             first <= ActiveFrom \/ SafeUpTo(first - 1)
      PROVE  Behind'
  <2>1. /\ UNCHANGED <<chainVars, archived, dlq, lost, unsettled>>
        /\ run' = "scan" /\ at' = first
    BY <1>5 DEF Begin, archiveVars
  <2>2. \A b \in Blocks : Safe(b) => Safe(b)'
    BY <1>4, <2>1
  <2>3. SafeUpTo(floor)'
    BY <1>1, <1>5, <2>2 DEF Behind, SafeUpTo
  <2>4. SafeUpTo(at - 1)'
    BY <1>1, <1>5, <2>1, <2>2 DEF SafeUpTo
  <2> QED
    BY <1>5, <2>1, <2>3, <2>4 DEF Behind
<1>6. CASE BeginFresh
  <2>1. PICK first \in FromBlocks, last \in ToBlocks :
           /\ first # NoBlock => FromBlockGate(first)
           /\ floor' = NoBlock
           /\ Begin("fresh", Or(first, ActiveFrom), Or(last, tip))
    BY <1>6 DEF BeginFresh
  <2>2. Or(first, ActiveFrom) = ActiveFrom
    BY <1>1, <2>1 DEF Or, FromBlockGate, FromTheStart
  <2> QED
    BY <1>1, <1>5, <2>1, <2>2
<1>7. CASE BeginResume \/ BeginCatchUp(ConfirmedHead)
  <2>1. PICK last : \E m : Begin(m, GapStart, last) /\ floor' = floor
    BY <1>7 DEF BeginResume, BeginCatchUp, GapStart, checkpointVars
  <2>2. GapStart \in 0..(MaxTip + 1) /\ floor < GapStart
        /\ (GapStart <= ActiveFrom \/ GapStart - 1 = floor)
    BY <1>1 DEF GapStart
  <2> QED
    BY <1>5, <2>1, <2>2 DEF Behind
<1>8. CASE FetchChunk
  <2>1. PICK end \in at..upto :
           /\ chunkEnd' = end /\ batch' = LogsIn(at, end) \cap Scope
           /\ unsettled' = {b \in unsettled : ~(at <= b /\ b <= end)}
                               \cup {b \in at..end : b > ConfirmedHead}
    BY <1>8 DEF FetchChunk
  <2>2. /\ run = "scan" /\ run' = "land"
        /\ UNCHANGED <<chainVars, archived, dlq, lost, floor, at>>
    BY <1>8 DEF FetchChunk, checkpointVars, archiveVars
  <2>3. ASSUME NEW b \in Blocks, b < at, Safe(b) PROVE Safe(b)'
    <3>1. b \in unsettled => b \in unsettled'
      BY <1>1, <2>1, <2>3
    <3> QED
      BY <2>2, <2>3, <3>1, DriverKeeps
  <2>4. ASSUME NEW b \in Blocks, at <= b, b <= end PROVE InHand(b)'
    <3>1. CASE b > ConfirmedHead
      BY <1>1, <2>1, <2>4, <3>1 DEF InHand
    <3>2. CASE b <= ConfirmedHead
      <4>1. ASSUME NEW l \in Scope, Canonical(l), BlockOf[l] = b PROVE l \in batch'
        BY <2>1, <2>4, <3>2, <4>1, DriverHead DEF LogsIn, DriverTypeOK, ChainTypeOK
      <4>2. ConfirmedHead' = ConfirmedHead /\ \A l : Canonical(l)' <=> Canonical(l)
        BY <2>2 DEF chainVars, ConfirmedHead, Canonical
      <4> QED
        BY <3>2, <4>1, <4>2 DEF InHand
    <3> QED
      BY <3>1, <3>2, DriverHead DEF DriverTypeOK, ChainTypeOK
  <2>5. end \in Nat /\ at <= end
    BY <1>1, <2>1
  <2>6. SafeUpTo(floor)' /\ SafeUpTo(at - 1)' /\ floor' < at'
    BY <1>1, <2>2, <2>3 DEF Behind, SafeUpTo
  <2> QED
    BY <2>1, <2>2, <2>4, <2>5, <2>6 DEF Behind
<1>9. CASE Land
  <2>1. /\ run = "land" /\ UNCHANGED <<chainVars, unsettled, floor, run, at, chunkEnd>>
        /\ archived \subseteq archived' /\ dlq \subseteq dlq' /\ lost \subseteq lost'
    BY <1>9 DEF Land, ArchiveLog, DeadLetter, DropLog, NextOfBatch, checkpointVars
  <2>2. \A l \in batch : l \in batch' \/ Handled(l)'
    BY <1>9 DEF Land, ArchiveLog, DeadLetter, DropLog, NextOfBatch, Handled
  <2>3. \A b \in Blocks : (Safe(b) => Safe(b)') /\ (InHand(b) => InHand(b)')
    BY <2>1, <2>2, DriverKeeps
  <2> QED
    BY <2>1, <2>3 DEF Behind, SafeUpTo
<1>10. CASE Checkpoint
  <2>1. /\ run = "land" /\ batch = {} /\ run' = "checkpoint" /\ floor' = chunkEnd
        /\ UNCHANGED <<chainVars, archived, dlq, lost, unsettled, chunkEnd>>
    BY <1>10 DEF Checkpoint, archiveVars
  <2>2. ASSUME NEW b \in Blocks, ActiveFrom <= b, b <= chunkEnd PROVE Safe(b)
    <3>1. InHand(b) => Safe(b)
      BY <2>1 DEF InHand, Safe
    <3>2. b <= at - 1 \/ at <= b
      BY <1>1
    <3> QED
      BY <2>1, <2>2, <3>1, <3>2 DEF Behind, SafeUpTo
  <2> QED
    BY <1>4, <2>1, <2>2 DEF Behind, SafeUpTo
<1>11. CASE AdvancePollCursor
  <2>1. /\ run = "checkpoint" /\ run' = "scan" /\ at' = chunkEnd + 1
        /\ UNCHANGED <<chainVars, archived, dlq, lost, unsettled, floor>>
    BY <1>11 DEF AdvancePollCursor, WritePollCursor, checkpointVars, archiveVars
  <2>2. floor < at' /\ at' - 1 = floor /\ SafeUpTo(floor)
    BY <1>1, <2>1 DEF Behind
  <2> QED
    BY <1>4, <2>1, <2>2 DEF Behind, SafeUpTo
<1>12. CASE Complete \/ Abandon
  <2>1. /\ run' = "none" /\ floor' \in {floor, NoBlock}
        /\ UNCHANGED <<chainVars, archived, dlq, lost, unsettled>>
    BY <1>12 DEF Complete, Abandon, EndRun, checkpointVars, archiveVars
  <2> QED
    BY <1>1, <1>4, <2>1 DEF Behind, SafeUpTo
<1> QED
  BY <1>2, <1>3, <1>6, <1>7, <1>8, <1>9, <1>10, <1>11, <1>12
  DEF DriverNext, DriverStep, BeginByOperator, Work

LEMMA BehindInit == DriverInit => Behind
BY DEF DriverInit, Behind, SafeUpTo

LEMMA BehindAlways == FromTheStart => (DriverSpec => [](DriverTypeOK /\ Behind))
<1> SUFFICES ASSUME FromTheStart PROVE DriverSpec => [](DriverTypeOK /\ Behind)
  OBVIOUS
<1>1. DriverTypeOK /\ Behind /\ [DriverNext]_sourceVars => Behind'
  BY BehindStep
<1> QED
  BY <1>1, BehindInit, DriverTypeInit, DriverTypeStep, PTL DEF DriverSpec

\* ADR-0051: however often runs are cancelled, resumed, restarted or crash, at
\* whatever step, no final log below the floor is missing, for every head lag
\* and chunk size.  A first run that was told to start higher up is what the
\* assumption leaves out.
THEOREM FloorIsContiguous == FromTheStart => (DriverSpec => []FloorContiguous)
<1>1. ASSUME DriverTypeOK, Behind PROVE FloorContiguous
  <2>1. \A l \in Scope : BlockOf[l] \in Blocks
    OBVIOUS
  <2> QED
    BY <1>1, <2>1 DEF Behind, SafeUpTo, Safe, FloorContiguous
<1> QED
  BY <1>1, BehindAlways, PTL

\* runSourceBackfill clears the checkpoints when a run completes: by then every
\* final log of the range is handled.
THEOREM CompletionMeansScanned == FromTheStart => (DriverSpec => CompletedMeansScanned)
<1>1. ASSUME DriverTypeOK, Behind, Complete,
             NEW l \in Scope, Canonical(l), ActiveFrom <= BlockOf[l],
             BlockOf[l] <= upto, BlockOf[l] \notin unsettled
      PROVE  Handled(l)
  <2>1. run = "scan" /\ at > upto /\ BlockOf[l] \in Blocks
    BY <1>1 DEF Complete
  <2>2. BlockOf[l] <= at - 1
    BY <1>1, <2>1 DEF DriverTypeOK
  <2>3. Safe(BlockOf[l])
    BY <1>1, <2>1, <2>2 DEF Behind, SafeUpTo
  <2> QED
    BY <1>1, <2>3 DEF Safe
<1>2. DriverTypeOK /\ Behind =>
        [Complete => \A l \in Scope :
            /\ Canonical(l)
            /\ ActiveFrom <= BlockOf[l] /\ BlockOf[l] <= upto
            /\ BlockOf[l] \notin unsettled
            => Handled(l)]_sourceVars
  BY <1>1
<1> QED
  BY <1>2, BehindAlways, PTL DEF CompletedMeansScanned

-----------------------------------------------------------------------------
(* What catch-up archives.                                                 *)

\* Catch-up reads confirmed blocks only, and they stay as they were read.
FinalBatch ==
    mode = "catch-up" /\ run # "none" =>
        /\ upto <= ConfirmedHead
        /\ \A l \in batch : Canonical(l) /\ BlockOf[l] <= ConfirmedHead

\* A batch is only there while it is being handled.
NoBatch == run # "land" => batch = {}

LEMMA NoBatchStep == NoBatch /\ [DriverNext]_sourceVars => NoBatch'
<1> SUFFICES ASSUME NoBatch, [DriverNext]_sourceVars PROVE NoBatch'
  OBVIOUS
<1>1. CASE UNCHANGED <<run, batch>>
  BY <1>1 DEF NoBatch
<1>2. CASE BeginFresh \/ BeginResume \/ BeginCatchUp(ConfirmedHead)
  BY <1>2 DEF NoBatch, BeginFresh, BeginResume, BeginCatchUp, Begin
<1>3. CASE FetchChunk \/ Land
  BY <1>3 DEF NoBatch, FetchChunk, Land, ArchiveLog, DeadLetter, DropLog, NextOfBatch
<1>4. CASE Checkpoint \/ AdvancePollCursor \/ Complete \/ Abandon
  BY <1>4 DEF NoBatch, Checkpoint, AdvancePollCursor, WritePollCursor, Complete, Abandon, EndRun
<1> QED
  BY <1>1, <1>2, <1>3, <1>4
  DEF DriverNext, DriverStep, BeginByOperator, Work, sourceVars, driverVars, runVars

LEMMA FinalBatchStep ==
    DriverTypeOK /\ NoBatch /\ FinalBatch /\ [DriverNext]_sourceVars => FinalBatch'
<1> SUFFICES ASSUME DriverTypeOK, NoBatch, FinalBatch, [DriverNext]_sourceVars PROVE FinalBatch'
  OBVIOUS
<1>1. ConfirmedHead \in Nat /\ upto \in Blocks /\ \A l \in batch : BlockOf[l] \in Blocks
  BY DriverHead DEF DriverTypeOK, ChainTypeOK
<1>2. ASSUME UNCHANGED chainVars
      PROVE  ConfirmedHead' = ConfirmedHead /\ \A l : Canonical(l)' <=> Canonical(l)
  BY <1>2 DEF chainVars, ConfirmedHead, Canonical
<1>3. CASE UNCHANGED sourceVars
  BY <1>2, <1>3 DEF sourceVars, driverVars, runVars, FinalBatch
<1>4. CASE ChainNext /\ UNCHANGED <<cursor, driverVars>>
  <2>1. ConfirmedHead' \in Nat /\ ConfirmedHead <= ConfirmedHead'
    BY <1>4 DEF ChainNext, Mine, Reorg, ConfirmedHead, DriverTypeOK, ChainTypeOK
  <2>2. ASSUME NEW l \in batch, Canonical(l), BlockOf[l] <= ConfirmedHead PROVE Canonical(l)'
    <3>1. canon'[BlockOf[l]] = canon[BlockOf[l]]
      BY <1>1, <1>4, <2>2, DriverChainStep
    <3> QED
      BY <2>2, <3>1 DEF Canonical
  <2>3. UNCHANGED <<run, mode, upto, batch>>
    BY <1>4 DEF driverVars, runVars
  <2> QED
    BY <1>1, <2>1, <2>2, <2>3 DEF FinalBatch
<1>5. CASE BeginFresh \/ BeginResume
  <2>1. mode' # "catch-up"
    BY <1>5 DEF BeginFresh, BeginResume, Begin
  <2> QED
    BY <2>1 DEF FinalBatch
<1>6. CASE BeginCatchUp(ConfirmedHead)
  BY <1>1, <1>2, <1>6 DEF BeginCatchUp, Begin, NoBatch, FinalBatch
<1>7. CASE FetchChunk
  <2>1. PICK end \in at..upto : batch' = LogsIn(at, end) \cap Scope
    BY <1>7 DEF FetchChunk
  <2>2. UNCHANGED <<chainVars, mode, upto>> /\ run # "none"
    BY <1>7 DEF FetchChunk
  <2>3. ASSUME mode = "catch-up", NEW l \in batch'
        PROVE  Canonical(l) /\ BlockOf[l] <= ConfirmedHead
    BY <1>1, <2>1, <2>2, <2>3 DEF FinalBatch, LogsIn, DriverTypeOK
  <2> QED
    BY <1>2, <2>2, <2>3 DEF FinalBatch
<1>8. CASE Land
  <2>1. UNCHANGED <<chainVars, run, mode, upto>> /\ batch' \subseteq batch
    BY <1>8 DEF Land, ArchiveLog, DeadLetter, DropLog, NextOfBatch
  <2> QED
    BY <1>2, <2>1 DEF FinalBatch
<1>9. CASE Checkpoint \/ AdvancePollCursor
  <2>1. UNCHANGED <<chainVars, mode, upto, batch>> /\ run # "none"
    BY <1>9 DEF Checkpoint, AdvancePollCursor, WritePollCursor
  <2> QED
    BY <1>2, <2>1 DEF FinalBatch
<1>10. CASE Complete \/ Abandon
  BY <1>10 DEF Complete, Abandon, EndRun, FinalBatch
<1> QED
  BY <1>3, <1>4, <1>5, <1>6, <1>7, <1>8, <1>9, <1>10
  DEF DriverNext, DriverStep, BeginByOperator, Work

\* Boot catch-up is given the head that was confirmed when it began, and archives
\* for as long as it takes: what it archives is final, whatever the chain did since.
THEOREM CatchUpIsFinal == DriverSpec => CatchUpArchivesFinal
<1>1. DriverInit => NoBatch /\ FinalBatch
  BY DEF DriverInit, NoBatch, FinalBatch
<1>2. ASSUME NoBatch, FinalBatch, [DriverNext]_sourceVars, mode = "catch-up",
             NEW l \in archived' \ archived
      PROVE  Canonical(l) /\ BlockOf[l] <= ConfirmedHead
  <2>1. ArchiveLog
    BY <1>2 DEF DriverNext, ChainNext, DriverStep, BeginByOperator, BeginFresh, BeginResume,
       BeginCatchUp, Begin, Work, FetchChunk, Land, DeadLetter, DropLog, Checkpoint,
       AdvancePollCursor, WritePollCursor, Complete, Abandon, sourceVars, driverVars,
       archiveVars
  <2>2. run = "land" /\ l \in batch
    BY <1>2, <2>1 DEF ArchiveLog, NextOfBatch
  <2> QED
    BY <1>2, <2>2 DEF FinalBatch
<1>3. NoBatch /\ FinalBatch /\ [DriverNext]_sourceVars =>
        [mode = "catch-up" =>
            \A l \in archived' \ archived : Canonical(l) /\ BlockOf[l] <= ConfirmedHead]_sourceVars
  BY <1>2
<1> QED
  BY <1>1, <1>3, DriverTypeInit, DriverTypeStep, NoBatchStep, FinalBatchStep, PTL
     DEF DriverSpec, CatchUpArchivesFinal

HIDE ChainAssumption

HIDE BackfillAssumption

-----------------------------------------------------------------------------
(* LogIngestion.                                                           *)

LEMMA Constants ==
    /\ HeadLag \in Nat /\ MaxTip \in Nat /\ InitTip \in 0..MaxTip
    /\ BlockOf \in [Logs -> 0..MaxTip] /\ ForkOf \in [Logs -> {0, 1}]
    /\ Malformed \subseteq Logs /\ Scope = Logs \ Malformed
    /\ MaxSpan \in Nat \ {0} /\ MaxChunks \in Nat \ {0}
    /\ ActiveFrom \in 0..MaxTip /\ ChunkSize \in Nat \ {0} /\ MaxFailures \in Nat
BY ChainAssumption, PollerAssumption, BackfillAssumption, IngestionAssumption DEF Blocks

USE Constants DEF Blocks, NoBlock, Unloaded

\* What the four components of the state have for types, in one list.
Types ==
    /\ tip \in 0..MaxTip /\ canon \in [0..MaxTip -> {0, 1}]
    /\ cursor \in 0..MaxTip \cup {-1}
    /\ seen \subseteq Logs /\ sent \in [Logs -> Nat]
    /\ pc \in {"down", "idle", "walk", "dispatch"}
    /\ mem \in 0..MaxTip \cup {-1, -2}
    /\ head \in 0..MaxTip /\ chunk \in Nat /\ from \in Nat /\ to \in 0..MaxTip
    /\ pending \subseteq Logs /\ firstHead \in 0..MaxTip \cup {-1}
    /\ faults \in Nat /\ origin \in Nat
    /\ started \in 0..MaxTip \cup {-1} /\ floor \in 0..MaxTip \cup {-1}
    /\ archived \subseteq Logs \ Malformed /\ dlq \subseteq Logs \ Malformed
    /\ lost \subseteq Logs \ Malformed /\ batch \subseteq Logs \ Malformed
    /\ run \in {"none", "scan", "land", "checkpoint", "advance"}
    /\ mode \in {"fresh", "resume", "catch-up"}
    /\ at \in 0..(MaxTip + 1) /\ upto \in 0..MaxTip /\ chunkEnd \in 0..MaxTip
    /\ failures \in 0..MaxFailures /\ unsettled \subseteq 0..MaxTip
    /\ caughtUp \in BOOLEAN /\ holed \in BOOLEAN /\ anew \in Nat

LEMMA TypesAreTypeOK == Types <=> TypeOK
BY DEF Types, TypeOK, PollerTypeOK, DriverTypeOK, ChainTypeOK

LEMMA ConfirmedHeadType ==
    ASSUME tip \in 0..MaxTip
    PROVE  ConfirmedHead \in 0..MaxTip /\ ConfirmedHead <= tip
BY DEF ConfirmedHead

LEMMA ChainNextTypes ==
    ASSUME tip \in 0..MaxTip, canon \in [0..MaxTip -> {0, 1}], ChainNext
    PROVE  tip' \in 0..MaxTip /\ canon' \in [0..MaxTip -> {0, 1}]
BY DEF ChainNext, Mine, Reorg

\* Confirmed blocks keep their contents.
LEMMA ConfirmedStays ==
    ASSUME tip \in 0..MaxTip, canon \in [0..MaxTip -> {0, 1}], ChainNext
    PROVE  /\ ConfirmedHead <= ConfirmedHead'
           /\ \A l \in Logs : BlockOf[l] <= ConfirmedHead => Canonical(l)' = Canonical(l)
<1>1. CASE Mine
  BY <1>1 DEF Mine, ConfirmedHead, Canonical
<1>2. CASE Reorg
  <2>1. PICK b \in 0..MaxTip :
          /\ ConfirmedHead < b
          /\ canon' = [x \in 0..MaxTip |-> IF b <= x /\ x <= tip THEN 1 ELSE canon[x]]
    BY <1>2 DEF Reorg
  <2>2. ConfirmedHead' = ConfirmedHead
    BY <1>2 DEF Reorg, ConfirmedHead
  <2>3. ASSUME NEW l \in Logs, BlockOf[l] <= ConfirmedHead
        PROVE  Canonical(l)' = Canonical(l)
    <3>1. canon'[BlockOf[l]] = canon[BlockOf[l]]
      BY <2>1, <2>3, ConfirmedHeadType
    <3> QED
      BY <3>1 DEF Canonical
  <2> QED
    BY <2>2, <2>3, ConfirmedHeadType
<1> QED
  BY <1>1, <1>2 DEF ChainNext

\* A tick reads, sends, advances or gives up.
LEMMA PollerTypes ==
    ASSUME Types, LiveStep
    PROVE  Types'
<1> USE DEF Types, driverVars, checkpointVars, archiveVars, chainVars, dbVars, tickVars,
            rangeVars, runVars, EndTick, EndRange, Fault, Watermark
<1>1. CASE Start /\ UNCHANGED <<driverVars, bootVars>>
  BY <1>1 DEF Start, bootVars
<1>2. CASE BeginTick /\ UNCHANGED <<driverVars, bootVars>>
  BY <1>2, ConfirmedHeadType DEF BeginTick, bootVars
<1>3. CASE NothingToPoll /\ UNCHANGED <<driverVars, bootVars>>
  BY <1>3 DEF NothingToPoll, bootVars
<1>4. CASE FetchRange /\ UNCHANGED <<driverVars, bootVars>>
  <2>1. RangeFrom \in Nat /\ RangeTo \in 0..MaxTip
    BY <1>4 DEF FetchRange, RangeFrom, RangeTo, HeadWindowFrom
  <2> QED
    BY <1>4, <2>1 DEF FetchRange, bootVars, LogsIn
<1>5. CASE ProduceLog /\ UNCHANGED <<driverVars, bootVars>>
  BY <1>5 DEF ProduceLog, RecordIfNew, bootVars
<1>6. CASE AdvanceCursor /\ UNCHANGED <<driverVars, bootVars>>
  BY <1>6 DEF AdvanceCursor, Persist, RangeAccepted, WritePollCursor, bootVars
<1>7. CASE FetchFails /\ UNCHANGED <<driverVars, bootVars>>
  BY <1>7 DEF FetchFails, bootVars
<1>8. CASE ProduceFails /\ UNCHANGED <<driverVars, bootVars>>
  BY <1>8 DEF ProduceFails, bootVars
<1>9. CASE Prune /\ UNCHANGED <<driverVars, bootVars>>
  BY <1>9 DEF Prune, bootVars
<1>10. CASE /\ AdvanceCursorFails /\ holed' = (holed \/ mem = -1)
            /\ UNCHANGED <<driverVars, caughtUp, anew>>
  BY <1>10 DEF AdvanceCursorFails, Persist, RangeAccepted, WritePollCursor
<1> QED
  BY <1>1, <1>2, <1>3, <1>4, <1>5, <1>6, <1>7, <1>8, <1>9, <1>10
     DEF LiveStep, Tick, bootVars

LEMMA CatchUpTypes ==
    ASSUME Types, CatchUpStep
    PROVE  Types'
<1> USE DEF Types, pollerOnly, bootVars, chainVars, checkpointVars, archiveVars, tickVars, rangeVars
<1>1. UNCHANGED <<pollerOnly, bootVars>>
  BY DEF CatchUpStep
<1>2. CASE FetchChunk
  <2>1. PICK end \in at..upto :
          /\ end - at < ChunkSize /\ chunkEnd' = end
          /\ batch' = LogsIn(at, end) \cap (Logs \ Malformed)
          /\ unsettled' = {b \in unsettled : ~(at <= b /\ b <= end)}
                              \cup {b \in at..end : b > ConfirmedHead}
    BY <1>2 DEF FetchChunk
  <2>2. end \in 0..MaxTip /\ at..end \subseteq 0..MaxTip
    BY <2>1
  <2>3. /\ run' = "land"
        /\ UNCHANGED <<tip, canon, cursor, started, floor, archived, dlq, lost, mode, at, upto,
                       failures>>
    BY <1>2 DEF FetchChunk
  <2>4. batch' \subseteq Logs \ Malformed /\ unsettled' \subseteq 0..MaxTip
    BY <2>1, <2>2
  <2> QED
    BY <1>1, <2>1, <2>2, <2>3, <2>4
<1>3. CASE ArchiveLog
  BY <1>1, <1>3 DEF ArchiveLog, NextOfBatch
<1>4. CASE DeadLetter
  BY <1>1, <1>4 DEF DeadLetter, NextOfBatch, Failure
<1>5. CASE DropLog
  BY <1>1, <1>5 DEF DropLog, NextOfBatch, Failure
<1>6. CASE Checkpoint
  BY <1>1, <1>6 DEF Checkpoint
<1>7. CASE AdvancePollCursor
  BY <1>1, <1>7 DEF AdvancePollCursor, WritePollCursor
<1>8. CASE Complete
  BY <1>1, <1>8 DEF Complete, EndRun
<1>9. CASE Abandon
  BY <1>1, <1>9 DEF Abandon, EndRun, Failure
<1> QED
  BY <1>2, <1>3, <1>4, <1>5, <1>6, <1>7, <1>8, <1>9 DEF CatchUpStep, Work, Land

LEMMA TypesStep == Types /\ [Next]_vars => Types'
<1> SUFFICES ASSUME Types, [Next]_vars PROVE Types'
  OBVIOUS
<1>1. CASE LiveStep
  BY <1>1, PollerTypes
<1>2. CASE BootCatchUp
  <2>1. /\ UNCHANGED <<pollerOnly, holed, anew>> /\ caughtUp' = TRUE
        /\ firstHead \in 0..MaxTip
    BY <1>2 DEF BootCatchUp, Types
  <2>2. GapStart \in 0..(MaxTip + 1)
    BY DEF GapStart, Types
  <2>3. CASE BeginCatchUp(firstHead)
    <3>1. /\ GapStart <= firstHead
          /\ started' = IF started = -1 THEN GapStart ELSE started
          /\ run' = "scan" /\ mode' = "catch-up" /\ at' = GapStart /\ upto' = firstHead
          /\ UNCHANGED <<tip, canon, cursor, floor, archived, dlq, lost, chunkEnd, batch,
                         failures, unsettled>>
      BY <2>3 DEF BeginCatchUp, Begin, chainVars, archiveVars
    <3> QED
      BY <2>1, <2>2, <3>1 DEF Types, pollerOnly, tickVars, rangeVars
  <2>4. CASE UNCHANGED <<chainVars, cursor, driverVars>>
    BY <2>1, <2>4 DEF Types, pollerOnly, chainVars, driverVars, checkpointVars, archiveVars,
       runVars, tickVars, rangeVars
  <2> QED
    BY <1>2, <2>3, <2>4 DEF BootCatchUp
<1>3. CASE CatchUpStep
  BY <1>3, CatchUpTypes
<1>4. CASE StopProcess
  <2>1. /\ pc' = "down" /\ head' = 0 /\ chunk' = 0 /\ from' = 0 /\ to' = 0 /\ pending' = {}
        /\ mem' = -2 /\ firstHead' = -1 /\ faults' = faults + 1
        /\ UNCHANGED <<tip, canon, cursor, seen, sent, origin>>
    BY <1>4 DEF StopProcess, Stop, Fault, EndTick, EndRange, chainVars, dbVars
  <2>2. /\ run' = "none" /\ mode' = "fresh" /\ at' = 0 /\ upto' = 0 /\ chunkEnd' = 0
        /\ batch' = {} /\ caughtUp' = FALSE /\ holed' = FALSE
        /\ anew' = IF holed THEN cursor + 1 ELSE anew
        /\ UNCHANGED <<started, floor, archived, dlq, lost, failures, unsettled>>
    BY <1>4 DEF StopProcess, EndRun, checkpointVars, archiveVars
  <2>3. anew' \in Nat
    BY <2>2 DEF Types
  <2>4. (/\ head \in 0..MaxTip /\ chunk \in Nat /\ from \in Nat /\ to \in 0..MaxTip
         /\ pending \subseteq Logs /\ faults \in Nat
         /\ at \in 0..(MaxTip + 1) /\ upto \in 0..MaxTip /\ chunkEnd \in 0..MaxTip
         /\ batch \subseteq Logs \ Malformed)'
    BY <2>1, <2>2 DEF Types
  <2> QED
    BY <2>1, <2>2, <2>3, <2>4 DEF Types
<1>5. CASE ChainStep
  BY <1>5, ChainNextTypes DEF Types, ChainStep, pollerOnly, driverVars, checkpointVars,
     archiveVars, bootVars, runVars, tickVars, rangeVars
<1>6. CASE UNCHANGED vars
  BY <1>6 DEF Types, vars, chainVars, pollerOnly, driverVars, checkpointVars, archiveVars,
     bootVars, runVars, tickVars, rangeVars
<1> QED
  BY <1>1, <1>2, <1>3, <1>4, <1>5, <1>6 DEF Next

\* What the poller holds: the range it polls is confirmed and starts just past
\* its mirror, and each log of it is still pending or was sent.
Polling ==
    /\ \A l \in seen : sent[l] > 0
    /\ pc \in {"walk", "dispatch"} => head <= ConfirmedHead
    /\ pc = "dispatch" =>
        /\ from <= to /\ to <= head
        /\ mem # -2 /\ (mem # -1 => from = mem + 1)
        /\ \A l \in LogsIn(from, to) \ Malformed : l \in pending \/ sent[l] > 0

\* What catch-up holds: below its floor everything is handled, and the chunk in
\* hand starts just past it; a run has this process's first head for its end.
Catching ==
    /\ floor <= ConfirmedHead
    /\ \A l \in Logs \ Malformed :
          Canonical(l) /\ ActiveFrom <= BlockOf[l] /\ BlockOf[l] <= floor => Handled(l)
    /\ run # "none" => firstHead # -1 /\ upto = firstHead /\ mode = "catch-up"
    /\ run \in {"scan", "land"} => at = GapStart
    /\ run = "land" =>
        /\ at <= chunkEnd /\ chunkEnd <= upto
        /\ \A l \in LogsIn(at, chunkEnd) \ Malformed : l \in batch \/ Handled(l)
    /\ run = "checkpoint" => floor = chunkEnd

\* How cursor, mirror and first head stand to each other: only catch-up, which
\* needs a first head, and a write taken for failed, which gives it, move the
\* cursor past the mirror.
Shared ==
    /\ cursor <= ConfirmedHead /\ firstHead <= ConfirmedHead
    /\ mem <= cursor /\ origin <= cursor + 1 /\ anew <= cursor + 1
    /\ firstHead = -1 => mem \in {-2, cursor}
    /\ ~holed =>
        /\ mem = -1 => cursor = -1
        /\ cursor = -1 => firstHead = -1
        /\ firstHead # -1 => origin <= firstHead /\ anew <= firstHead

LiveCovered ==
    ~holed => \A l \in Logs \ Malformed :
        /\ Canonical(l) /\ ActiveFrom <= BlockOf[l] /\ BlockOf[l] <= cursor
        /\ origin <= BlockOf[l] /\ anew <= BlockOf[l]
        => Ingested(l)

IInv == TypeOK /\ Polling /\ Catching /\ Shared /\ LiveCovered

chainAndDriver == <<tip, canon, started, floor, archived, dlq, lost, run, mode, at, upto,
                    chunkEnd, batch, failures, unsettled>>

\* A step of the poller leaves catch-up as it is.
LEMMA CatchingKept ==
    ASSUME Catching, UNCHANGED chainAndDriver, firstHead # -1 => firstHead' = firstHead
    PROVE  Catching'
BY DEF Catching, chainAndDriver, ConfirmedHead, Canonical, LogsIn, Handled, GapStart

\* A step that moves neither cursor nor first head, and sends or not.
LEMMA QuietShared ==
    ASSUME Types, Shared, LiveCovered, UNCHANGED chainAndDriver,
           UNCHANGED <<cursor, firstHead, origin, anew, holed>>,
           mem' \in {mem, Watermark}, \A l \in Logs : sent[l] > 0 => sent'[l] > 0
    PROVE  Shared' /\ LiveCovered'
<1>1. Shared'
  BY DEF Types, Shared, chainAndDriver, ConfirmedHead, Watermark
<1>2. LiveCovered'
  BY DEF LiveCovered, Ingested, chainAndDriver, Canonical, Handled
<1> QED
  BY <1>1, <1>2

LEMMA PollingOff ==
    ASSUME Polling, UNCHANGED chainAndDriver, UNCHANGED sent, seen' \subseteq seen,
           pc' \in {"down", "idle"}
    PROVE  Polling'
BY DEF Polling

\* resolveRange: past the mirror and not beyond the head.
LEMMA RangeIsNext ==
    ASSUME Types, RangeFrom <= head
    PROVE  /\ RangeFrom <= RangeTo /\ RangeTo <= head
           /\ Watermark \in 0..MaxTip \cup {-1}
           /\ Watermark # -1 => RangeFrom = Watermark + 1
BY DEF Types, RangeFrom, RangeTo, Watermark, HeadWindowFrom

\* What is common to a range whose cursor was written and one whose was not.
LEMMA AcceptedRange ==
    ASSUME Types, Polling, RangeAccepted
    PROVE  /\ from <= to /\ to <= head /\ head <= ConfirmedHead
           /\ mem # -2 /\ (mem # -1 => from = mem + 1)
           /\ \A l \in LogsIn(from, to) \ Malformed : sent[l] > 0
           /\ firstHead' = IF firstHead = -1 THEN head ELSE firstHead
           /\ pc' \in {"idle", "walk"} /\ (pc' = "walk" => head' = head)
           /\ UNCHANGED <<tip, canon, seen, sent>>
BY DEF Types, Polling, RangeAccepted, EndTick, EndRange, chainVars

LEMMA AfterRange ==
    ASSUME Types, Polling, RangeAccepted
    PROVE  Polling'
BY AcceptedRange DEF Polling, ConfirmedHead

\* The cursor written reaches the end of the range, or is there already.  Live
\* coverage is not disturbed, whether the mirror follows or not, ...
LEMMA PersistShared ==
    ASSUME Types, Polling, Shared, LiveCovered, RangeAccepted, Persist,
           UNCHANGED chainAndDriver, UNCHANGED anew, mem' \in {mem, to},
           holed' = (holed \/ (mem = -1 /\ mem' = -1))
    PROVE  Shared' /\ LiveCovered'
<1>1. /\ from <= to /\ to <= head /\ head <= ConfirmedHead
      /\ mem # -2 /\ (mem # -1 => from = mem + 1)
      /\ \A l \in LogsIn(from, to) \ Malformed : sent[l] > 0
      /\ firstHead' = IF firstHead = -1 THEN head ELSE firstHead
      /\ UNCHANGED <<tip, canon, sent>>
  BY AcceptedRange
<1>2. /\ cursor' = IF cursor > to THEN cursor ELSE to
      /\ origin' = IF mem = -1 THEN from ELSE origin
  BY DEF Persist, WritePollCursor
<1>3. ConfirmedHead' = ConfirmedHead /\ ConfirmedHead \in 0..MaxTip
  BY <1>1, ConfirmedHeadType DEF ConfirmedHead, Types
<1>4. ~holed' => ~holed /\ (mem = -1 => mem' # -1 /\ cursor = -1)
  BY DEF Shared
<1>5. Shared'
  <2>1. /\ cursor' <= ConfirmedHead' /\ firstHead' <= ConfirmedHead' /\ firstHead' # -1
        /\ mem' <= cursor' /\ origin' <= cursor' + 1 /\ anew' <= cursor' + 1
        /\ cursor' # -1 /\ to # -1
    BY <1>1, <1>2, <1>3 DEF Types, Shared
  <2>2. ASSUME ~holed' PROVE mem' # -1 /\ origin' <= firstHead' /\ anew' <= firstHead'
    <3>1. mem' # -1
      BY <1>4, <2>1, <2>2
    <3>2. CASE firstHead = -1
      BY <1>1, <1>2, <1>4, <2>2, <3>2 DEF Types, Shared
    <3>3. CASE firstHead # -1
      BY <1>1, <1>2, <1>4, <2>2, <3>3 DEF Types, Shared
    <3> QED
      BY <3>1, <3>2, <3>3
  <2> QED
    BY <2>1, <2>2 DEF Shared
<1>6. LiveCovered'
  <2> SUFFICES ASSUME ~holed', NEW l \in Logs \ Malformed, Canonical(l),
                      ActiveFrom <= BlockOf[l], BlockOf[l] <= cursor',
                      origin' <= BlockOf[l], anew <= BlockOf[l]
               PROVE  Ingested(l)
    BY <1>1 DEF LiveCovered, Ingested, chainAndDriver, Canonical, Handled
  <2>1. CASE cursor # -1 /\ BlockOf[l] <= cursor
    BY <1>2, <1>4, <2>1 DEF LiveCovered
  <2>2. CASE ~(cursor # -1 /\ BlockOf[l] <= cursor)
    <3>1. from <= BlockOf[l] /\ BlockOf[l] <= to
      BY <1>1, <1>2, <2>2 DEF Types, Shared
    <3>2. BlockOf[l] <= tip
      BY <1>1, <3>1, ConfirmedHeadType DEF Types
    <3> QED
      BY <1>1, <3>1, <3>2 DEF LogsIn, Ingested
  <2> QED
    BY <2>1, <2>2
<1> QED
  BY <1>5, <1>6

\* ... nor by a write that does not happen: the tick goes on, and one without a
\* mirror has lost its place.
LEMMA NotPersistedShared ==
    ASSUME Types, Polling, Shared, LiveCovered, RangeAccepted, UNCHANGED chainAndDriver,
           UNCHANGED <<cursor, mem, origin, anew>>, holed' = (holed \/ mem = -1)
    PROVE  Shared' /\ LiveCovered'
<1>1. /\ from <= to /\ to <= head /\ head <= ConfirmedHead
      /\ mem # -2 /\ (mem # -1 => from = mem + 1)
      /\ firstHead' = IF firstHead = -1 THEN head ELSE firstHead
      /\ UNCHANGED <<tip, canon, sent>>
  BY AcceptedRange
<1>2. ConfirmedHead' = ConfirmedHead /\ ConfirmedHead \in 0..MaxTip
  BY <1>1, ConfirmedHeadType DEF ConfirmedHead, Types
<1>3. Shared'
  <2>1. ~holed' => ~holed /\ mem # -1
    OBVIOUS
  <2>2. firstHead = -1 => mem = cursor
    BY <1>1 DEF Shared
  <2>3. (firstHead = -1 /\ mem # -1) => origin <= head /\ anew <= head
    BY <1>1, <2>2 DEF Types, Shared
  <2> QED
    BY <1>1, <1>2, <2>1, <2>2, <2>3 DEF Types, Shared, chainAndDriver
<1>4. LiveCovered'
  BY <1>1 DEF LiveCovered, Ingested, chainAndDriver, Canonical, Handled
<1> QED
  BY <1>3, <1>4

LEMMA PollerKeeps ==
    ASSUME Types, Polling, Catching, Shared, LiveCovered, LiveStep
    PROVE  Polling' /\ Catching' /\ Shared' /\ LiveCovered'
<1>1. ~AdvanceCursorFails => UNCHANGED holed
  BY DEF LiveStep
<1>2. UNCHANGED chainAndDriver /\ UNCHANGED <<caughtUp, anew>>
  BY DEF LiveStep, chainAndDriver, driverVars, checkpointVars, archiveVars, chainVars, Start,
     Tick, BeginTick, NothingToPoll, FetchRange, ProduceLog, AdvanceCursor, FetchFails,
     ProduceFails, Prune, AdvanceCursorFails, Persist, RangeAccepted, runVars
<1> USE DEF dbVars, tickVars, rangeVars, chainVars
<1>3. CASE Start /\ UNCHANGED holed
  <2>1. pc' = "idle" /\ UNCHANGED <<cursor, seen, sent, mem, firstHead, origin>>
    BY <1>3 DEF Start
  <2> QED
    BY <1>2, <1>3, <2>1, CatchingKept, QuietShared, PollingOff
<1>4. CASE BeginTick /\ UNCHANGED holed
  <2>1. pc' = "walk" /\ head' = ConfirmedHead
        /\ UNCHANGED <<cursor, seen, sent, mem, firstHead, origin>>
    BY <1>4, ConfirmedHeadType DEF BeginTick, Types
  <2>2. Polling'
    BY <1>2, <2>1, ConfirmedHeadType DEF Types, Polling, chainAndDriver, ConfirmedHead
  <2> QED
    BY <1>2, <1>4, <2>1, <2>2, CatchingKept, QuietShared
<1>5. CASE NothingToPoll /\ UNCHANGED holed
  <2>1. pc' = "idle" /\ mem' = Watermark
        /\ UNCHANGED <<cursor, seen, sent, firstHead, origin>>
    BY <1>5 DEF NothingToPoll, EndTick
  <2> QED
    BY <1>2, <1>5, <2>1, CatchingKept, QuietShared, PollingOff
<1>6. CASE FetchRange /\ UNCHANGED holed
  <2>1. /\ pc = "walk" /\ RangeFrom <= head /\ pc' = "dispatch" /\ mem' = Watermark
        /\ from' = RangeFrom /\ to' = RangeTo
        /\ pending' = LogsIn(RangeFrom, RangeTo) \ Malformed
        /\ UNCHANGED <<cursor, seen, sent, head, firstHead, origin>>
    BY <1>6 DEF FetchRange
  <2>2. Polling'
    <3>1. /\ from' <= to' /\ to' <= head' /\ mem' # -2 /\ (mem' # -1 => from' = mem' + 1)
      BY <2>1, RangeIsNext
    <3>2. LogsIn(from, to)' = LogsIn(from', to')
      BY <1>2 DEF chainAndDriver, LogsIn, Canonical
    <3> QED
      BY <1>2, <2>1, <3>1, <3>2 DEF Polling, chainAndDriver, ConfirmedHead
  <2> QED
    BY <1>2, <1>6, <2>1, <2>2, CatchingKept, QuietShared
<1>7. CASE ProduceLog /\ UNCHANGED holed
  <2>1. PICK l \in pending :
          /\ sent' = IF l \notin seen THEN [sent EXCEPT ![l] = @ + 1] ELSE sent
          /\ seen' = seen \cup {l} /\ pending' = pending \ {l}
    BY <1>7 DEF ProduceLog, RecordIfNew
  <2>2. UNCHANGED <<cursor, pc, mem, head, from, to, firstHead, origin>>
    BY <1>7 DEF ProduceLog
  <2>3. /\ \A k \in Logs : sent[k] > 0 => sent'[k] > 0
        /\ l \in Logs /\ sent'[l] > 0
    BY <2>1 DEF Types, Polling
  <2>4. Polling'
    <3>1. LogsIn(from, to)' = LogsIn(from, to) /\ ConfirmedHead' = ConfirmedHead
      BY <1>2, <2>2 DEF chainAndDriver, LogsIn, Canonical, ConfirmedHead
    <3>2. LogsIn(from, to) \subseteq Logs /\ seen \subseteq Logs
      BY DEF LogsIn, Types
    <3> QED
      BY <2>1, <2>2, <2>3, <3>1, <3>2 DEF Polling
  <2> QED
    BY <1>2, <1>7, <2>2, <2>3, <2>4, CatchingKept, QuietShared
<1>8. CASE FetchFails /\ UNCHANGED holed
  <2>1. /\ pc' = "idle" /\ mem' \in {mem, Watermark}
        /\ UNCHANGED <<cursor, seen, sent, firstHead, origin>>
    BY <1>8 DEF FetchFails, EndTick
  <2> QED
    BY <1>2, <1>8, <2>1, CatchingKept, QuietShared, PollingOff
<1>9. CASE ProduceFails /\ UNCHANGED holed
  <2>1. pc' = "idle" /\ UNCHANGED <<cursor, seen, sent, mem, firstHead, origin>>
    BY <1>9 DEF ProduceFails, EndTick
  <2> QED
    BY <1>2, <1>9, <2>1, CatchingKept, QuietShared, PollingOff
<1>10. CASE Prune /\ UNCHANGED holed
  <2>1. /\ seen' \subseteq seen
        /\ UNCHANGED <<cursor, sent, pc, mem, head, from, to, pending, firstHead, origin>>
    BY <1>10 DEF Prune
  <2>2. Polling'
    BY <1>2, <2>1 DEF Polling, chainAndDriver, LogsIn, Canonical, ConfirmedHead
  <2> QED
    BY <1>2, <1>10, <2>1, <2>2, CatchingKept, QuietShared
<1>11. CASE AdvanceCursor /\ UNCHANGED holed
  <2>1. RangeAccepted /\ Persist /\ mem' = to
    BY <1>11 DEF AdvanceCursor
  <2>2. (firstHead # -1 => firstHead' = firstHead) /\ to # -1
    BY <2>1, AcceptedRange DEF Types
  <2>3. holed' = (holed \/ (mem = -1 /\ mem' = -1))
    BY <1>11, <2>1, <2>2 DEF Types
  <2> QED
    BY <1>2, <2>1, <2>2, <2>3, AfterRange, CatchingKept, PersistShared
<1>12. CASE AdvanceCursorFails /\ holed' = (holed \/ mem = -1)
  <2>1. RangeAccepted /\ UNCHANGED mem /\ (Persist \/ UNCHANGED <<cursor, origin>>)
    BY <1>12 DEF AdvanceCursorFails
  <2>2. firstHead # -1 => firstHead' = firstHead
    BY <2>1, AcceptedRange
  <2>3. holed' = (holed \/ mem = -1) /\ holed' = (holed \/ (mem = -1 /\ mem' = -1))
    BY <1>12, <2>1
  <2>4. Shared' /\ LiveCovered'
    BY <1>2, <2>1, <2>3, PersistShared, NotPersistedShared
  <2> QED
    BY <1>2, <2>1, <2>2, <2>4, AfterRange, CatchingKept
<1> QED
  BY <1>3, <1>4, <1>5, <1>6, <1>7, <1>8, <1>9, <1>10, <1>11, <1>12 DEF LiveStep, Tick

pollerState == <<seen, sent, pc, mem, head, from, to, pending, firstHead, origin>>

\* A step of catch-up leaves the poller as it is ...
LEMMA PollingKept ==
    ASSUME Polling, UNCHANGED pollerState, UNCHANGED <<tip, canon>>
    PROVE  Polling'
BY DEF Polling, pollerState, ConfirmedHead, LogsIn, Canonical

\* ... and all it does to what is shared is to handle more logs.
LEMMA HandledGrows ==
    ASSUME Shared, LiveCovered, UNCHANGED pollerState,
           UNCHANGED <<tip, canon, cursor, holed, anew>>,
           \A l \in Logs : Handled(l) => Handled(l)'
    PROVE  Shared' /\ LiveCovered'
<1>1. Shared'
  BY DEF Shared, pollerState, ConfirmedHead
<1>2. LiveCovered'
  BY DEF LiveCovered, Ingested, pollerState, Canonical
<1> QED
  BY <1>1, <1>2

\* One log of the batch is handled.
LEMMA BatchShrinks ==
    ASSUME Types, Catching, run = "land", NEW l \in batch, batch' = batch \ {l},
           UNCHANGED <<tip, canon, firstHead, floor, run, mode, at, upto, chunkEnd>>,
           \A k \in Logs : Handled(k) => Handled(k)', Handled(l)'
    PROVE  Catching'
<1>1. /\ LogsIn(at, chunkEnd)' = LogsIn(at, chunkEnd) /\ LogsIn(at, chunkEnd) \subseteq Logs
      /\ ConfirmedHead' = ConfirmedHead /\ GapStart' = GapStart
  BY DEF LogsIn, Canonical, ConfirmedHead, GapStart
<1>2. \A k \in Logs : Canonical(k)' = Canonical(k)
  BY DEF Canonical
<1> QED
  BY <1>1, <1>2 DEF Catching

\* onChunkComplete: the floor reaches the end of the chunk, and nothing up to
\* it is missing.
LEMMA FloorRises ==
    ASSUME Types, Catching, Shared, Checkpoint, UNCHANGED firstHead
    PROVE  Catching'
<1>1. /\ run = "land" /\ batch = {} /\ run' = "checkpoint" /\ floor' = chunkEnd
      /\ UNCHANGED <<tip, canon, archived, dlq, lost, mode, at, upto, chunkEnd>>
  BY DEF Checkpoint, chainVars, archiveVars
<1>2. /\ ConfirmedHead' = ConfirmedHead /\ ConfirmedHead \in 0..MaxTip /\ ConfirmedHead <= tip
      /\ chunkEnd <= ConfirmedHead /\ firstHead # -1 /\ upto = firstHead
  BY <1>1, ConfirmedHeadType DEF Catching, Shared, ConfirmedHead, Types
<1>3. ASSUME NEW l \in Logs \ Malformed, Canonical(l), ActiveFrom <= BlockOf[l],
             BlockOf[l] <= chunkEnd
      PROVE  Handled(l)
  <2>1. CASE BlockOf[l] <= floor
    BY <1>3, <2>1 DEF Catching
  <2>2. CASE ~(BlockOf[l] <= floor)
    <3>1. at <= BlockOf[l]
      BY <1>1, <1>3, <2>2 DEF Catching, GapStart, Types
    <3>2. l \in LogsIn(at, chunkEnd) \ Malformed
      BY <1>2, <1>3, <3>1 DEF LogsIn, Types
    <3> QED
      BY <1>1, <3>2 DEF Catching
  <2> QED
    BY <2>1, <2>2
<1> QED
  BY <1>1, <1>2, <1>3 DEF Catching, Canonical, Handled

\* ... then the cursor: what it passes is below the floor.
LEMMA CursorFollowsFloor ==
    ASSUME Types, Catching, Shared, LiveCovered, AdvancePollCursor, UNCHANGED pollerState,
           UNCHANGED <<holed, anew>>
    PROVE  Catching' /\ Shared' /\ LiveCovered'
<1>1. /\ run = "checkpoint" /\ run' = "scan" /\ at' = chunkEnd + 1
      /\ cursor' = IF cursor > chunkEnd THEN cursor ELSE chunkEnd
      /\ UNCHANGED <<tip, canon, floor, archived, dlq, lost, mode, upto>>
  BY DEF AdvancePollCursor, WritePollCursor, chainVars, checkpointVars, archiveVars
<1>2. /\ floor = chunkEnd /\ floor <= ConfirmedHead /\ firstHead # -1
      /\ ConfirmedHead' = ConfirmedHead /\ ConfirmedHead \in 0..MaxTip
  BY <1>1, ConfirmedHeadType DEF Catching, ConfirmedHead, Types
<1>3. Catching'
  BY <1>1, <1>2 DEF Catching, Canonical, Handled, GapStart, pollerState, Types
<1>4. Shared'
  BY <1>1, <1>2 DEF Shared, pollerState, Types
<1>5. LiveCovered'
  <2> SUFFICES ASSUME ~holed, NEW l \in Logs \ Malformed, Canonical(l),
                      ActiveFrom <= BlockOf[l], BlockOf[l] <= cursor',
                      origin <= BlockOf[l], anew <= BlockOf[l]
               PROVE  Ingested(l)
    BY <1>1 DEF LiveCovered, Ingested, pollerState, Canonical, Handled
  <2>1. CASE BlockOf[l] <= cursor
    BY <2>1 DEF LiveCovered
  <2>2. CASE ~(BlockOf[l] <= cursor)
    BY <1>1, <1>2, <2>2 DEF Catching, Ingested, Types
  <2> QED
    BY <2>1, <2>2
<1> QED
  BY <1>3, <1>4, <1>5

\* A run that is over holds nothing.
LEMMA RunEnds ==
    ASSUME Catching, run' = "none", UNCHANGED <<tip, canon, floor, archived, dlq, lost>>
    PROVE  Catching'
BY DEF Catching, Canonical, Handled, ConfirmedHead

LEMMA CatchUpKeeps ==
    ASSUME Types, Polling, Catching, Shared, LiveCovered, CatchUpStep
    PROVE  Polling' /\ Catching' /\ Shared' /\ LiveCovered'
<1>1. UNCHANGED pollerState /\ UNCHANGED <<holed, anew>>
  BY DEF CatchUpStep, pollerOnly, bootVars, pollerState, tickVars, rangeVars
<1>2. UNCHANGED firstHead
  BY <1>1 DEF pollerState
<1>3. UNCHANGED <<tip, canon>>
  BY DEF CatchUpStep, Work, Land, FetchChunk, ArchiveLog, DeadLetter, DropLog, NextOfBatch,
     Checkpoint, AdvancePollCursor, WritePollCursor, Complete, Abandon, chainVars
<1>4. Polling'
  BY <1>1, <1>3, PollingKept
<1> USE DEF chainVars, checkpointVars, archiveVars
<1>5. CASE FetchChunk
  <2>1. PICK end \in at..upto : chunkEnd' = end /\ batch' = LogsIn(at, end) \cap (Logs \ Malformed)
    BY <1>5 DEF FetchChunk
  <2>2. /\ run = "scan" /\ run' = "land"
        /\ UNCHANGED <<cursor, floor, archived, dlq, lost, mode, at, upto>>
    BY <1>5 DEF FetchChunk
  <2>3. Catching'
    <3>1. /\ LogsIn(at, chunkEnd)' = LogsIn(at, end) /\ LogsIn(at, end) \subseteq Logs
          /\ ConfirmedHead' = ConfirmedHead
      BY <1>3, <2>1, <2>2 DEF LogsIn, Canonical, ConfirmedHead
    <3>2. at <= end /\ end <= upto
      BY <2>1 DEF Types
    <3>3. \A l \in Logs : Canonical(l)' = Canonical(l) /\ Handled(l)' = Handled(l)
      BY <1>3, <2>2 DEF Canonical, Handled
    <3> QED
      BY <1>2, <2>1, <2>2, <3>1, <3>2, <3>3 DEF Catching, GapStart
  <2>4. \A l \in Logs : Handled(l) => Handled(l)'
    BY <2>2 DEF Handled
  <2> QED
    BY <1>1, <1>3, <1>4, <2>2, <2>3, <2>4, HandledGrows
<1>6. CASE Land
  <2>1. PICK l \in batch :
          /\ NextOfBatch(l)
          /\ archived \subseteq archived' /\ dlq \subseteq dlq' /\ lost \subseteq lost'
          /\ l \in archived' \cup dlq' \cup lost'
    BY <1>6 DEF Land, ArchiveLog, DeadLetter, DropLog
  <2>2. /\ run = "land" /\ batch' = batch \ {l}
        /\ UNCHANGED <<cursor, floor, run, mode, at, upto, chunkEnd>>
    BY <2>1 DEF NextOfBatch
  <2>3. (\A k \in Logs : Handled(k) => Handled(k)') /\ Handled(l)'
    BY <2>1 DEF Handled
  <2>4. Catching'
    BY <1>2, <1>3, <2>2, <2>3, BatchShrinks
  <2> QED
    BY <1>1, <1>3, <1>4, <2>2, <2>3, <2>4, HandledGrows
<1>7. CASE Checkpoint
  <2>1. UNCHANGED <<cursor, archived, dlq, lost>>
    BY <1>7 DEF Checkpoint
  <2>2. \A l \in Logs : Handled(l) => Handled(l)'
    BY <2>1 DEF Handled
  <2> QED
    BY <1>1, <1>2, <1>3, <1>4, <1>7, <2>1, <2>2, FloorRises, HandledGrows
<1>8. CASE AdvancePollCursor
  BY <1>1, <1>4, <1>8, CursorFollowsFloor
<1>9. CASE Complete \/ Abandon
  <2>1. run' = "none" /\ UNCHANGED <<cursor, archived, dlq, lost>>
    BY <1>9 DEF Complete, Abandon, EndRun
  <2>2. UNCHANGED floor
    <3>1. mode = "catch-up" \/ Abandon
      BY <1>9 DEF Complete, Catching
    <3> QED
      BY <1>9, <3>1 DEF Complete, Abandon
  <2>3. \A l \in Logs : Handled(l) => Handled(l)'
    BY <2>1 DEF Handled
  <2> QED
    BY <1>1, <1>3, <1>4, <2>1, <2>2, <2>3, RunEnds, HandledGrows
<1> QED
  BY <1>5, <1>6, <1>7, <1>8, <1>9 DEF CatchUpStep, Work

LEMMA BootKeeps ==
    ASSUME Types, Polling, Catching, Shared, LiveCovered, BootCatchUp
    PROVE  Polling' /\ Catching' /\ Shared' /\ LiveCovered'
<1>1. UNCHANGED pollerState /\ UNCHANGED <<holed, anew>> /\ firstHead # -1
  BY DEF BootCatchUp, pollerOnly, pollerState, tickVars, rangeVars
<1>2. UNCHANGED <<tip, canon, cursor, floor, archived, dlq, lost>>
  BY DEF BootCatchUp, BeginCatchUp, Begin, chainVars, archiveVars, driverVars, checkpointVars,
     runVars
<1>3. \A l \in Logs : Handled(l) => Handled(l)'
  BY <1>2 DEF Handled
<1>4. Catching'
  <2>1. CASE BeginCatchUp(firstHead)
    <3>1. run' = "scan" /\ mode' = "catch-up" /\ at' = GapStart /\ upto' = firstHead
      BY <2>1 DEF BeginCatchUp, Begin
    <3> QED
      BY <1>1, <1>2, <3>1
         DEF Catching, pollerState, Canonical, Handled, ConfirmedHead, GapStart
  <2>2. CASE UNCHANGED driverVars
    BY <1>1, <1>2, <2>2 DEF Catching, pollerState, driverVars, Canonical, LogsIn, Handled,
       ConfirmedHead, GapStart, runVars
  <2> QED
    BY <2>1, <2>2 DEF BootCatchUp
<1> QED
  BY <1>1, <1>2, <1>3, <1>4, PollingKept, HandledGrows

\* A process that stops while it is holed leaves no claim up to the cursor.
LEMMA StopKeeps ==
    ASSUME Types, Polling, Catching, Shared, LiveCovered, StopProcess
    PROVE  Polling' /\ Catching' /\ Shared' /\ LiveCovered'
<1>1. /\ pc' = "down" /\ mem' = -2 /\ firstHead' = -1 /\ run' = "none" /\ holed' = FALSE
      /\ anew' = IF holed THEN cursor + 1 ELSE anew
      /\ UNCHANGED <<tip, canon, cursor, seen, sent, origin, floor, archived, dlq, lost>>
  BY DEF StopProcess, Stop, EndTick, EndRange, EndRun, chainVars, dbVars, checkpointVars,
     archiveVars
<1>2. Polling'
  BY <1>1 DEF Polling
<1>3. Catching'
  BY <1>1, RunEnds
<1>4. Shared'
  BY <1>1, ConfirmedHeadType DEF Types, Shared, ConfirmedHead
<1>5. LiveCovered'
  BY <1>1 DEF Types, LiveCovered, Ingested, Canonical, Handled
<1> QED
  BY <1>2, <1>3, <1>4, <1>5

\* The chain moves above the confirmed head only.
LEMMA ChainKeeps ==
    ASSUME Types, Polling, Catching, Shared, LiveCovered, ChainStep
    PROVE  Polling' /\ Catching' /\ Shared' /\ LiveCovered'
<1>1. /\ ConfirmedHead \in 0..MaxTip /\ ConfirmedHead' \in 0..MaxTip
      /\ ConfirmedHead <= ConfirmedHead' /\ ConfirmedHead <= tip
      /\ \A l \in Logs : BlockOf[l] <= ConfirmedHead => Canonical(l)' = Canonical(l)
  <2>1. ChainNext /\ tip \in 0..MaxTip /\ canon \in [0..MaxTip -> {0, 1}]
    BY DEF ChainStep, Types
  <2>2. ConfirmedHead' \in 0..MaxTip
    BY <2>1, ChainNextTypes DEF ConfirmedHead
  <2> QED
    BY <2>1, <2>2, ConfirmedHeadType, ConfirmedStays
<1>2. UNCHANGED pollerState /\ UNCHANGED <<cursor, holed, anew, started, floor, archived, dlq, lost,
                                           run, mode, at, upto, chunkEnd, batch>>
  BY DEF ChainStep, pollerOnly, pollerState, driverVars, checkpointVars, archiveVars, bootVars,
     runVars, tickVars, rangeVars
<1>3. ASSUME NEW first, NEW last \in 0..MaxTip, last <= ConfirmedHead,
             NEW l \in LogsIn(first, last)'
      PROVE  l \in LogsIn(first, last)
  <2>1. l \in Logs /\ Canonical(l)' /\ BlockOf[l] <= last /\ first <= BlockOf[l]
    BY DEF LogsIn, Canonical
  <2>2. BlockOf[l] <= ConfirmedHead /\ BlockOf[l] <= tip
    BY <1>1, <1>3, <2>1 DEF Types
  <2> QED
    BY <1>1, <2>1, <2>2 DEF LogsIn
<1>4. Polling'
  <2>1. pc = "dispatch" => \A l \in LogsIn(from, to)' \ Malformed : l \in pending \/ sent[l] > 0
    <3> SUFFICES ASSUME pc = "dispatch" 
                 PROVE \A l \in LogsIn(from, to)' \ Malformed : l \in pending \/ sent[l] > 0
      OBVIOUS
    <3>1. to \in 0..MaxTip /\ to <= ConfirmedHead /\ from' = from /\ to' = to
      BY <1>1, <1>2 DEF Polling, Types, pollerState
    <3>2. \A l \in LogsIn(from, to)' : l \in LogsIn(from, to)
      BY <1>3, <3>1
    <3> QED
      BY <3>2 DEF Polling
  <2> QED
    BY <1>1, <1>2, <2>1 DEF Polling, pollerState, Types
<1>5. Catching'
  <2>1. run = "land" => \A l \in LogsIn(at, chunkEnd)' \ Malformed : l \in batch \/ Handled(l)
    <3> SUFFICES ASSUME run = "land" 
                 PROVE \A l \in LogsIn(at, chunkEnd)' \ Malformed : l \in batch \/ Handled(l)
      OBVIOUS
    <3>1. chunkEnd \in 0..MaxTip /\ chunkEnd <= ConfirmedHead /\ at' = at /\ chunkEnd' = chunkEnd
      BY <1>1, <1>2 DEF Catching, Shared, Types
    <3>2. \A l \in LogsIn(at, chunkEnd)' : l \in LogsIn(at, chunkEnd)
      BY <1>3, <3>1
    <3> QED
      BY <3>2 DEF Catching
  <2>2. ASSUME NEW l \in Logs \ Malformed, Canonical(l)', ActiveFrom <= BlockOf[l],
               BlockOf[l] <= floor
        PROVE  Handled(l)
    <3>1. BlockOf[l] <= ConfirmedHead
      BY <1>1, <2>2 DEF Catching, Types
    <3> QED
      BY <1>1, <2>2, <3>1 DEF Catching
  <2>3. \A l \in Logs : Handled(l)' = Handled(l)
    BY <1>2 DEF Handled
  <2>4. floor <= ConfirmedHead' /\ GapStart' = GapStart /\ firstHead' = firstHead
    BY <1>1, <1>2 DEF Catching, GapStart, pollerState, Types
  <2>5. \A l \in Logs \ Malformed :
           (Canonical(l) /\ ActiveFrom <= BlockOf[l] /\ BlockOf[l] <= floor => Handled(l))'
    BY <1>2, <2>2, <2>3
  <2>6. run' = "land" => \A l \in LogsIn(at, chunkEnd)' \ Malformed : l \in batch' \/ Handled(l)'
    <3>1. LogsIn(at, chunkEnd)' \subseteq Logs
      BY DEF LogsIn
    <3> QED
      BY <1>2, <2>1, <2>3, <3>1
  <2> QED
    BY <1>2, <2>4, <2>5, <2>6 DEF Catching
<1>6. Shared'
  BY <1>1, <1>2 DEF Shared, pollerState, Types
<1>7. LiveCovered'
  <2> SUFFICES ASSUME ~holed, NEW l \in Logs \ Malformed, Canonical(l)',
                      ActiveFrom <= BlockOf[l], BlockOf[l] <= cursor,
                      origin <= BlockOf[l], anew <= BlockOf[l]
               PROVE  Ingested(l)
    BY <1>2 DEF LiveCovered, Ingested, pollerState, Handled
  <2>1. BlockOf[l] <= ConfirmedHead
    BY <1>1 DEF Shared, Types
  <2> QED
    BY <1>1, <2>1 DEF LiveCovered
<1> QED
  BY <1>4, <1>5, <1>6, <1>7

LEMMA IInvInit == Init => IInv
<1> SUFFICES ASSUME Init PROVE IInv
  OBVIOUS
<1>1. /\ tip = InitTip /\ canon = [b \in 0..MaxTip |-> 0]
      /\ cursor = -1 /\ seen = {} /\ sent = [l \in Logs |-> 0] /\ pc = "down" /\ mem = -2
      /\ head = 0 /\ chunk = 0 /\ from = 0 /\ to = 0 /\ pending = {} /\ firstHead = -1
      /\ faults = 0 /\ origin = 0 /\ started = -1 /\ floor = -1
      /\ archived = {} /\ dlq = {} /\ lost = {} /\ run = "none" /\ mode = "fresh"
      /\ at = 0 /\ upto = 0 /\ chunkEnd = 0 /\ batch = {} /\ failures = 0 /\ unsettled = {}
      /\ caughtUp = FALSE /\ holed = FALSE /\ anew = 0
  BY DEF Init, PollerInit, DriverInit, ChainInit
<1>2. 0 \in 0..MaxTip /\ 0 \in 0..(MaxTip + 1) /\ 0 \in 0..MaxFailures
  OBVIOUS
<1>3. Types
  BY <1>1, <1>2 DEF Types
<1>4. ConfirmedHead \in 0..MaxTip
  BY <1>3, ConfirmedHeadType DEF Types
<1>5. Polling /\ Catching /\ Shared /\ LiveCovered
  BY <1>1, <1>4 DEF Polling, Catching, Shared, LiveCovered
<1> QED
  BY <1>3, <1>5, TypesAreTypeOK DEF IInv

LEMMA IInvNext == IInv /\ [Next]_vars => IInv'
<1> SUFFICES ASSUME IInv, [Next]_vars PROVE IInv'
  OBVIOUS
<1>1. Types /\ Polling /\ Catching /\ Shared /\ LiveCovered
  BY TypesAreTypeOK DEF IInv
<1>2. TypeOK'
  <2>1. Types'
    BY <1>1, TypesStep
  <2>2. (Types <=> TypeOK)'
    BY TypesAreTypeOK, PTL
  <2> QED
    BY <2>1, <2>2
<1>3. CASE LiveStep
  BY <1>1, <1>2, <1>3, PollerKeeps DEF IInv
<1>4. CASE BootCatchUp
  BY <1>1, <1>2, <1>4, BootKeeps DEF IInv
<1>5. CASE CatchUpStep
  BY <1>1, <1>2, <1>5, CatchUpKeeps DEF IInv
<1>6. CASE StopProcess
  BY <1>1, <1>2, <1>6, StopKeeps DEF IInv
<1>7. CASE ChainStep
  BY <1>1, <1>2, <1>7, ChainKeeps DEF IInv
<1>8. CASE UNCHANGED vars
  BY <1>1, <1>2, <1>8
     DEF IInv, Polling, Catching, Shared, LiveCovered, Ingested, Canonical, LogsIn,
     ConfirmedHead, Handled, GapStart, vars, chainVars, pollerOnly, driverVars, checkpointVars,
     archiveVars, bootVars, runVars, tickVars, rangeVars
<1> QED
  BY <1>3, <1>4, <1>5, <1>6, <1>7, <1>8 DEF Next

LEMMA IInvHolds == Spec => []IInv
BY IInvInit, IInvNext, PTL DEF Spec

\* What poller and catch-up share and what each keeps stays well typed together,
\* through every crash, however the cursor is moved.
THEOREM TypeCorrect == Spec => []TypeOK
<1>1. IInv => TypeOK
  BY DEF IInv
<1> QED
  BY <1>1, IInvHolds, PTL

\* Nothing final is missing below the shared cursor, although two writers move it:
\* the poller moves it only past what it sent (Polling), catch-up only past what
\* its floor has handled (Catching), and where the two meet is a process's first
\* head (Shared).
THEOREM CursorCoversBoth == Spec => []CoveredBelowCursor
<1>1. IInv => CoveredBelowCursor
  <2> SUFFICES ASSUME IInv, ~holed, NEW l \in Logs \ Malformed, Canonical(l),
                      ActiveFrom <= BlockOf[l], BlockOf[l] <= cursor,
                      firstHead # -1 /\ floor >= firstHead
               PROVE  Ingested(l)
    BY DEF IInv, LiveCovered, CoveredBelowCursor
  <2>1. CASE BlockOf[l] <= floor
    BY <2>1 DEF IInv, Catching, Ingested
  <2>2. CASE ~(BlockOf[l] <= floor)
    <3>1. origin <= BlockOf[l] /\ anew <= BlockOf[l]
      <4>1. Types /\ Shared /\ BlockOf[l] \in 0..MaxTip
        BY TypesAreTypeOK DEF IInv
      <4> QED
        BY <2>2, <4>1 DEF Shared, Types
    <3> QED
      BY <3>1 DEF IInv, LiveCovered
  <2> QED
    BY <2>1, <2>2
<1> QED
  BY <1>1, IInvHolds, PTL
=============================================================================
