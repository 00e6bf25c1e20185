----------------------- MODULE DerivationQueueProofs ------------------------
(***************************************************************************)
(* Lemmas about DerivationQueue for the proofs about the modules that      *)
(* extend it: which row of a batch is applied next, and what the actions   *)
(* of the chain, the archive and the worker's tick preserve.               *)
(***************************************************************************)
EXTENDS DerivationQueue, SequenceTheorems, WellFoundedInduction, TLAPS

LessThan == {pair \in Nat \X Nat : pair[1] < pair[2]}

LEMMA LessThanIsWellFounded == IsWellFoundedOn(LessThan, Nat)
BY NatLessThanWellFounded, Zenon DEF OpToRel, LessThan

LEMMA NaturalsHaveLeast ==
    ASSUME NEW S, S \subseteq Nat, S # {}
    PROVE  \E least \in S : \A n \in S : least <= n
<1>1. PICK least \in S : \A n \in S : ~(<<n, least>> \in LessThan)
  BY LessThanIsWellFounded, WFMin, Zenon
<1>2. \A n \in S : ~(n < least)
  BY <1>1 DEF LessThan
<1> QED
  BY <1>2

\* Every batch has a first row: of the lowest chain, the lowest in the log.
LEMMA FirstIsFirst ==
    ASSUME QueueAssumption, batch \subseteq Positions, batch # {},
           \A i \in batch : log[i].src \in DOMAIN ChainOf
    PROVE  First \in batch /\ \A j \in batch : ~Precedes(j, First)
<1> DEFINE chain(i) == ChainOf[log[i].src]
           chains == {chain(i) : i \in batch}
<1>1. MaxLog \in Nat /\ batch \subseteq Nat /\ \A i \in batch : chain(i) \in Nat
  BY DEF QueueAssumption, Positions
<1>2. PICK low \in chains : \A c \in chains : low <= c
  <2>1. chains \subseteq Nat /\ chains # {}
    BY <1>1
  <2> QED
    BY <2>1, NaturalsHaveLeast
<1> DEFINE lowest == {i \in batch : chain(i) = low}
<1>3. PICK first \in lowest : \A i \in lowest : first <= i
  <2>1. lowest \subseteq Nat /\ lowest # {}
    BY <1>1, <1>2
  <2> QED
    BY <2>1, NaturalsHaveLeast
<1>4. \A j \in batch : ~Precedes(j, first)
  <2> SUFFICES ASSUME NEW j \in batch PROVE ~Precedes(j, first)
    OBVIOUS
  <2>1. chain(first) = low /\ chain(j) \in Nat /\ low \in Nat /\ low <= chain(j)
    BY <1>1, <1>2, <1>3
  <2>2. chain(j) = low => first <= j
    BY <1>3
  <2>3. first \in Nat /\ j \in Nat
    BY <1>1, <1>3
  <2> QED
    BY <2>1, <2>2, <2>3 DEF Precedes
<1> QED
  BY <1>3, <1>4 DEF First

-----------------------------------------------------------------------------
(* Types.                                                                  *)

\* Rows are archived once they are logged; a batch and derived rows are archived.
QueueShape ==
    /\ QueueTypeOK /\ Len(log) \in Nat
    /\ \A i \in Positions : received[i] > 0 => i <= Len(log)
    /\ batch \subseteq Archived /\ derived \subseteq Archived

LEMMA QueueShapeInit == QueueAssumption /\ QueueInit => QueueShape
BY DEF QueueAssumption, QueueInit, QueueShape, QueueTypeOK, Positions, Archived

LEMMA FaultIsBounded ==
    ASSUME QueueAssumption, faults \in 0..MaxFaults, Fault
    PROVE  faults' \in 0..MaxFaults
BY DEF QueueAssumption, Fault

LEMMA CountIsBounded ==
    ASSUME QueueAssumption, attempts \in [Positions -> 0..DlqThreshold], NEW i,
           attempts' = [attempts EXCEPT ![i] = IF @ < DlqThreshold THEN @ + 1 ELSE @]
    PROVE  attempts' \in [Positions -> 0..DlqThreshold]
<1>1. \A n \in 0..DlqThreshold :
         (IF n < DlqThreshold THEN n + 1 ELSE n) \in 0..DlqThreshold
  BY DEF QueueAssumption
<1>2. \A k \in Positions : attempts[k] \in 0..DlqThreshold
  OBVIOUS
<1> QED
  BY <1>1, <1>2

LEMMA EmitAppends ==
    ASSUME NEW E, log \in Seq(E), NEW events \in Seq(E), Emit(events)
    PROVE  /\ log' \in Seq(E) /\ Len(log') = Len(log) + Len(events) /\ Len(log') <= MaxLog
           /\ \A i \in 1..Len(log) : log'[i] = log[i]
           /\ \A i \in 1..Len(events) : log'[Len(log) + i] = events[i]
<1>1. Len(log) \in Nat /\ Len(events) \in Nat
  OBVIOUS
<1>2. log' = log \o events /\ Len(log) + Len(events) <= MaxLog
  BY DEF Emit
<1>3. /\ log' \in Seq(E) /\ Len(log') = Len(log) + Len(events)
      /\ \A i \in 1..(Len(log) + Len(events)) :
            log'[i] = IF i <= Len(log) THEN log[i] ELSE events[i - Len(log)]
  BY <1>2, ConcatProperties
<1>4. \A i \in 1..Len(events) :
         /\ Len(log) + i \in 1..(Len(log) + Len(events)) /\ ~(Len(log) + i <= Len(log))
         /\ (Len(log) + i) - Len(log) = i
  BY <1>1
<1> QED
  BY <1>1, <1>2, <1>3, <1>4

LEMMA QueueShapeEmit ==
    ASSUME QueueShape, Len(log') \in Nat, Len(log) <= Len(log'), Len(log') <= MaxLog,
           UNCHANGED <<received, rowVars, faults>>
    PROVE  QueueShape'
BY DEF QueueAssumption, QueueShape, QueueTypeOK, Positions, Archived, rowVars

LEMMA QueueShapeArchive ==
    ASSUME QueueAssumption, QueueShape, NEW i \in 1..Len(log), NEW time \in Nat \ {0},
           Archive(i, time), UNCHANGED <<log, rowVars, faults>>
    PROVE  QueueShape' /\ Archived' = Archived \cup {i}
<1>1. i \in Positions /\ received \in [Positions -> Nat]
  BY DEF QueueShape, QueueTypeOK, Positions, QueueAssumption
<1>2. received' = [received EXCEPT ![i] = time]
  BY DEF Archive
<1>3. Archived' = Archived \cup {i}
  BY <1>1, <1>2 DEF Archived
<1> QED
  BY <1>1, <1>2, <1>3, SMTT(60) DEF QueueShape, QueueTypeOK, rowVars

LEMMA QueueShapeWork ==
    ASSUME QueueShape, UNCHANGED <<log, received>>,
           batch' \subseteq Archived, derived' \subseteq derived \cup Archived,
           held' \subseteq Positions, quarantined' \subseteq Positions,
           attempts' \in [Positions -> 0..DlqThreshold], faults' \in 0..MaxFaults
    PROVE  QueueShape' /\ Archived' = Archived
BY DEF QueueShape, QueueTypeOK, Archived

=============================================================================
