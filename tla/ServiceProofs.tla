---------------------------- MODULE ServiceProofs ----------------------------
(***************************************************************************)
(* Proofs about the services around the indexer, for every value of their  *)
(* constants: ArchiveQueue, the queue of archived logs; AiBatches, the     *)
(* batches of the AI worker; RpcFailover, the client of the RPC providers. *)
(***************************************************************************)
EXTENDS ArchiveQueue, AiBatches, RpcFailover,
        FiniteSetTheorems, SequenceTheorems, WellFoundedInduction, TLAPS

-----------------------------------------------------------------------------
(* ArchiveQueue.                                                           *)

LEMMA NotInjective ==
    ASSUME NEW S, IsFiniteSet(S), NEW T, IsFiniteSet(T),
           Cardinality(S) < Cardinality(T), NEW f \in [T -> S]
    PROVE  \E j, k \in T : j # k /\ f[j] = f[k]
BY FS_PigeonHole

\* Of 1..(n + 1) one number is not taken by n rows.
LEMMA FreshIdIsFresh ==
    ASSUME NEW S, IsFiniteSet(S)
    PROVE  FreshId(S) \in Nat \ {0} /\ \A x \in S : x.id # FreshId(S)
<1> DEFINE n == Cardinality(S)
           T == 1..(n + 1)
           taker == [k \in T |-> CHOOSE x \in S : x.id = k]
<1>1. n \in Nat
  BY FS_CardinalityType
<1>2. IsFiniteSet(T) /\ Cardinality(S) < Cardinality(T)
  BY <1>1, FS_Interval
<1>3. \E k \in T : \A x \in S : x.id # k
  <2> SUFFICES ASSUME \A k \in T : \E x \in S : x.id = k
               PROVE  FALSE
    OBVIOUS
  <2>1. taker \in [T -> S] /\ \A k \in T : taker[k].id = k
    OBVIOUS
  <2> HIDE DEF taker, T
  <2>2. \E j, k \in T : j # k /\ taker[j] = taker[k]
    BY <1>2, <2>1, NotInjective
  <2> QED
    BY <2>1, <2>2
<1>4. FreshId(S) \in T /\ \A x \in S : x.id # FreshId(S)
  BY <1>3 DEF FreshId
<1> QED
  BY <1>1, <1>4

-----------------------------------------------------------------------------
(* Types.                                                                  *)

QueueShape == TypeOK /\ IsFiniteSet(jobs) /\ IsFiniteSet(dlq)

USE DEF Job, Letter, Stages, Idle, Work, Writing, Retrying

LEMMA QueueShapeInit == Init => QueueShape
BY ArchiveQueueAssumption, FS_EmptySet DEF Init, QueueShape, TypeOK

LEMMA RetriedOrDead ==
    ASSUME ArchiveQueueAssumption, NEW job \in Job, jobs \subseteq Job, dead \subseteq Job,
           IsFiniteSet(jobs), GiveBack(job)
    PROVE  /\ jobs' \subseteq Job /\ dead' \subseteq Job /\ IsFiniteSet(jobs')
           /\ \A other \in jobs \ {job} : other \in jobs'
           /\ \/ \E kept \in jobs' : kept.log = job.log /\ kept.state = "ready"
              \/ \E kept \in dead' : kept.log = job.log
           /\ dead \subseteq dead'
<1>1. CASE job.tries < RetryLimit
  <2> DEFINE again == [job EXCEPT !.tries = @ + 1, !.state = "ready"]
  <2>1. again \in Job /\ again.log = job.log /\ again.state = "ready"
    <3>1. job.tries + 1 \in 0..RetryLimit
      BY <1>1 DEF ArchiveQueueAssumption
    <3> QED
      BY <3>1
  <2>2. jobs' = (jobs \ {job}) \cup {again} /\ dead' = dead
    BY <1>1 DEF GiveBack
  <2> HIDE DEF again
  <2> QED
    BY <2>1, <2>2, FS_AddElement, FS_RemoveElement
<1>2. CASE ~(job.tries < RetryLimit)
  <2>1. jobs' = jobs \ {job} /\ dead' = dead \cup {job}
    BY <1>2 DEF GiveBack
  <2> QED
    BY <2>1, FS_RemoveElement
<1> QED
  BY <1>1, <1>2

LEMMA QueueTypes == ASSUME QueueShape, Next, ArchiveQueueAssumption PROVE TypeOK'
<1>1. CASE Produce
  <2>1. FreshId(jobs) \in Nat
    BY FreshIdIsFresh DEF QueueShape
  <2> QED
    BY <1>1, <2>1 DEF QueueShape, TypeOK, Produce, NewJob, inputVars, consumeVars, archiveVars,
       dlqVars
<1>2. CASE AddSource
  BY <1>2 DEF QueueShape, TypeOK, AddSource, inputVars, consumeVars, archiveVars, dlqVars
<1>3. CASE Scan
  BY <1>3 DEF QueueShape, TypeOK, Scan, Write, inputVars, consumeVars, archiveVars, dlqVars
<1>4. CASE Take
  BY <1>4 DEF QueueShape, TypeOK, Take, inputVars, consumeVars, archiveVars, dlqVars
<1>5. CASE Resolve
  BY <1>5 DEF QueueShape, TypeOK, Resolve, Miss, Step, Current, inputVars, consumeVars,
     archiveVars, dlqVars
<1>6. CASE Rebuild
  BY <1>6 DEF QueueShape, TypeOK, Rebuild, Step, Current, inputVars, consumeVars, archiveVars,
     dlqVars
<1>7. CASE RejectUnmapped
  <2>1. FreshId(dlq) \in Nat
    BY FreshIdIsFresh DEF QueueShape
  <2> QED
    BY <1>7, <2>1 DEF QueueShape, TypeOK, RejectUnmapped, AppendLetter, Step, Current,
       inputVars, consumeVars, archiveVars, dlqVars
<1>8. CASE RejectUndecodable
  BY <1>8 DEF QueueShape, TypeOK, RejectUndecodable, Upsert, Step, Current, inputVars,
     consumeVars, archiveVars, dlqVars
<1>9. CASE WriteClickHouse
  BY <1>9 DEF QueueShape, TypeOK, WriteClickHouse, Insert, Step, Current, inputVars,
     consumeVars, archiveVars, dlqVars
<1>10. CASE WriteRow
  BY <1>10 DEF QueueShape, TypeOK, WriteRow, Step, Current, inputVars, consumeVars,
     archiveVars, dlqVars
<1>11. CASE Ack
  BY <1>11 DEF QueueShape, TypeOK, Ack, inputVars, consumeVars, archiveVars, dlqVars
<1>12. CASE Expire
  <2>1. PICK job \in jobs : job.state = "orphan" /\ GiveBack(job)
    BY <1>12 DEF Expire
  <2>2. jobs' \subseteq Job /\ dead' \subseteq Job /\ \A other \in jobs \ {job} : other \in jobs'
    BY <2>1, RetriedOrDead DEF QueueShape, TypeOK
  <2> QED
    BY <1>12, <2>1, <2>2 DEF QueueShape, TypeOK, Expire, inputVars, archiveVars, dlqVars
<1>13. CASE Bridge
  <2>1. FreshId(dlq) \in Nat
    BY FreshIdIsFresh DEF QueueShape
  <2> QED
    BY <1>13, <2>1 DEF QueueShape, TypeOK, Bridge, AppendLetter, Fault, inputVars, consumeVars,
       archiveVars, dlqVars
<1>14. CASE Find
  BY <1>14 DEF QueueShape, TypeOK, Find, WriterAt, WriterTo, Return, inputVars, consumeVars,
     archiveVars, dlqVars
<1>15. CASE WriterInsert
  BY <1>15 DEF QueueShape, TypeOK, WriterInsert, WriterAt, WriterTo, Insert, inputVars,
     consumeVars, archiveVars, dlqVars
<1>16. CASE WriterRow
  BY <1>16 DEF QueueShape, TypeOK, WriterRow, WriterAt, Return, inputVars, consumeVars,
     archiveVars, dlqVars
<1>17. CASE RouteToDlq
  BY <1>17 DEF QueueShape, TypeOK, RouteToDlq, WriterAt, Upsert, Return, Fault, inputVars,
     consumeVars, archiveVars, dlqVars
<1>18. CASE BeginRetry
  BY <1>18 DEF QueueShape, TypeOK, BeginRetry, Command, inputVars, consumeVars, archiveVars,
     dlqVars
<1>19. CASE ReEnqueue
  <2>1. FreshId(jobs) \in Nat
    BY FreshIdIsFresh DEF QueueShape
  <2> QED
    BY <1>19, <2>1 DEF QueueShape, TypeOK, ReEnqueue, NewJob, inputVars, consumeVars,
       archiveVars, dlqVars
<1>20. CASE RunListener
  BY <1>20 DEF QueueShape, TypeOK, RunListener, Write, inputVars, consumeVars, archiveVars,
     dlqVars
<1>21. CASE MarkRetrySucceeded
  BY <1>21 DEF QueueShape, TypeOK, MarkRetrySucceeded, inputVars, consumeVars, archiveVars,
     dlqVars
<1>22. CASE Accept
  BY <1>22 DEF QueueShape, TypeOK, Accept, Command, inputVars, consumeVars, archiveVars, dlqVars
<1>23. CASE HandlerFails
  <2>1. jobs' \subseteq Job /\ dead' \subseteq Job
    BY <1>23, RetriedOrDead DEF QueueShape, TypeOK, HandlerFails
  <2> QED
    BY <1>23, <2>1 DEF QueueShape, TypeOK, HandlerFails, Fault, inputVars, archiveVars, dlqVars
<1>24. CASE BridgeGivesUp
  BY <1>24 DEF QueueShape, TypeOK, BridgeGivesUp, inputVars, consumeVars, archiveVars, dlqVars
<1>25. CASE WriterFails
  BY <1>25 DEF QueueShape, TypeOK, WriterFails, WriterAt, WriterTo, Fault, inputVars,
     consumeVars, archiveVars, dlqVars
<1>26. CASE RetryDies
  BY <1>26 DEF QueueShape, TypeOK, RetryDies, Fault, inputVars, consumeVars, archiveVars,
     dlqVars
<1>27. CASE Restart
  BY <1>27 DEF QueueShape, TypeOK, Restart, Fault, inputVars, consumeVars, archiveVars, dlqVars
<1> QED
  BY <1>1, <1>2, <1>3, <1>4, <1>5, <1>6, <1>7, <1>8, <1>9, <1>10, <1>11, <1>12, <1>13, <1>14,
     <1>15, <1>16, <1>17, <1>18, <1>19, <1>20, <1>21, <1>22, <1>23, <1>24, <1>25, <1>26,
     <1>27 DEF Next, Consume, WriterStep, RetryStep

LEMMA UpsertIsFinite ==
    ASSUME NEW l, NEW stage, NEW from, IsFiniteSet(dlq), Upsert(l, stage, from)
    PROVE  IsFiniteSet(dlq')
<1> DEFINE row == [log |-> l, stage |-> stage, id |-> 0, from |-> from]
           others == {x \in dlq : ~Collides(x, row)}
<1>1. IsFiniteSet(others)
  BY FS_Subset
<1>2. dlq' = others \cup {row}
  BY DEF Upsert
<1> QED
  BY <1>1, <1>2, FS_AddElement

LEMMA FiniteStep ==
    ASSUME QueueShape, Next, ArchiveQueueAssumption
    PROVE  IsFiniteSet(jobs') /\ IsFiniteSet(dlq')
<1> USE FS_AddElement, FS_RemoveElement, FS_Subset DEF QueueShape
<1>1. CASE Produce
  BY <1>1 DEF QueueShape, Produce, NewJob, inputVars, consumeVars, archiveVars, dlqVars
<1>2. CASE AddSource
  BY <1>2 DEF QueueShape, AddSource, inputVars, consumeVars, archiveVars, dlqVars
<1>3. CASE Scan
  BY <1>3 DEF QueueShape, Scan, Write, inputVars, consumeVars, archiveVars, dlqVars
<1>4. CASE Take
  BY <1>4 DEF QueueShape, Take, inputVars, consumeVars, archiveVars, dlqVars
<1>5. CASE Resolve
  BY <1>5 DEF QueueShape, Resolve, Miss, Step, Current, inputVars, consumeVars, archiveVars,
     dlqVars
<1>6. CASE Rebuild
  BY <1>6 DEF QueueShape, Rebuild, Step, Current, inputVars, consumeVars, archiveVars, dlqVars
<1>7. CASE RejectUnmapped
  BY <1>7 DEF QueueShape, RejectUnmapped, AppendLetter, Step, Current, inputVars, consumeVars,
     archiveVars, dlqVars
<1>8. CASE RejectUndecodable
  BY <1>8 DEF QueueShape, RejectUndecodable, Upsert, Step, Current, inputVars, consumeVars,
     archiveVars, dlqVars
<1>9. CASE WriteClickHouse
  BY <1>9 DEF QueueShape, WriteClickHouse, Insert, Step, Current, inputVars, consumeVars,
     archiveVars, dlqVars
<1>10. CASE WriteRow
  BY <1>10 DEF QueueShape, WriteRow, Step, Current, inputVars, consumeVars, archiveVars, dlqVars
<1>11. CASE Ack
  BY <1>11 DEF QueueShape, Ack, inputVars, consumeVars, archiveVars, dlqVars
<1>12. CASE Expire
  BY <1>12, RetriedOrDead DEF TypeOK, Expire, dlqVars
<1>13. CASE Bridge
  BY <1>13 DEF QueueShape, Bridge, AppendLetter, Fault, inputVars, consumeVars, archiveVars,
     dlqVars
<1>14. CASE Find
  BY <1>14 DEF QueueShape, Find, WriterAt, WriterTo, Return, inputVars, consumeVars,
     archiveVars, dlqVars
<1>15. CASE WriterInsert
  BY <1>15 DEF QueueShape, WriterInsert, WriterAt, WriterTo, Insert, inputVars, consumeVars,
     archiveVars, dlqVars
<1>16. CASE WriterRow
  BY <1>16 DEF QueueShape, WriterRow, WriterAt, Return, inputVars, consumeVars, archiveVars,
     dlqVars
<1>17. CASE RouteToDlq
  BY <1>17, UpsertIsFinite DEF RouteToDlq, consumeVars
<1>18. CASE BeginRetry
  BY <1>18 DEF QueueShape, BeginRetry, Command, inputVars, consumeVars, archiveVars, dlqVars
<1>19. CASE ReEnqueue
  BY <1>19 DEF ReEnqueue, dlqVars
<1>20. CASE RunListener
  BY <1>20 DEF QueueShape, RunListener, Write, inputVars, consumeVars, archiveVars, dlqVars
<1>21. CASE MarkRetrySucceeded
  BY <1>21 DEF QueueShape, MarkRetrySucceeded, inputVars, consumeVars, archiveVars, dlqVars
<1>22. CASE Accept
  BY <1>22 DEF QueueShape, Accept, Command, inputVars, consumeVars, archiveVars, dlqVars
<1>23. CASE HandlerFails
  BY <1>23, RetriedOrDead DEF TypeOK, HandlerFails, dlqVars
<1>24. CASE BridgeGivesUp
  BY <1>24 DEF QueueShape, BridgeGivesUp, inputVars, consumeVars, archiveVars, dlqVars
<1>25. CASE WriterFails
  BY <1>25 DEF QueueShape, WriterFails, WriterAt, WriterTo, Fault, inputVars, consumeVars,
     archiveVars, dlqVars
<1>26. CASE RetryDies
  BY <1>26 DEF QueueShape, RetryDies, Fault, inputVars, consumeVars, archiveVars, dlqVars
<1>27. CASE Restart
  <2> DEFINE orphaned == [job \in jobs |->
               IF job.state = "active" THEN [job EXCEPT !.state = "orphan"] ELSE job]
  <2>1. orphaned \in Surjection(jobs, jobs')
    BY <1>27 DEF Restart, Surjection
  <2> QED
    BY <1>27, <2>1, FS_Surjection DEF Restart, dlqVars
<1> QED
  BY <1>1, <1>2, <1>3, <1>4, <1>5, <1>6, <1>7, <1>8, <1>9, <1>10, <1>11, <1>12, <1>13, <1>14,
     <1>15, <1>16, <1>17, <1>18, <1>19, <1>20, <1>21, <1>22, <1>23, <1>24, <1>25, <1>26,
     <1>27 DEF Next, Consume, WriterStep, RetryStep

-----------------------------------------------------------------------------
(* Content and resolution.                                                 *)

\* Whoever is about to write a row has written its content.
ContentKept ==
    /\ RowHasContent
    /\ worker # Idle /\ worker.pc = "row" => ch[worker.job.log] > 0
    /\ writer # Idle /\ writer.pc = "row" => ch[writer.log] > 0

LEMMA ContentKeptStep == ASSUME QueueShape, ContentKept, Next PROVE ContentKept'
<1> USE DEF QueueShape, TypeOK, ContentKept, RowHasContent
<1>1. CASE WriteClickHouse
  BY <1>1 DEF ContentKept, WriteClickHouse, Insert, Step, Current, inputVars, consumeVars,
     archiveVars, dlqVars
<1>2. CASE WriterInsert
  BY <1>2 DEF ContentKept, WriterInsert, WriterAt, WriterTo, Insert, inputVars, consumeVars,
     archiveVars, dlqVars
<1>3. CASE WriteRow
  BY <1>3 DEF ContentKept, WriteRow, Step, Current, inputVars, consumeVars, archiveVars, dlqVars
<1>4. CASE WriterRow
  BY <1>4 DEF ContentKept, WriterRow, WriterAt, Return, inputVars, consumeVars, archiveVars,
     dlqVars
<1>5. CASE Find
  BY <1>5 DEF ContentKept, Find, WriterAt, WriterTo, Return, inputVars, consumeVars,
     archiveVars, dlqVars
<1>6. CASE RouteToDlq
  BY <1>6 DEF ContentKept, RouteToDlq, WriterAt, Upsert, Return, Fault, inputVars, consumeVars,
     archiveVars, dlqVars
<1>7. CASE Take
  BY <1>7 DEF ContentKept, Take, inputVars, consumeVars, archiveVars, dlqVars
<1>8. CASE Resolve
  BY <1>8 DEF ContentKept, Resolve, Miss, Step, Current, inputVars, consumeVars, archiveVars,
     dlqVars
<1>9. CASE Rebuild
  BY <1>9 DEF ContentKept, Rebuild, Step, Current, inputVars, consumeVars, archiveVars, dlqVars
<1>10. CASE RejectUnmapped
  BY <1>10 DEF ContentKept, RejectUnmapped, AppendLetter, Step, Current, inputVars,
     consumeVars, archiveVars, dlqVars
<1>11. CASE RejectUndecodable
  BY <1>11 DEF ContentKept, RejectUndecodable, Upsert, Step, Current, inputVars, consumeVars,
     archiveVars, dlqVars
<1>12. CASE Ack
  BY <1>12 DEF ContentKept, Ack, inputVars, consumeVars, archiveVars, dlqVars
<1>13. CASE HandlerFails
  BY <1>13 DEF ContentKept, HandlerFails, Fault, inputVars, consumeVars, archiveVars, dlqVars
<1>14. CASE Restart
  BY <1>14 DEF ContentKept, Restart, Fault, inputVars, consumeVars, archiveVars, dlqVars
<1>15. CASE Scan
  BY <1>15 DEF ContentKept, Scan, Write, inputVars, consumeVars, archiveVars, dlqVars
<1>16. CASE RunListener
  BY <1>16 DEF ContentKept, RunListener, Write, inputVars, consumeVars, archiveVars, dlqVars
<1>17. CASE WriterFails
  BY <1>17 DEF ContentKept, WriterFails, WriterAt, WriterTo, Fault, inputVars, consumeVars,
     archiveVars, dlqVars
<1>18. CASE RetryDies
  BY <1>18 DEF ContentKept, RetryDies, Fault, inputVars, consumeVars, archiveVars, dlqVars
<1>19. CASE Produce \/ AddSource \/ Expire \/ Bridge \/ BeginRetry \/ ReEnqueue
            \/ MarkRetrySucceeded \/ Accept \/ BridgeGivesUp
  BY <1>19 DEF ContentKept, Produce, NewJob, AddSource, Expire, Bridge, AppendLetter, Fault,
     BeginRetry, Command, ReEnqueue, MarkRetrySucceeded, Accept, BridgeGivesUp, inputVars,
     consumeVars, archiveVars, dlqVars
<1> QED
  BY <1>1, <1>2, <1>3, <1>4, <1>5, <1>6, <1>7, <1>8, <1>9, <1>10, <1>11, <1>12, <1>13, <1>14,
     <1>15, <1>16, <1>17, <1>18, <1>19 DEF Next, Consume, WriterStep, RetryStep

\* What the resolver was told when it took the job stays true.
Resolution ==
    /\ worker # Idle /\ worker.known => worker.job.log \in sources
    /\ UnmappedWasUnknown

LEMMA ResolutionStep == ASSUME QueueShape, Resolution, Next PROVE Resolution'
<1> USE DEF QueueShape, TypeOK, Resolution, UnmappedWasUnknown
<1>1. CASE Take
  <2>1. PICK job \in jobs :
           worker' = [pc |-> "resolve", job |-> [job EXCEPT !.state = "active"],
                      known |-> job.log \in sources]
    BY <1>1 DEF Take
  <2>2. worker'.job.log = job.log /\ worker'.known = (job.log \in sources)
    BY <2>1
  <2>3. worker'.pc = "resolve" /\ sources' = sources
    BY <1>1, <2>1 DEF Take, inputVars
  <2> QED
    BY <2>2, <2>3
<1>2. CASE Resolve
  BY <1>2 DEF Resolution, Resolve, Miss, Step, Current, inputVars, consumeVars, archiveVars,
     dlqVars
<1>3. CASE Rebuild
  BY <1>3 DEF Resolution, Rebuild, Step, Current, inputVars, consumeVars, archiveVars, dlqVars
<1>4. CASE RejectUnmapped
  BY <1>4 DEF Resolution, RejectUnmapped, AppendLetter, Step, Current, inputVars, consumeVars,
     archiveVars, dlqVars
<1>5. CASE RejectUndecodable
  BY <1>5 DEF Resolution, RejectUndecodable, Upsert, Step, Current, inputVars, consumeVars,
     archiveVars, dlqVars
<1>6. CASE WriteClickHouse
  BY <1>6 DEF Resolution, WriteClickHouse, Insert, Step, Current, inputVars, consumeVars,
     archiveVars, dlqVars
<1>7. CASE WriteRow
  BY <1>7 DEF Resolution, WriteRow, Step, Current, inputVars, consumeVars, archiveVars, dlqVars
<1>8. CASE Ack
  BY <1>8 DEF Resolution, Ack, inputVars, consumeVars, archiveVars, dlqVars
<1>9. CASE HandlerFails
  BY <1>9 DEF Resolution, HandlerFails, Fault, inputVars, consumeVars, archiveVars, dlqVars
<1>10. CASE Restart
  BY <1>10 DEF Resolution, Restart, Fault, inputVars, consumeVars, archiveVars, dlqVars
<1>11. CASE AddSource
  BY <1>11 DEF Resolution, AddSource, inputVars, consumeVars, archiveVars, dlqVars
<1>12. CASE Produce \/ Scan \/ Expire \/ Bridge \/ Find \/ WriterInsert \/ WriterRow
            \/ RouteToDlq \/ BeginRetry \/ ReEnqueue \/ RunListener
            \/ MarkRetrySucceeded \/ Accept \/ BridgeGivesUp \/ WriterFails \/ RetryDies
  BY <1>12 DEF Resolution, Produce, NewJob, Scan, Write, Expire, Bridge, AppendLetter, Fault,
     Find, WriterAt, WriterTo, Return, WriterInsert, Insert, WriterRow, RouteToDlq, Upsert,
     BeginRetry, Command, ReEnqueue, RunListener, MarkRetrySucceeded, Accept, BridgeGivesUp,
     WriterFails, RetryDies, inputVars, consumeVars, archiveVars, dlqVars
<1> QED
  BY <1>1, <1>2, <1>3, <1>4, <1>5, <1>6, <1>7, <1>8, <1>9, <1>10, <1>11, <1>12 DEF Next,
     Consume, WriterStep, RetryStep

-----------------------------------------------------------------------------
(* Retries of dead letters.                                                *)

\* The writer a retry has started writes the log of its letter, and the letter
\* stays until its log is accepted or has failed again.
Retries ==
    /\ writer # Idle /\ writer.who = "retry" =>
          retry # Idle /\ retry.pc = "written" /\ retry.letter.log = writer.log
    /\ retry # Idle =>
          \/ retry.letter.log \in accepted \cup absorbed
          \/ \E row \in dlq : Collides(row, retry.letter)

LEMMA RetriesStep == ASSUME QueueShape, Retries, Next PROVE Retries'
<1> USE DEF QueueShape, TypeOK, Retries, Collides
<1>1. CASE RejectUnmapped
  BY <1>1 DEF Retries, RejectUnmapped, AppendLetter, Step, Current, inputVars, consumeVars,
     archiveVars, dlqVars
<1>2. CASE RejectUndecodable
  BY <1>2 DEF Retries, RejectUndecodable, Upsert, Step, Current, inputVars, consumeVars,
     archiveVars, dlqVars
<1>3. CASE Bridge
  BY <1>3 DEF Retries, Bridge, AppendLetter, Fault, inputVars, consumeVars, archiveVars, dlqVars
<1>4. CASE Scan
  BY <1>4 DEF Retries, Scan, Write, inputVars, consumeVars, archiveVars, dlqVars
<1>5. CASE Find
  BY <1>5 DEF Retries, Find, WriterAt, WriterTo, Return, inputVars, consumeVars, archiveVars,
     dlqVars
<1>6. CASE WriterInsert
  BY <1>6 DEF Retries, WriterInsert, WriterAt, WriterTo, Insert, inputVars, consumeVars,
     archiveVars, dlqVars
<1>7. CASE WriterRow
  BY <1>7 DEF Retries, WriterRow, WriterAt, Return, inputVars, consumeVars, archiveVars, dlqVars
<1>8. CASE RouteToDlq
  BY <1>8 DEF Retries, RouteToDlq, WriterAt, Upsert, Return, Fault, inputVars, consumeVars,
     archiveVars, dlqVars
<1>9. CASE BeginRetry
  BY <1>9 DEF Retries, BeginRetry, Command, inputVars, consumeVars, archiveVars, dlqVars
<1>10. CASE ReEnqueue
  BY <1>10 DEF Retries, ReEnqueue, NewJob, inputVars, consumeVars, archiveVars, dlqVars
<1>11. CASE RunListener
  BY <1>11 DEF Retries, RunListener, Write, inputVars, consumeVars, archiveVars, dlqVars
<1>12. CASE MarkRetrySucceeded
  BY <1>12 DEF Retries, MarkRetrySucceeded, inputVars, consumeVars, archiveVars, dlqVars
<1>13. CASE Accept
  BY <1>13 DEF Retries, Accept, Command, inputVars, consumeVars, archiveVars, dlqVars
<1>14. CASE WriterFails
  BY <1>14 DEF Retries, WriterFails, WriterAt, WriterTo, Fault, inputVars, consumeVars,
     archiveVars, dlqVars
<1>15. CASE RetryDies
  BY <1>15 DEF Retries, RetryDies, Fault, inputVars, consumeVars, archiveVars, dlqVars
<1>16. CASE Produce \/ AddSource \/ Take \/ Resolve \/ Rebuild \/ WriteClickHouse
            \/ WriteRow \/ Ack \/ Expire \/ HandlerFails \/ BridgeGivesUp \/ Restart
  BY <1>16 DEF Retries, Produce, NewJob, AddSource, Take, Resolve, Miss, Step, Current,
     Rebuild, WriteClickHouse, Insert, WriteRow, Ack, Expire, HandlerFails, Fault,
     BridgeGivesUp, Restart, inputVars, consumeVars, archiveVars, dlqVars
<1> QED
  BY <1>1, <1>2, <1>3, <1>4, <1>5, <1>6, <1>7, <1>8, <1>9, <1>10, <1>11, <1>12, <1>13, <1>14,
     <1>15, <1>16 DEF Next, Consume, WriterStep, RetryStep

-----------------------------------------------------------------------------
(* No log vanishes.                                                        *)

\* What may not go before something else holds the log: a job that is not about
\* to be completed, a letter that is not about to be deleted.
JobHolds(l) ==
    \E job \in jobs :
        job.log = l /\ ~(worker # Idle /\ worker.pc = "ack" /\ worker.job = job)

LetterHolds(l) ==
    \E row \in dlq :
        row.log = l /\ ~(retry # Idle /\ retry.pc = "mark" /\ Collides(row, retry.letter))

Safe(l) ==
    \/ l \in rows \cup accepted \cup lost \cup absorbed
    \/ JobHolds(l) \/ LetterHolds(l)
    \/ \E job \in dead : job.log = l
    \/ writer # Idle /\ writer.log = l

Kept == \A l \in sent \cup scanned : Safe(l)

\* The log of a letter that is added is safe: were it the letter that a retry
\* is about to delete, the letter would be accepted or counted as absorbed.
LEMMA AppendedIsSafe ==
    ASSUME QueueShape, Retries, NEW l, NEW stage, AppendLetter(l, stage),
           retry' = retry, accepted' = accepted, lost' = lost
    PROVE  Safe(l)'
<1> DEFINE new == [log |-> l, stage |-> stage, id |-> FreshId(dlq), from |-> "queue"]
<1>1. new \in dlq' /\ new.log = l /\ absorbed' = absorbed
  BY DEF AppendLetter
<1>2. \A row \in dlq : row.id # new.id
  BY FreshIdIsFresh DEF QueueShape
<1> HIDE DEF new
<1>3. CASE retry # Idle /\ Collides(new, retry.letter)
  <2>1. ~ \E row \in dlq : Collides(row, retry.letter)
    BY <1>2, <1>3 DEF Collides
  <2>2. l \in accepted \cup absorbed
    BY <1>1, <1>3, <2>1 DEF Retries, Collides
  <2> QED
    BY <1>1, <2>2 DEF Safe
<1>4. CASE ~(retry # Idle /\ Collides(new, retry.letter))
  BY <1>1, <1>4 DEF Safe, LetterHolds
<1> QED
  BY <1>3, <1>4

LEMMA UpsertedIsSafe ==
    ASSUME QueueShape, NEW l, NEW stage, NEW from, Upsert(l, stage, from),
           \/ retry' = retry
           \/ retry # Idle /\ retry' = [retry EXCEPT !.pc = "mark"]
    PROVE  Safe(l)'
<1> DEFINE new == [log |-> l, stage |-> stage, id |-> 0, from |-> from]
<1>1. new \in dlq' /\ new.log = l
  BY DEF Upsert
<1>2. CASE retry # Idle /\ Collides(retry.letter, new)
  BY <1>2 DEF Upsert, Safe
<1>3. CASE ~(retry # Idle /\ Collides(retry.letter, new))
  <2>1. retry' # Idle => retry # Idle /\ retry'.letter = retry.letter
    BY DEF QueueShape, TypeOK
  <2>2. ~(retry' # Idle /\ Collides(new, retry'.letter))
    BY <1>3, <2>1 DEF Collides
  <2> HIDE DEF new
  <2> QED
    BY <1>1, <2>2 DEF Safe, LetterHolds
<1> QED
  BY <1>2, <1>3

\* Upsert replaces letters of the same log only.
LEMMA UpsertKeepsOthers ==
    ASSUME NEW l, NEW stage, NEW from, Upsert(l, stage, from)
    PROVE  \A row \in dlq : row.log # l => row \in dlq'
BY DEF Upsert, Collides

LEMMA KeptStep ==
    ASSUME QueueShape, Retries, Kept, Next, ArchiveQueueAssumption,
           NEW l \in sent' \cup scanned'
    PROVE  Safe(l)'
<1> USE DEF QueueShape, TypeOK, Retries, Kept, Safe, JobHolds, LetterHolds, Collides
<1>1. CASE Produce
  <2>1. PICK log \in Logs \ sent : sent' = sent \cup {log} /\ jobs' = jobs \cup {NewJob(log)}
    BY <1>1 DEF Produce
  <2>2. NewJob(log).log = log /\ NewJob(log) \notin jobs
    BY FreshIdIsFresh DEF NewJob
  <2>3. CASE l = log
    BY <1>1, <2>1, <2>2, <2>3 DEF Produce
  <2>4. CASE l # log
    <3>1. l \in sent \cup scanned
      BY <1>1, <2>1, <2>4 DEF Produce
    <3> QED
      BY <1>1, <2>1, <3>1 DEF Produce, archiveVars, dlqVars
  <2> QED
    BY <2>3, <2>4
<1>2. CASE AddSource
  BY <1>2 DEF Kept, AddSource, inputVars, consumeVars, archiveVars, dlqVars
<1>3. CASE Scan
  BY <1>3 DEF Kept, Scan, Write, inputVars, consumeVars, archiveVars, dlqVars
<1>4. CASE Take
  BY <1>4 DEF Kept, Take, inputVars, consumeVars, archiveVars, dlqVars
<1>5. CASE Resolve
  BY <1>5 DEF Kept, Resolve, Miss, Step, Current, inputVars, consumeVars, archiveVars, dlqVars
<1>6. CASE Rebuild
  BY <1>6 DEF Kept, Rebuild, Step, Current, inputVars, consumeVars, archiveVars, dlqVars
<1>7. CASE RejectUnmapped
  <2>1. CASE l = worker.job.log
    BY <1>7, <2>1, AppendedIsSafe DEF RejectUnmapped, Current
  <2>2. CASE l # worker.job.log
    <3>1. l \in sent \cup scanned /\ worker'.job = worker.job /\ dlq \subseteq dlq'
      BY <1>7 DEF RejectUnmapped, AppendLetter, Step, inputVars
    <3>2. JobHolds(l) => JobHolds(l)'
      BY <1>7, <2>2, <3>1 DEF RejectUnmapped
    <3>3. LetterHolds(l) => LetterHolds(l)'
      BY <1>7, <3>1 DEF RejectUnmapped
    <3> HIDE DEF JobHolds, LetterHolds
    <3> QED
      BY <1>7, <3>1, <3>2, <3>3 DEF RejectUnmapped, AppendLetter, archiveVars
  <2> QED
    BY <2>1, <2>2
<1>8. CASE RejectUndecodable
  <2>1. CASE l = worker.job.log
    BY <1>8, <2>1, UpsertedIsSafe DEF RejectUndecodable, Current
  <2>2. CASE l # worker.job.log
    <3>1. l \in sent \cup scanned /\ worker'.job = worker.job
      BY <1>8 DEF RejectUndecodable, Step, inputVars
    <3>2. \A row \in dlq : row.log = l => row \in dlq'
      BY <1>8, <2>2, UpsertKeepsOthers DEF RejectUndecodable, Current
    <3>3. JobHolds(l) => JobHolds(l)'
      BY <1>8, <2>2, <3>1 DEF RejectUndecodable
    <3>4. LetterHolds(l) => LetterHolds(l)'
      BY <1>8, <3>2 DEF RejectUndecodable
    <3> HIDE DEF JobHolds, LetterHolds
    <3> QED
      BY <1>8, <3>1, <3>3, <3>4 DEF RejectUndecodable, Upsert, archiveVars
  <2> QED
    BY <2>1, <2>2
<1>9. CASE WriteClickHouse
  BY <1>9 DEF Kept, WriteClickHouse, Insert, Step, Current, inputVars, consumeVars,
     archiveVars, dlqVars
<1>10. CASE WriteRow
  BY <1>10 DEF Kept, WriteRow, Step, Current, inputVars, consumeVars, archiveVars, dlqVars
<1>11. CASE Ack
  BY <1>11 DEF Kept, Ack, inputVars, consumeVars, archiveVars, dlqVars
<1>12. CASE Expire
  <2>1. PICK job \in jobs : job.state = "orphan" /\ GiveBack(job)
    BY <1>12 DEF Expire
  <2>2. /\ \A other \in jobs \ {job} : other \in jobs'
        /\ \/ \E kept \in jobs' : kept.log = job.log /\ kept.state = "ready"
           \/ \E kept \in dead' : kept.log = job.log
        /\ dead \subseteq dead'
    BY <2>1, RetriedOrDead
  <2>3. worker' = worker /\ (worker # Idle => worker.job \in jobs' /\ worker.job # job)
    BY <1>12, <2>1, <2>2 DEF Expire
  <2>4. JobHolds(l) => Safe(l)'
    <3>1. CASE l = job.log
      BY <2>2, <2>3, <3>1
    <3>2. CASE l # job.log
      BY <2>2, <2>3, <3>2
    <3> QED
      BY <3>1, <3>2
  <2>5. LetterHolds(l) => LetterHolds(l)'
    BY <1>12 DEF Expire, dlqVars
  <2> HIDE DEF JobHolds, LetterHolds
  <2> QED
    BY <1>12, <2>2, <2>4, <2>5 DEF Expire, inputVars, archiveVars, dlqVars
<1>13. CASE Bridge
  <2>1. PICK job \in dead : AppendLetter(job.log, "archive_log") /\ dead \ {job} \subseteq dead'
    BY <1>13 DEF Bridge
  <2>2. CASE l = job.log
    BY <1>13, <2>1, <2>2, AppendedIsSafe DEF Bridge
  <2>3. CASE l # job.log
    <3>1. JobHolds(l) => JobHolds(l)'
      BY <1>13 DEF Bridge
    <3>2. LetterHolds(l) => LetterHolds(l)'
      BY <1>13, <2>1 DEF Bridge, AppendLetter
    <3> HIDE DEF JobHolds, LetterHolds
    <3> QED
      BY <1>13, <2>1, <2>3, <3>1, <3>2 DEF Bridge, AppendLetter, inputVars, archiveVars
  <2> QED
    BY <2>2, <2>3
<1>14. CASE Find
  BY <1>14 DEF Kept, Find, WriterAt, WriterTo, Return, inputVars, consumeVars, archiveVars,
     dlqVars
<1>15. CASE WriterInsert
  BY <1>15 DEF Kept, WriterInsert, WriterAt, WriterTo, Insert, inputVars, consumeVars,
     archiveVars, dlqVars
<1>16. CASE WriterRow
  BY <1>16 DEF Kept, WriterRow, WriterAt, Return, inputVars, consumeVars, archiveVars, dlqVars
<1>17. CASE RouteToDlq
  <2>1. JobHolds(l) => JobHolds(l)'
    BY <1>17 DEF RouteToDlq, consumeVars
  <2>2. /\ l \in sent \cup scanned /\ rows' = rows /\ dead' = dead /\ accepted' = accepted
        /\ lost \subseteq lost' /\ absorbed \subseteq absorbed'
    BY <1>17 DEF RouteToDlq, Upsert, inputVars, archiveVars, consumeVars
  <2>3. \/ retry' = retry
        \/ retry # Idle /\ retry' = [retry EXCEPT !.pc = "mark"] /\ retry.letter.log = writer.log
    BY <1>17 DEF RouteToDlq, Return, WriterAt
  <2>4. CASE l = writer.log
    <3>1. CASE lost' = lost \cup {writer.log}
      BY <2>4, <3>1
    <3>2. CASE lost' # lost \cup {writer.log}
      <4>1. PICK stage : Upsert(l, stage, "writer")
        BY <1>17, <2>4, <3>2 DEF RouteToDlq
      <4> QED
        BY <2>3, <4>1, UpsertedIsSafe
    <3> QED
      BY <3>1, <3>2
  <2>5. CASE l # writer.log
    <3>1. \A row \in dlq : row.log = l => row \in dlq'
      BY <1>17, <2>5, UpsertKeepsOthers DEF RouteToDlq
    <3>2. LetterHolds(l) => LetterHolds(l)'
      BY <2>3, <2>5, <3>1
    <3> HIDE DEF JobHolds, LetterHolds
    <3> QED
      BY <2>1, <2>2, <2>5, <3>2
  <2> QED
    BY <2>4, <2>5
<1>18. CASE BeginRetry
  BY <1>18 DEF Kept, BeginRetry, Command, inputVars, consumeVars, archiveVars, dlqVars
<1>19. CASE ReEnqueue
  <2>1. CASE retry' = Idle
    BY <1>19, <2>1 DEF ReEnqueue, inputVars, archiveVars, dlqVars
  <2>2. CASE retry' # Idle
    <3>1. /\ jobs' = jobs \cup {NewJob(retry.letter.log)}
          /\ retry' = [retry EXCEPT !.pc = "mark"] /\ worker' = worker
      BY <1>19, <2>2 DEF ReEnqueue
    <3>2. NewJob(retry.letter.log).log = retry.letter.log /\ NewJob(retry.letter.log) \notin jobs
      BY FreshIdIsFresh DEF NewJob
    <3>3. l = retry.letter.log => JobHolds(l)'
      BY <3>1, <3>2
    <3>4. JobHolds(l) => JobHolds(l)'
      BY <3>1
    <3>5. l # retry.letter.log /\ LetterHolds(l) => LetterHolds(l)'
      BY <1>19, <3>1 DEF ReEnqueue, dlqVars
    <3> HIDE DEF JobHolds, LetterHolds
    <3> QED
      BY <1>19, <3>3, <3>4, <3>5 DEF ReEnqueue, inputVars, archiveVars, dlqVars
  <2> QED
    BY <2>1, <2>2
<1>20. CASE RunListener
  BY <1>20 DEF Kept, RunListener, Write, inputVars, consumeVars, archiveVars, dlqVars
<1>21. CASE MarkRetrySucceeded
  BY <1>21 DEF Kept, MarkRetrySucceeded, inputVars, consumeVars, archiveVars, dlqVars
<1>22. CASE Accept
  BY <1>22 DEF Kept, Accept, Command, inputVars, consumeVars, archiveVars, dlqVars
<1>23. CASE HandlerFails
  <2>1. /\ \A other \in jobs \ {worker.job} : other \in jobs'
        /\ \/ \E kept \in jobs' : kept.log = worker.job.log /\ kept.state = "ready"
           \/ \E kept \in dead' : kept.log = worker.job.log
        /\ dead \subseteq dead'
    BY <1>23, RetriedOrDead DEF HandlerFails
  <2> QED
    BY <1>23, <2>1 DEF HandlerFails, inputVars, archiveVars, dlqVars
<1>24. CASE BridgeGivesUp
  BY <1>24 DEF Kept, BridgeGivesUp, inputVars, consumeVars, archiveVars, dlqVars
<1>25. CASE WriterFails
  BY <1>25 DEF Kept, WriterFails, WriterAt, WriterTo, Fault, inputVars, consumeVars,
     archiveVars, dlqVars
<1>26. CASE RetryDies
  BY <1>26 DEF Kept, RetryDies, Fault, inputVars, consumeVars, archiveVars, dlqVars
<1>27. CASE Restart
  <2>1. JobHolds(l) => JobHolds(l)'
    <3>1. ASSUME NEW job \in jobs
          PROVE  \E again \in jobs' : again.log = job.log
      <4>1. (IF job.state = "active" THEN [job EXCEPT !.state = "orphan"] ELSE job) \in jobs'
        BY <1>27 DEF Restart
      <4>2. [job EXCEPT !.state = "orphan"].log = job.log
        OBVIOUS
      <4> QED
        BY <4>1, <4>2
    <3> QED
      BY <1>27, <3>1 DEF Restart
  <2>2. LetterHolds(l) => LetterHolds(l)'
    BY <1>27 DEF Restart, dlqVars
  <2> HIDE DEF JobHolds, LetterHolds
  <2> QED
    BY <1>27, <2>1, <2>2 DEF Restart, inputVars, archiveVars, dlqVars
<1> QED
  BY <1>1, <1>2, <1>3, <1>4, <1>5, <1>6, <1>7, <1>8, <1>9, <1>10, <1>11, <1>12, <1>13, <1>14,
     <1>15, <1>16, <1>17, <1>18, <1>19, <1>20, <1>21, <1>22, <1>23, <1>24, <1>25, <1>26,
     <1>27 DEF Next, Consume, WriterStep, RetryStep

-----------------------------------------------------------------------------
(* The theorems.                                                           *)

QueueInv == QueueShape /\ ContentKept /\ Resolution /\ Retries /\ Kept

LEMMA QueueInvInit == Init => QueueInv
<1> SUFFICES ASSUME Init PROVE QueueInv
  OBVIOUS
<1>1. QueueShape
  BY QueueShapeInit
<1>2. ContentKept /\ Resolution /\ Retries /\ Kept
  BY DEF Init, ContentKept, RowHasContent, Resolution, UnmappedWasUnknown, Retries, Kept
<1> QED
  BY <1>1, <1>2 DEF QueueInv

LEMMA QueueInvStep == QueueInv /\ [Next]_vars => QueueInv'
<1>1. ASSUME QueueInv, Next PROVE QueueInv'
  <2> USE <1>1, ArchiveQueueAssumption DEF QueueInv
  <2>1. QueueShape'
    BY QueueTypes, FiniteStep DEF QueueShape
  <2>2. ContentKept' /\ Resolution' /\ Retries'
    BY ContentKeptStep, ResolutionStep, RetriesStep
  <2>3. Kept'
    BY KeptStep DEF Kept
  <2> QED
    BY <2>1, <2>2, <2>3
<1>2. ASSUME QueueInv, UNCHANGED vars PROVE QueueInv'
  BY <1>2 DEF QueueInv, QueueShape, TypeOK, ContentKept, RowHasContent, Resolution,
     UnmappedWasUnknown,
              Retries, Kept, Safe, JobHolds, LetterHolds,
              vars, inputVars, consumeVars, archiveVars, dlqVars
<1> QED
  BY <1>1, <1>2

\* The queues, the archive, the dead letters and whoever works on them stay well
\* typed through every interleaving and any number of faults.
THEOREM QueueTypeCorrect == Spec => []TypeOK
<1>1. QueueInv => TypeOK
  BY DEF QueueInv, QueueShape
<1> QED
  BY QueueInvInit, QueueInvStep, <1>1, PTL DEF Spec

\* archive_event never has a row whose content is not in ClickHouse: consumer,
\* backfill and retry may write the same coordinate at once, and any of them
\* may die between its two writes.
THEOREM ContentBeforeRow == Spec => []RowHasContent
<1>1. QueueInv => RowHasContent
  BY DEF QueueInv, ContentKept
<1> QED
  BY QueueInvInit, QueueInvStep, <1>1, PTL DEF Spec

\* The resolver's map may be as old as the last boot: what it calls unmapped was
\* unknown to the database when the job was taken (SourceResolver.rebuild).
THEOREM ResolverIsRight == Spec => []UnmappedWasUnknown
<1>1. QueueInv => UnmappedWasUnknown
  BY DEF QueueInv, Resolution
<1> QED
  BY QueueInvInit, QueueInvStep, <1>1, PTL DEF Spec

\* A log that came in is archived, accepted, recorded as lost by the calls that
\* failed, or held by a queue, a writer or a dead letter; the one exception is
\* a log that failed again during the retry of its own letter.  Kept is what
\* makes it inductive: a job about to be completed and a letter about to be
\* deleted do not count as holding it.
THEOREM NoLogVanishes == Spec => []NothingVanishes
<1>1. QueueInv => NothingVanishes
  BY DEF QueueInv, Kept, Safe, JobHolds, LetterHolds, NothingVanishes, Tracked, Held
<1> QED
  BY QueueInvInit, QueueInvStep, <1>1, PTL DEF Spec

-----------------------------------------------------------------------------
(* AiBatches: sets of numbers, and sequences.                              *)

USE AiAssumption

Below == {pair \in Nat \X Nat : pair[1] < pair[2]}

LEMMA NaturalsHaveLeast ==
    ASSUME NEW S, S \subseteq Nat, S # {}
    PROVE  \E least \in S : \A n \in S : least <= n
<1>1. IsWellFoundedOn(Below, Nat)
  BY NatLessThanWellFounded, Zenon DEF OpToRel, Below
<1>2. PICK least \in S : \A n \in S : ~(<<n, least>> \in Below)
  BY <1>1, WFMin, Zenon
<1>3. \A n \in S : ~(n < least)
  BY <1>2 DEF Below
<1> QED
  BY <1>3

\* The greatest of a set of numbers has the fewest above it.
LEMMA MaxIsGreatest ==
    ASSUME NEW S, IsFiniteSet(S), S \subseteq Nat, S # {}
    PROVE  Max(S) \in S /\ \A n \in S : n <= Max(S)
<1> DEFINE above(n) == {k \in S : k > n}
           sizes == {Cardinality(above(n)) : n \in S}
<1>1. \A n \in S : IsFiniteSet(above(n)) /\ Cardinality(above(n)) \in Nat
  <2> TAKE n \in S
  <2>1. above(n) \in SUBSET S
    OBVIOUS
  <2> HIDE DEF above
  <2> QED
    BY <2>1, FS_Subset, FS_CardinalityType
<1>2. PICK greatest \in S : \A n \in S : Cardinality(above(greatest)) <= Cardinality(above(n))
  <2>1. sizes \subseteq Nat /\ sizes # {}
    BY <1>1
  <2>2. PICK least \in sizes : \A n \in sizes : least <= n
    BY <2>1, NaturalsHaveLeast
  <2>3. PICK greatest \in S : least = Cardinality(above(greatest))
    BY <2>2
  <2>4. \A n \in S : Cardinality(above(n)) \in sizes
    OBVIOUS
  <2> HIDE DEF above, sizes
  <2> QED
    BY <2>2, <2>3, <2>4
<1>3. ASSUME NEW n \in S, n > greatest PROVE FALSE
  <2>0. n \in Nat /\ greatest \in Nat
    BY <1>3
  <2>1. above(n) \in SUBSET above(greatest) /\ n \in above(greatest) /\ n \notin above(n)
    <3>1. ASSUME NEW k \in above(n) PROVE k \in above(greatest)
      <4>1. k \in S /\ k \in Nat /\ k > n
        OBVIOUS
      <4> QED
        BY <1>3, <2>0, <4>1
    <3>2. n \in above(greatest)
      BY <1>3
    <3>3. n \notin above(n)
      BY <2>0
    <3> HIDE DEF above
    <3> QED
      BY <3>1, <3>2, <3>3
  <2> HIDE DEF above
  <2>2. Cardinality(above(n)) < Cardinality(above(greatest))
    <3>0. IsFiniteSet(above(greatest))
      BY <1>1
    <3>1. /\ Cardinality(above(n)) <= Cardinality(above(greatest))
          /\ Cardinality(above(greatest)) = Cardinality(above(n)) => above(greatest) = above(n)
      BY <2>1, <3>0, FS_Subset
    <3> QED
      BY <1>1, <1>3, <2>1, <3>1
  <2> QED
    BY <1>1, <1>2, <1>3, <2>2
<1>4. \A n \in S : greatest >= n
  BY <1>3
<1>5. Max(S) \in S /\ \A n \in S : Max(S) >= n
  BY <1>4 DEF Max
<1> QED
  BY <1>5

\* RemoveAt closes the gap and changes nothing else.
LEMMA RemoveAtCloses ==
    ASSUME NEW S, NEW s \in Seq(S), NEW k \in 1..Len(s)
    PROVE  /\ RemoveAt(s, k) \in Seq(S)
           /\ Len(RemoveAt(s, k)) = Len(s) - 1
           /\ \A j \in 1..(Len(s) - 1) :
                 RemoveAt(s, k)[j] = s[IF j < k THEN j ELSE j + 1]
<1> DEFINE before == SubSeq(s, 1, k - 1)
           after == SubSeq(s, k + 1, Len(s))
<1>1. Len(s) \in Nat /\ k \in Nat /\ 1 <= k /\ k <= Len(s)
  OBVIOUS
<1>2. /\ before \in Seq(S) /\ Len(before) = k - 1
      /\ \A j \in 1..(k - 1) : before[j] = s[j]
  <2>1. \A j \in 1..(k - 1) : j \in 1..Len(s)
    BY <1>1
  <2> QED
    BY <1>1, <2>1, SubSeqProperties
<1>3. /\ after \in Seq(S) /\ Len(after) = Len(s) - k
      /\ \A j \in 1..(Len(s) - k) : after[j] = s[k + j]
  <2>1. \A j \in (k + 1)..Len(s) : j \in 1..Len(s)
    BY <1>1
  <2>2. /\ after \in Seq(S)
        /\ Len(after) = IF k + 1 <= Len(s) THEN Len(s) - (k + 1) + 1 ELSE 0
        /\ \A j \in 1..Len(after) : after[j] = s[k + 1 + j - 1]
    BY <1>1, <2>1, SubSeqProperties
  <2>3. Len(after) = Len(s) - k
    BY <1>1, <2>2
  <2>4. \A j \in 1..(Len(s) - k) : k + 1 + j - 1 = k + j
    BY <1>1
  <2> QED
    BY <2>2, <2>3, <2>4
<1> HIDE DEF before, after
<1>4. /\ before \o after \in Seq(S) /\ Len(before \o after) = Len(s) - 1
      /\ \A j \in 1..(Len(s) - 1) :
            (before \o after)[j] = IF j <= k - 1 THEN before[j] ELSE after[j - (k - 1)]
  <2>1. Len(before) + Len(after) = Len(s) - 1
    BY <1>1, <1>2, <1>3
  <2>2. /\ before \o after \in Seq(S) /\ Len(before \o after) = Len(before) + Len(after)
        /\ \A j \in 1..(Len(before) + Len(after)) :
              (before \o after)[j] =
                  IF j <= Len(before) THEN before[j] ELSE after[j - Len(before)]
    BY <1>2, <1>3, ConcatProperties
  <2> QED
    BY <1>2, <2>1, <2>2
<1>5. ASSUME NEW j \in 1..(Len(s) - 1)
      PROVE  (before \o after)[j] = s[IF j < k THEN j ELSE j + 1]
  <2>1. CASE j < k
    BY <1>1, <1>2, <1>4, <2>1
  <2>2. CASE ~(j < k)
    <3>1. j - (k - 1) \in 1..(Len(s) - k) /\ k + (j - (k - 1)) = j + 1 /\ ~(j <= k - 1)
      BY <1>1, <2>2
    <3> QED
      BY <1>3, <1>4, <2>2, <3>1
  <2> QED
    BY <2>1, <2>2
<1>6. RemoveAt(s, k) = before \o after
  BY DEF RemoveAt, before, after
<1> QED
  BY <1>4, <1>5, <1>6

-----------------------------------------------------------------------------
(* The queue. *)

\* Without its entry at k a sequence without repetitions has the others, once.
LEMMA RemoveAtIsInjective ==
    ASSUME NEW S, NEW s \in Seq(S), IsInjective(s), NEW k \in DOMAIN s
    PROVE  /\ RemoveAt(s, k) \in Seq(S) /\ IsInjective(RemoveAt(s, k))
           /\ Range(RemoveAt(s, k)) \subseteq Range(s)
<1> DEFINE t == RemoveAt(s, k)
<1>1. /\ k \in 1..Len(s) /\ t \in Seq(S) /\ Len(t) = Len(s) - 1 /\ Len(s) \in Nat
      /\ \A j \in 1..(Len(s) - 1) : t[j] = s[IF j < k THEN j ELSE j + 1]
  BY RemoveAtCloses
<1> HIDE DEF t
<1>2. \A j \in DOMAIN t : (IF j < k THEN j ELSE j + 1) \in DOMAIN s /\ j \in 1..(Len(s) - 1)
  BY <1>1
<1>3. Range(t) \subseteq Range(s)
  BY <1>1, <1>2 DEF Range
<1>4. ASSUME NEW i \in DOMAIN t, NEW j \in DOMAIN t, t[i] = t[j]
      PROVE  i = j
  <2>1. (IF i < k THEN i ELSE i + 1) = (IF j < k THEN j ELSE j + 1)
    BY <1>1, <1>2, <1>4 DEF IsInjective
  <2> QED
    BY <1>1, <1>2, <2>1
<1> QED
  BY <1>1, <1>3, <1>4 DEF IsInjective, t

LEMMA AppendIsInjective ==
    ASSUME NEW S, NEW s \in Seq(S), IsInjective(s), NEW e \in S, e \notin Range(s)
    PROVE  /\ Append(s, e) \in Seq(S) /\ IsInjective(Append(s, e))
           /\ Range(Append(s, e)) = Range(s) \cup {e}
<1> DEFINE t == Append(s, e)
<1>1. /\ t \in Seq(S) /\ Len(t) = Len(s) + 1 /\ Len(s) \in Nat
      /\ \A i \in 1..Len(s) : t[i] = s[i] /\ t[Len(s) + 1] = e
      /\ DOMAIN s = 1..Len(s) /\ DOMAIN t = 1..(Len(s) + 1)
      /\ t[Len(s) + 1] = e
  OBVIOUS
<1> HIDE DEF t
<1>2. Range(t) = Range(s) \cup {e}
  <2>1. \A i \in DOMAIN t : i \in DOMAIN s \/ i = Len(s) + 1
    BY <1>1
  <2>2. \A i \in DOMAIN s : i \in DOMAIN t /\ t[i] = s[i]
    BY <1>1
  <2>3. Len(s) + 1 \in DOMAIN t
    BY <1>1
  <2> QED
    BY <1>1, <2>1, <2>2, <2>3 DEF Range
<1>3. ASSUME NEW i \in DOMAIN t, NEW j \in DOMAIN t, t[i] = t[j]
      PROVE  i = j
  <2>1. \A m \in DOMAIN s : s[m] # e
    BY DEF Range
  <2> QED
    BY <1>1, <1>3, <2>1 DEF IsInjective
<1> QED
  BY <1>1, <1>2, <1>3 DEF IsInjective, t

-----------------------------------------------------------------------------
(* The invariant.                                                          *)

\* A driver that has a handle to record is alone with it; a job that runs is
\* queued.
Hands ==
    \A d \in Drivers :
        /\ pc[d] = "fetched" => hand[d] \in Handles
        /\ pc[d] = "record" =>
              /\ hand[d] \in Handles /\ ~IsOpen(hand[d])
              /\ \A other \in Drivers \ {d} : hand[other] # hand[d]

Jobs == /\ step = "idle" <=> urgent = Nobody
        /\ urgent # Nobody => tries[urgent] > 0

SettledOr(end, S) == \A p \in Proposals : p <= end => Settled(p) \/ p \in S

\* Up to the cursor a batch carries there is nothing but what is settled and what
\* is in it, and so it is of the page that is about to be submitted.
Walked ==
    /\ SettledOr(cursor, {})
    /\ \A h \in Handles : batch[h].cursor # NoCursor => SettledOr(batch[h].cursor, batch[h].of)
    /\ pc["backfill"] = "submit" => SettledOr(pageEnd, items["backfill"])

IInv == AiTypeOK /\ Hands /\ Jobs /\ Walked

LEMMA IInvInit == AiInit => IInv
<1> SUFFICES ASSUME AiInit PROVE IInv
  OBVIOUS
<1>1. <<>> \in Seq(Handles) /\ IsInjective(<<>>)
  BY DEF IsInjective
<1>2. Unused \in Batch
  BY DEF Unused, Batch
<1>3. AiTypeOK
  <2>1. /\ open \in Seq(Handles) /\ IsInjective(open)
        /\ batch \in [Handles -> Batch]
        /\ outputs \in SUBSET Proposals /\ letters \in SUBSET Proposals
        /\ cursor \in Proposals \cup {NoCursor} /\ pageEnd \in Proposals \cup {NoCursor}
        /\ urgent \in Proposals \cup {Nobody} /\ step \in {"idle", "call", "cost"}
        /\ disabled \in BOOLEAN
    BY <1>1, <1>2 DEF AiInit
  <2>2. /\ spend \in 0..Cap /\ failures \in 0..MaxFailures
        /\ 0 \in 0..(JobRetryLimit + 1)
    BY DEF AiInit
  <2>3. tries \in [Proposals -> 0..(JobRetryLimit + 1)]
    BY <2>2 DEF AiInit
  <2>4. /\ pc \in [Drivers -> {"idle", "fetched", "scan", "submit", "record"}]
        /\ hand \in [Drivers -> Handles \cup {NoHandle}]
        /\ items \in [Drivers -> SUBSET Proposals]
    BY DEF AiInit
  <2> QED
    BY <2>1, <2>2, <2>3, <2>4 DEF AiTypeOK
<1>4. Hands /\ Jobs
  BY DEF AiInit, Hands, Jobs
<1>5. Walked
  <2>1. \A p \in Proposals : ~(p <= NoCursor)
    BY DEF NoCursor
  <2>2. \A h \in Handles : batch[h].cursor = NoCursor
    BY DEF AiInit, Unused
  <2>3. cursor = NoCursor /\ pc["backfill"] = "idle"
    BY DEF AiInit, Drivers
  <2> QED
    BY <2>1, <2>2, <2>3 DEF Walked, SettledOr
<1> QED
  BY <1>3, <1>4, <1>5 DEF IInv

\* The page is the next stretch of the proposals, up to its greatest.
LEMMA PageIsNext ==
    ASSUME AiTypeOK, Page # {}
    PROVE  /\ Page \subseteq Proposals /\ Max(Page) \in Page /\ Max(Page) \in Proposals
           /\ \A p \in Proposals : p > cursor /\ p <= Max(Page) => p \in Page
<1> DEFINE later == {p \in Proposals : p > cursor}
           below(p) == {q \in later : q < p}
<1>1. Page = {p \in later : Cardinality(below(p)) < PageSize} /\ later \subseteq Proposals
  BY DEF Page
<1>2. Page \subseteq Proposals /\ IsFiniteSet(Page) /\ Page \subseteq Nat
  <2>1. Page \in SUBSET Proposals
    BY <1>1
  <2> QED
    BY <2>1, FS_Subset
<1>3. Max(Page) \in Page /\ \A p \in Page : p <= Max(Page)
  BY <1>2, MaxIsGreatest
<1>4. ASSUME NEW p \in Proposals, p > cursor, p <= Max(Page)
      PROVE  p \in Page
  <2>0. p \in Nat /\ Max(Page) \in Nat /\ \A q \in later : q \in Nat
    BY <1>1, <1>2, <1>3
  <2>1. below(p) \in SUBSET below(Max(Page)) /\ below(Max(Page)) \in SUBSET Proposals /\ p \in later
    <3>1. ASSUME NEW q \in below(p) PROVE q \in below(Max(Page))
      <4>1. q \in later /\ q < p /\ q \in Nat
        BY <2>0
      <4> QED
        BY <1>4, <2>0, <4>1
    <3>2. p \in later /\ below(Max(Page)) \subseteq later
      BY <1>4
    <3> HIDE DEF below
    <3> QED
      BY <1>1, <3>1, <3>2
  <2>2. Cardinality(below(Max(Page))) < PageSize
    BY <1>1, <1>3
  <2> HIDE DEF below, later
  <2>3. IsFiniteSet(below(Max(Page)))
    BY <2>1, FS_Subset
  <2>4. IsFiniteSet(below(p)) /\ Cardinality(below(p)) <= Cardinality(below(Max(Page)))
    BY <2>1, <2>3, FS_Subset
  <2>5. Cardinality(below(p)) \in Nat /\ Cardinality(below(Max(Page))) \in Nat
    BY <2>3, <2>4, FS_CardinalityType
  <2> QED
    BY <1>1, <2>1, <2>2, <2>4, <2>5
<1> QED
  BY <1>2, <1>3, <1>4

LEMMA BookIsBounded ==
    ASSUME spend \in 0..Cap, NEW n \in Nat, Book(n)
    PROVE  spend' \in 0..Cap
<1>1. {spend + n, Cap} \subseteq Nat /\ {spend + n, Cap} # {}
  OBVIOUS
<1>2. \E least \in {spend + n, Cap} : \A m \in {spend + n, Cap} : least <= m
  BY <1>1, NaturalsHaveLeast
<1>3. /\ Min({spend + n, Cap}) \in {spend + n, Cap}
      /\ \A m \in {spend + n, Cap} : Min({spend + n, Cap}) <= m
  BY <1>2 DEF Min
<1> QED
  BY <1>1, <1>3 DEF Book

LEMMA ReturnedIsCounted ==
    ASSUME AiTypeOK, NEW h \in Handles
    PROVE  Returned(h) \subseteq Proposals /\ Cardinality(Returned(h)) \in Nat
<1>1. Returned(h) \in SUBSET Proposals
  BY DEF AiTypeOK, Batch, Returned
<1> QED
  BY <1>1, FS_Subset, FS_CardinalityType

\* What a finished tick leaves.
LEMMA TickEnds ==
    ASSUME AiTypeOK, NEW d \in Drivers, EndTick(d)
    PROVE  /\ pc' \in [Drivers -> {"idle", "fetched", "scan", "submit", "record"}] /\ pc'[d] = "idle"
           /\ hand' \in [Drivers -> Handles \cup {NoHandle}] /\ hand'[d] = NoHandle
           /\ items' \in [Drivers -> SUBSET Proposals]
           /\ pageEnd' \in Proposals \cup {NoCursor}
           /\ \A other \in Drivers \ {d} : /\ pc'[other] = pc[other] /\ hand'[other] = hand[other]
                                         /\ items'[other] = items[other]
           /\ d # "backfill" => pageEnd' = pageEnd
BY DEF AiTypeOK, EndTick

-----------------------------------------------------------------------------
(* The steps.                                                              *)

\* What is settled stays so, and so what was walked; a batch that is forgotten
\* has no cursor.
LEMMA WalkedStays ==
    ASSUME IInv, outputs \subseteq outputs', letters \subseteq letters',
           cursor' = cursor,
           \A h \in Handles : \/ batch'[h].cursor = NoCursor
                              \/ batch'[h].cursor = batch[h].cursor /\ batch'[h].of = batch[h].of,
           pc'["backfill"] = "submit" =>
               /\ pc["backfill"] = "submit" /\ pageEnd' = pageEnd
               /\ items'["backfill"] = items["backfill"]
    PROVE  Walked'
<1>1. ASSUME NEW end, NEW S, SettledOr(end, S) PROVE SettledOr(end, S)'
  BY <1>1 DEF SettledOr, Settled
<1>2. SettledOr(cursor, {})'
  BY DEF IInv, Walked, SettledOr, Settled
<1>3. ASSUME NEW h \in Handles, batch'[h].cursor # NoCursor
      PROVE  SettledOr(batch[h].cursor, batch[h].of)'
  <2>1. batch'[h].cursor = batch[h].cursor /\ batch'[h].of = batch[h].of
    BY <1>3
  <2> QED
    BY <1>3, <2>1 DEF IInv, Walked, SettledOr, Settled
<1>4. ASSUME pc'["backfill"] = "submit" PROVE SettledOr(pageEnd, items["backfill"])'
  BY <1>4 DEF IInv, Walked, SettledOr, Settled
<1> QED
  BY <1>2, <1>3, <1>4 DEF Walked

LEMMA FetchKeeps ==
    ASSUME IInv, NEW d \in Drivers, Fetch(d)
    PROVE  IInv'
<1>1. open[1] \in Handles
  <2>1. open \in Seq(Handles) /\ open # <<>>
    BY DEF IInv, AiTypeOK, Fetch
  <2> QED
    BY <2>1
<1>2. IsOpen(open[1])
  <2>1. open \in Seq(Handles) /\ open # <<>>
    BY DEF IInv, AiTypeOK, Fetch
  <2>2. 1 \in DOMAIN open
    BY <2>1
  <2> QED
    BY <2>2 DEF IsOpen, Range
<1>3. AiTypeOK'
  BY <1>1 DEF IInv, AiTypeOK, Fetch, tableVars, jobVars
<1>4. Hands'
  BY <1>1, <1>2 DEF IInv, AiTypeOK, Hands, IsOpen, Fetch, tableVars
<1>5. Jobs'
  BY DEF IInv, Jobs, Fetch, jobVars
<1>6. Walked'
  <2>1. pc'["backfill"] = "submit" => pc["backfill"] = "submit"
    BY DEF IInv, AiTypeOK, Fetch
  <2> QED
    BY <2>1, WalkedStays DEF Fetch, tableVars
<1> QED
  BY <1>3, <1>4, <1>5, <1>6 DEF IInv

\* The end of a tick gives no driver a handle, and no page to submit.
LEMMA EndedHands ==
    ASSUME IInv, NEW d \in Drivers, EndTick(d),
           \A e \in Drivers \ {d} : pc[e] = "record" => hand[e] \notin Range(open')
    PROVE  Hands'
<1>1. AiTypeOK /\ NoHandle \notin Handles
  BY DEF IInv, NoHandle
<1>2. ASSUME NEW e \in Drivers, pc'[e] # "idle"
      PROVE  /\ pc'[e] = "fetched" => hand'[e] \in Handles
             /\ pc'[e] = "record" =>
                   /\ hand'[e] \in Handles /\ ~(hand'[e] \in Range(open'))
                   /\ \A other \in Drivers \ {e} : hand'[other] # hand'[e]
  <2>1. e # d /\ pc'[e] = pc[e] /\ hand'[e] = hand[e]
    BY <1>1, <1>2, TickEnds
  <2>2. \A other \in Drivers : hand'[other] = hand[other] \/ hand'[other] = NoHandle
    BY <1>1, TickEnds
  <2> QED
    BY <1>1, <2>1, <2>2 DEF IInv, Hands
<1> QED
  BY <1>2 DEF Hands, IsOpen

LEMMA EndedPage ==
    ASSUME IInv, NEW d \in Drivers, EndTick(d), pc'["backfill"] = "submit"
    PROVE  /\ pc["backfill"] = "submit" /\ pageEnd' = pageEnd
           /\ items'["backfill"] = items["backfill"]
<1>1. "backfill" \in Drivers /\ AiTypeOK
  BY DEF Drivers, IInv
<1>2. d # "backfill"
  BY <1>1, TickEnds
<1> QED
  BY <1>1, <1>2, TickEnds

LEMMA RowIsDropped ==
    ASSUME AiTypeOK, NEW h, DeleteRow(h)
    PROVE  open' \in Seq(Handles) /\ IsInjective(open') /\ Range(open') \subseteq Range(open)
<1>1. CASE IsOpen(h)
  <2>1. PICK k \in DOMAIN open : open' = RemoveAt(open, k)
    BY <1>1 DEF DeleteRow, DropRow
  <2> QED
    BY <2>1, RemoveAtIsInjective DEF AiTypeOK
<1>2. CASE ~IsOpen(h)
  BY <1>2 DEF DeleteRow, AiTypeOK
<1> QED
  BY <1>1, <1>2

LEMMA DrainKeeps ==
    ASSUME IInv, NEW d \in Drivers, Drain(d)
    PROVE  IInv'
<1> DEFINE h == hand[d]
<1>1. h \in Handles /\ AiTypeOK
  BY DEF IInv, Hands, Drain
<1>2. batch[h] \in Batch
  BY <1>1 DEF AiTypeOK
<1>3. /\ outputs' = outputs \cup batch[h].good /\ letters' = letters \cup batch[h].bad
      /\ batch[h].good \subseteq Proposals /\ batch[h].bad \subseteq Proposals
      /\ batch[h].cursor \in Proposals \cup {NoCursor} /\ batch[h].of \subseteq Proposals
  BY <1>2 DEF Drain, PersistResults, Batch
<1>4. open' \in Seq(Handles) /\ IsInjective(open') /\ Range(open') \subseteq Range(open)
  BY <1>1, RowIsDropped DEF Drain
<1>5. spend' \in 0..Cap
  <2>1. Book(Cardinality(Returned(h))) /\ spend \in 0..Cap
    BY <1>1 DEF Drain, PersistResults, AiTypeOK
  <2> QED
    BY <1>1, <2>1, BookIsBounded, ReturnedIsCounted
<1>6. /\ batch' \in [Handles -> Batch]
      /\ \A other \in Handles : batch'[other] = batch[other] \/ batch'[other] = Unused
  <2>1. batch' = batch \/ batch' = [batch EXCEPT ![h] = Unused]
    BY DEF Drain, Free
  <2>2. Unused \in Batch
    BY DEF Unused, Batch
  <2> QED
    BY <1>1, <2>1, <2>2 DEF AiTypeOK
<1>7. EndTick(d)
  BY DEF Drain
<1>8. cursor' \in {cursor, batch[h].cursor}
  BY DEF Drain, CommitCursor
<1> HIDE DEF h
<1>9. AiTypeOK'
  <2>1. UNCHANGED <<tries, urgent, step, disabled, failures>>
    BY DEF Drain, jobVars
  <2>2. outputs' \in SUBSET Proposals /\ letters' \in SUBSET Proposals
    BY <1>1, <1>3 DEF AiTypeOK
  <2>3. cursor' \in Proposals \cup {NoCursor}
    BY <1>1, <1>3, <1>8 DEF AiTypeOK
  <2>4. /\ pc' \in [Drivers -> {"idle", "fetched", "scan", "submit", "record"}]
        /\ hand' \in [Drivers -> Handles \cup {NoHandle}]
        /\ items' \in [Drivers -> SUBSET Proposals]
        /\ pageEnd' \in Proposals \cup {NoCursor}
    BY <1>1, <1>7, TickEnds
  <2> QED
    BY <1>1, <1>4, <1>5, <1>6, <2>1, <2>2, <2>3, <2>4 DEF AiTypeOK
<1>10. Hands'
  <2>1. \A e \in Drivers \ {d} : pc[e] = "record" => hand[e] \notin Range(open')
    BY <1>4 DEF IInv, Hands, IsOpen
  <2> QED
    BY <1>7, <2>1, EndedHands
<1>11. Jobs'
  BY DEF IInv, Jobs, Drain, jobVars
<1>12. Walked'
  <2>1. outputs \subseteq outputs' /\ letters \subseteq letters'
    BY <1>3
  <2>2. ASSUME NEW end, NEW S, SettledOr(end, S)
        PROVE  \A p \in Proposals : p <= end => p \in outputs' \cup letters' \/ p \in S
    BY <2>1, <2>2 DEF SettledOr, Settled
  <2>3. SettledOr(cursor, {})'
    <3>1. CASE cursor' = cursor
      BY <2>2, <3>1 DEF IInv, Walked, SettledOr, Settled
    <3>2. CASE cursor' # cursor
      <4>1. cursor' = batch[h].cursor /\ batch[h].cursor # NoCursor
            /\ batch[h].of \subseteq batch[h].good \cup batch[h].bad
        BY <3>2 DEF Drain, CommitCursor, Complete, Returned, h
      <4>2. \A p \in Proposals :
               p <= batch[h].cursor => p \in outputs' \cup letters' \/ p \in batch[h].of
        BY <1>1, <2>2, <4>1 DEF IInv, Walked
      <4> QED
        BY <1>3, <4>1, <4>2 DEF SettledOr, Settled
    <3> QED
      BY <3>1, <3>2
  <2>4. ASSUME NEW other \in Handles, batch'[other].cursor # NoCursor
        PROVE  SettledOr(batch[other].cursor, batch[other].of)'
    <3>1. batch'[other] = batch[other]
      <4>1. Unused.cursor = NoCursor
        BY DEF Unused
      <4> QED
        BY <1>6, <2>4, <4>1
    <3>2. SettledOr(batch[other].cursor, batch[other].of)
      BY <2>4, <3>1 DEF IInv, Walked
    <3> QED
      BY <2>2, <3>1, <3>2 DEF SettledOr, Settled
  <2>5. ASSUME pc'["backfill"] = "submit" PROVE SettledOr(pageEnd, items["backfill"])'
    <3>2. /\ pc["backfill"] = "submit" /\ pageEnd' = pageEnd
          /\ items'["backfill"] = items["backfill"]
      BY <1>7, <2>5, EndedPage
    <3>3. SettledOr(pageEnd, items["backfill"])
      BY <3>2 DEF IInv, Walked
    <3> QED
      BY <2>2, <3>2, <3>3 DEF SettledOr, Settled
  <2> QED
    BY <2>3, <2>4, <2>5 DEF Walked
<1> QED
  BY <1>9, <1>10, <1>11, <1>12 DEF IInv

LEMMA CollectKeeps ==
    ASSUME IInv, NEW d \in Drivers, Collect(d)
    PROVE  IInv'
<1>1. AiTypeOK
  BY DEF IInv
<1>2. d = "backfill" =>
         /\ Page # {} /\ Max(Page) \in Proposals /\ Page \subseteq Proposals
         /\ \A p \in Proposals : p > cursor /\ p <= Max(Page) => p \in Page
  <2> SUFFICES ASSUME d = "backfill" PROVE Page # {}
    BY <1>1, PageIsNext
  <2> QED
    BY DEF Collect, FindCandidates
<1>3. FindCandidates(d) \subseteq Proposals
  BY <1>2 DEF FindCandidates, Drivers
<1>4. AiTypeOK'
  <2>1. UNCHANGED <<open, batch, outputs, letters, spend, cursor, hand, tries, urgent, step,
                    disabled, failures>>
    BY DEF Collect, tableVars, jobVars
  <2>2. /\ items' \in [Drivers -> SUBSET Proposals]
        /\ pc' \in [Drivers -> {"idle", "fetched", "scan", "submit", "record"}]
    BY <1>1, <1>3 DEF Collect, AiTypeOK
  <2>3. pageEnd' \in Proposals \cup {NoCursor}
    BY <1>1, <1>2 DEF Collect, AiTypeOK
  <2> QED
    BY <1>1, <2>1, <2>2, <2>3 DEF AiTypeOK
<1>5. Hands'
  BY <1>1 DEF IInv, AiTypeOK, Hands, IsOpen, Collect, tableVars
<1>6. Jobs'
  BY DEF IInv, Jobs, Collect, jobVars
<1>7. Walked'
  <2>1. CASE d # "backfill"
    <3>1. "backfill" \in Drivers
      BY DEF Drivers
    <3>2. pc'["backfill"] = pc["backfill"] /\ items'["backfill"] = items["backfill"]
          /\ pageEnd' = pageEnd
      BY <1>1, <2>1, <3>1 DEF Collect, AiTypeOK
    <3> QED
      BY <3>2, WalkedStays DEF Collect, tableVars
  <2>2. CASE d = "backfill"
    <3>1. /\ pageEnd' = Max(Page) /\ items'["backfill"] = Page \ outputs
          /\ UNCHANGED <<cursor, batch, outputs, letters>>
      BY <1>1, <2>2 DEF Collect, AiTypeOK, FindCandidates, tableVars
    <3>2. SettledOr(pageEnd, items["backfill"])'
      <4> SUFFICES ASSUME NEW p \in Proposals, p <= Max(Page)
                   PROVE  p \in outputs \cup letters \/ p \in Page \ outputs
        BY <3>1 DEF SettledOr, Settled
      <4>1. CASE p <= cursor
        BY <4>1 DEF IInv, Walked, SettledOr, Settled
      <4>2. CASE p > cursor
        BY <1>2, <2>2, <4>2
      <4>3. p \in Nat /\ cursor \in Nat
        BY <1>1 DEF AiTypeOK, NoCursor
      <4> QED
        BY <4>1, <4>2, <4>3
    <3> QED
      BY <3>1, <3>2 DEF IInv, Walked, SettledOr, Settled
  <2> QED
    BY <2>1, <2>2
<1> QED
  BY <1>4, <1>5, <1>6, <1>7 DEF IInv

LEMMA NothingOpenKeeps ==
    ASSUME IInv, NEW d \in Drivers, NothingOpen(d)
    PROVE  IInv'
<1>1. AiTypeOK'
  BY DEF IInv, AiTypeOK, NothingOpen, tableVars, jobVars
<1>2. Hands'
  BY DEF IInv, AiTypeOK, Hands, IsOpen, NothingOpen, tableVars
<1>3. Jobs'
  BY DEF IInv, Jobs, NothingOpen, jobVars
<1>4. Walked'
  <2>1. pc'["backfill"] = "submit" => pc["backfill"] = "submit"
    BY DEF IInv, AiTypeOK, NothingOpen
  <2> QED
    BY <2>1, WalkedStays DEF NothingOpen, tableVars
<1> QED
  BY <1>1, <1>2, <1>3, <1>4 DEF IInv

LEMMA NothingToSubmitKeeps ==
    ASSUME IInv, NEW d \in Drivers, NothingToSubmit(d)
    PROVE  IInv'
<1>1. /\ AiTypeOK /\ EndTick(d)
      /\ UNCHANGED <<open, batch, outputs, letters, spend, tries, urgent, step, disabled,
                     failures>>
  BY DEF IInv, NothingToSubmit, jobVars
<1>2. ASSUME cursor' # cursor
      PROVE  /\ Page # {} /\ Page \subseteq outputs /\ cursor' = Max(Page)
             /\ Max(Page) \in Proposals
             /\ \A p \in Proposals : p > cursor /\ p <= Max(Page) => p \in Page
  <2>1. d = "backfill" /\ Page # {} /\ cursor' = Max(Page) /\ FindCandidates(d) \subseteq outputs
    BY <1>2 DEF NothingToSubmit
  <2>2. Page \subseteq outputs
    BY <2>1 DEF FindCandidates
  <2> QED
    BY <1>1, <2>1, <2>2, PageIsNext
<1>3. AiTypeOK'
  <2>1. /\ pc' \in [Drivers -> {"idle", "fetched", "scan", "submit", "record"}]
        /\ hand' \in [Drivers -> Handles \cup {NoHandle}]
        /\ items' \in [Drivers -> SUBSET Proposals]
        /\ pageEnd' \in Proposals \cup {NoCursor}
    BY <1>1, TickEnds
  <2>2. cursor' \in Proposals \cup {NoCursor}
    BY <1>1, <1>2 DEF AiTypeOK
  <2> QED
    BY <1>1, <2>1, <2>2 DEF AiTypeOK
<1>4. Hands'
  <2>1. \A e \in Drivers \ {d} : pc[e] = "record" => hand[e] \notin Range(open')
    BY <1>1 DEF IInv, Hands, IsOpen
  <2> QED
    BY <1>1, <2>1, EndedHands
<1>5. Jobs'
  BY <1>1 DEF IInv, Jobs
<1>6. SettledOr(cursor, {})'
  <2>1. CASE cursor' = cursor
    BY <1>1, <2>1 DEF IInv, Walked, SettledOr, Settled
  <2>2. CASE cursor' # cursor
    <3> SUFFICES ASSUME NEW p \in Proposals, p <= Max(Page)
                 PROVE  p \in outputs \cup letters
      BY <1>1, <1>2, <2>2 DEF SettledOr, Settled
    <3>1. p \in Nat /\ cursor \in Nat
      BY <1>1 DEF AiTypeOK, NoCursor
    <3>2. CASE p <= cursor
      BY <3>2 DEF IInv, Walked, SettledOr, Settled
    <3>3. CASE p > cursor
      BY <1>2, <2>2, <3>3
    <3> QED
      BY <3>1, <3>2, <3>3
  <2> QED
    BY <2>1, <2>2
<1>7. Walked'
  <2>1. ASSUME NEW h \in Handles, batch'[h].cursor # NoCursor
        PROVE  SettledOr(batch[h].cursor, batch[h].of)'
    BY <1>1, <2>1 DEF IInv, Walked, SettledOr, Settled
  <2>2. ASSUME pc'["backfill"] = "submit" PROVE SettledOr(pageEnd, items["backfill"])'
    <3>1. /\ pc["backfill"] = "submit" /\ pageEnd' = pageEnd
          /\ items'["backfill"] = items["backfill"]
      BY <1>1, <2>2, EndedPage
    <3> QED
      BY <1>1, <3>1 DEF IInv, Walked, SettledOr, Settled
  <2> QED
    BY <1>6, <2>1, <2>2 DEF Walked
<1> QED
  BY <1>3, <1>4, <1>5, <1>7 DEF IInv

LEMMA SubmitKeeps ==
    ASSUME IInv, NEW d \in Drivers, Submit(d)
    PROVE  IInv'
<1>1. PICK h \in Handles :
         /\ ~IsOpen(h) /\ h \notin InHand
         /\ batch' = [batch EXCEPT ![h] =
                [of |-> items[d], status |-> "in_progress", good |-> {}, bad |-> {},
                 cursor |-> IF d = "live" THEN NoCursor ELSE pageEnd]]
         /\ hand' = [hand EXCEPT ![d] = h]
  BY DEF Submit
<1>2. /\ AiTypeOK /\ pc[d] = "submit" /\ pc' = [pc EXCEPT ![d] = "record"]
      /\ UNCHANGED <<open, outputs, letters, cursor, spend, items, pageEnd, tries, urgent, step,
                     disabled, failures>>
  BY DEF IInv, Submit, jobVars
<1>3. /\ batch'[h].of = items[d]
      /\ batch'[h].cursor = IF d = "live" THEN NoCursor ELSE pageEnd
      /\ \A other \in Handles \ {h} : batch'[other] = batch[other]
      /\ batch' \in [Handles -> Batch]
  <2>1. [of |-> items[d], status |-> "in_progress", good |-> {}, bad |-> {},
         cursor |-> IF d = "live" THEN NoCursor ELSE pageEnd] \in Batch
    BY <1>2 DEF AiTypeOK, Batch
  <2>2. batch \in [Handles -> Batch]
    BY <1>2 DEF AiTypeOK
  <2> QED
    BY <1>1, <2>1, <2>2
<1>4. AiTypeOK'
  <2>1. /\ hand' \in [Drivers -> Handles \cup {NoHandle}]
        /\ pc' \in [Drivers -> {"idle", "fetched", "scan", "submit", "record"}]
    BY <1>1, <1>2 DEF AiTypeOK
  <2> QED
    BY <1>2, <1>3, <2>1 DEF AiTypeOK
<1>5. Hands'
  <2>1. /\ pc'[d] = "record" /\ hand'[d] = h
        /\ \A e \in Drivers \ {d} : pc'[e] = pc[e] /\ hand'[e] = hand[e]
    BY <1>1, <1>2 DEF AiTypeOK
  <2>2. \A e \in Drivers : hand[e] # h
    BY <1>1 DEF InHand
  <2>3. \A e \in Drivers \ {d} :
           /\ pc'[e] = "fetched" => hand'[e] \in Handles
           /\ pc'[e] = "record" =>
                 /\ hand'[e] \in Handles /\ ~(hand'[e] \in Range(open))
                 /\ \A other \in Drivers \ {e} : hand'[other] # hand'[e]
    BY <2>1, <2>2 DEF IInv, Hands, IsOpen
  <2>4. h \in Handles /\ h \notin Range(open)
    BY <1>1 DEF IsOpen
  <2> QED
    BY <1>2, <2>1, <2>2, <2>3, <2>4 DEF Hands, IsOpen
<1>6. Jobs'
  BY <1>2 DEF IInv, Jobs
<1>7. Walked'
  <2>1. SettledOr(cursor, {})'
    BY <1>2 DEF IInv, Walked, SettledOr, Settled
  <2>2. ASSUME NEW other \in Handles, batch'[other].cursor # NoCursor
        PROVE  SettledOr(batch[other].cursor, batch[other].of)'
    <3>1. CASE other = h
      <4>1. d = "backfill" /\ batch'[h].cursor = pageEnd /\ batch'[h].of = items["backfill"]
        BY <1>3, <2>2, <3>1 DEF Drivers
      <4> QED
        BY <1>2, <3>1, <4>1 DEF IInv, Walked, SettledOr, Settled
    <3>2. CASE other # h
      <4>1. batch'[other] = batch[other]
        BY <1>3, <3>2
      <4>2. SettledOr(batch[other].cursor, batch[other].of)
        BY <2>2, <4>1 DEF IInv, Walked
      <4> QED
        BY <1>2, <4>1, <4>2 DEF SettledOr, Settled
    <3> QED
      BY <3>1, <3>2
  <2>3. ASSUME pc'["backfill"] = "submit" PROVE SettledOr(pageEnd, items["backfill"])'
    <3>1. pc["backfill"] = "submit"
      BY <1>2, <2>3 DEF AiTypeOK
    <3> QED
      BY <1>2, <3>1 DEF IInv, Walked, SettledOr, Settled
  <2> QED
    BY <2>1, <2>2, <2>3 DEF Walked
<1> QED
  BY <1>4, <1>5, <1>6, <1>7 DEF IInv

LEMMA RecordKeeps ==
    ASSUME IInv, NEW d \in Drivers, Record(d)
    PROVE  IInv'
<1>1. /\ AiTypeOK /\ EndTick(d) /\ open' = Append(open, hand[d])
      /\ UNCHANGED <<batch, outputs, letters, cursor, spend, tries, urgent, step, disabled,
                     failures>>
  BY DEF IInv, Record, jobVars
<1>2. /\ hand[d] \in Handles /\ hand[d] \notin Range(open)
      /\ \A e \in Drivers \ {d} : hand[e] # hand[d]
  BY DEF IInv, Hands, IsOpen, Record
<1>3. open' \in Seq(Handles) /\ IsInjective(open') /\ Range(open') = Range(open) \cup {hand[d]}
  BY <1>1, <1>2, AppendIsInjective DEF AiTypeOK
<1>4. AiTypeOK'
  <2>1. /\ pc' \in [Drivers -> {"idle", "fetched", "scan", "submit", "record"}]
        /\ hand' \in [Drivers -> Handles \cup {NoHandle}]
        /\ items' \in [Drivers -> SUBSET Proposals]
        /\ pageEnd' \in Proposals \cup {NoCursor}
    BY <1>1, TickEnds
  <2> QED
    BY <1>1, <1>3, <2>1 DEF AiTypeOK
<1>5. Hands'
  <2>1. \A e \in Drivers \ {d} : pc[e] = "record" => hand[e] \notin Range(open')
    BY <1>2, <1>3 DEF IInv, Hands, IsOpen
  <2> QED
    BY <1>1, <2>1, EndedHands
<1>6. Jobs'
  BY <1>1 DEF IInv, Jobs
<1>7. Walked'
  BY <1>1, EndedPage, WalkedStays
<1> QED
  BY <1>4, <1>5, <1>6, <1>7 DEF IInv

LEMMA TickFailsKeeps ==
    ASSUME IInv, NEW d \in Drivers, TickFails(d)
    PROVE  IInv'
<1>1. /\ AiTypeOK /\ EndTick(d) /\ failures < MaxFailures /\ failures' = failures + 1
      /\ UNCHANGED <<open, batch, outputs, letters, cursor, spend, tries, urgent, step, disabled>>
  BY DEF IInv, TickFails, Failure, tableVars, jobVars
<1>2. AiTypeOK'
  <2>1. /\ pc' \in [Drivers -> {"idle", "fetched", "scan", "submit", "record"}]
        /\ hand' \in [Drivers -> Handles \cup {NoHandle}]
        /\ items' \in [Drivers -> SUBSET Proposals]
        /\ pageEnd' \in Proposals \cup {NoCursor}
    BY <1>1, TickEnds
  <2>2. failures' \in 0..MaxFailures
    BY <1>1 DEF AiTypeOK
  <2> QED
    BY <1>1, <2>1, <2>2 DEF AiTypeOK
<1>3. Hands'
  <2>1. \A e \in Drivers \ {d} : pc[e] = "record" => hand[e] \notin Range(open')
    BY <1>1 DEF IInv, Hands, IsOpen
  <2> QED
    BY <1>1, <2>1, EndedHands
<1>4. Jobs'
  BY <1>1 DEF IInv, Jobs
<1>5. Walked'
  BY <1>1, EndedPage, WalkedStays
<1> QED
  BY <1>2, <1>3, <1>4, <1>5 DEF IInv

\* An action that leaves the drivers, the table and what was walked alone keeps
\* the hands.
LEMMA HandsStay ==
    ASSUME IInv, UNCHANGED <<open, pc, hand>>
    PROVE  Hands'
BY DEF IInv, Hands, IsOpen

LEMMA ProviderKeeps ==
    ASSUME IInv, NEW h \in Handles, ProviderEnds(h) \/ ProviderGarbles(h)
    PROVE  IInv'
<1>1. /\ AiTypeOK /\ batch[h] \in Batch /\ batch \in [Handles -> Batch]
      /\ UNCHANGED <<open, outputs, letters, cursor, spend, pc, hand, items, pageEnd,
                     tries, urgent, step, disabled>>
  BY DEF IInv, AiTypeOK, ProviderEnds, ProviderGarbles, tableVars, driverVars, jobVars
<1>2. failures' \in 0..MaxFailures
  <2>1. failures' = failures \/ Failure
    BY Zenon DEF ProviderEnds, ProviderGarbles
  <2> QED
    BY <1>1, <2>1 DEF AiTypeOK, Failure
<1>3. /\ batch' \in [Handles -> Batch]
      /\ \A other \in Handles :
            batch'[other].cursor = batch[other].cursor /\ batch'[other].of = batch[other].of
  <2>1. CASE ProviderEnds(h)
    <3>1. PICK good \in SUBSET batch[h].of, bad \in SUBSET batch[h].of :
             batch' = [batch EXCEPT ![h].status = "ended", ![h].good = good, ![h].bad = bad]
      BY <2>1 DEF ProviderEnds
    <3>2. /\ batch'[h] \in Batch
          /\ batch'[h].cursor = batch[h].cursor /\ batch'[h].of = batch[h].of
          /\ \A other \in Handles \ {h} : batch'[other] = batch[other]
      BY <1>1, <3>1 DEF Batch
    <3>3. batch' = [other \in Handles |-> batch'[other]]
      BY <1>1, <3>1
    <3> QED
      BY <1>1, <3>2, <3>3
  <2>2. CASE ProviderGarbles(h)
    <3>1. batch' = [batch EXCEPT ![h].status = "unreadable"]
      BY <2>2 DEF ProviderGarbles
    <3>2. /\ batch'[h] \in Batch
          /\ batch'[h].cursor = batch[h].cursor /\ batch'[h].of = batch[h].of
          /\ \A other \in Handles \ {h} : batch'[other] = batch[other]
      BY <1>1, <3>1 DEF Batch
    <3>3. batch' = [other \in Handles |-> batch'[other]]
      BY <1>1, <3>1
    <3> QED
      BY <1>1, <3>2, <3>3
  <2> QED
    BY <2>1, <2>2
<1>4. AiTypeOK'
  BY <1>1, <1>2, <1>3 DEF AiTypeOK
<1>5. Hands' /\ Jobs'
  BY <1>1, HandsStay DEF IInv, Jobs
<1>6. Walked'
  BY <1>1, <1>3, WalkedStays
<1> QED
  BY <1>4, <1>5, <1>6 DEF IInv

\* A retry leaves a job fewer tries, or none.
LEMMA RetriedIsCounted ==
    ASSUME IInv, urgent # Nobody, Retried
    PROVE  tries' \in [Proposals -> 0..(JobRetryLimit + 1)]
<1>1. /\ urgent \in Proposals /\ tries \in [Proposals -> 0..(JobRetryLimit + 1)]
      /\ tries[urgent] > 0
  BY DEF IInv, AiTypeOK, Jobs
<1>2. tries[urgent] - 1 \in 0..(JobRetryLimit + 1)
  BY <1>1
<1> QED
  BY <1>1, <1>2 DEF Retried

\* What a job does to the jobs, and to nothing of the batches.
LEMMA JobsKeep ==
    ASSUME IInv,
           \/ \E p \in Proposals : Trigger(p) \/ AckUndone(p) \/ TakeUrgent(p)
           \/ Summarized \/ DeadLetter \/ BookLetter \/ JobFails
    PROVE  IInv'
<1>1. /\ AiTypeOK
      /\ UNCHANGED <<open, batch, cursor, pc, hand, items, pageEnd, disabled>>
  BY DEF IInv, Trigger, AckUndone, TakeUrgent, Summarized, DeadLetter, BookLetter, JobFails,
         tableVars, driverVars
<1>2. /\ 0 \in 0..(JobRetryLimit + 1) /\ JobRetryLimit + 1 \in 0..(JobRetryLimit + 1)
      /\ JobRetryLimit + 1 > 0
  OBVIOUS
<1>3. Nobody \notin Proposals
  BY DEF Nobody
<1>4. step # "idle" => urgent \in Proposals /\ tries[urgent] > 0
  BY DEF IInv, AiTypeOK, Jobs
<1>5. /\ outputs \subseteq outputs' /\ letters \subseteq letters'
      /\ outputs' \in SUBSET Proposals /\ letters' \in SUBSET Proposals
  BY <1>1, <1>4 DEF AiTypeOK, Trigger, AckUndone, TakeUrgent, Summarized, DeadLetter,
     BookLetter,
         JobFails, tableVars
<1>6. spend' \in 0..Cap
  <2>1. spend' = spend \/ Book(1) \/ Book(2)
    BY DEF Trigger, AckUndone, TakeUrgent, Summarized, DeadLetter, BookLetter, JobFails
  <2>2. spend \in 0..Cap
    BY <1>1 DEF AiTypeOK
  <2> QED
    BY <2>1, <2>2, BookIsBounded
<1>7. failures' \in 0..MaxFailures
  BY <1>1 DEF AiTypeOK, Trigger, AckUndone, TakeUrgent, Summarized, DeadLetter, BookLetter,
         JobFails, Failure
<1>8. /\ tries' \in [Proposals -> 0..(JobRetryLimit + 1)]
      /\ urgent' \in Proposals \cup {Nobody} /\ step' \in {"idle", "call", "cost"} /\ Jobs'
  <2>0. /\ tries \in [Proposals -> 0..(JobRetryLimit + 1)] /\ urgent \in Proposals \cup {Nobody}
        /\ step \in {"idle", "call", "cost"} /\ Jobs
    BY <1>1 DEF IInv, AiTypeOK
  <2>1. ASSUME NEW p \in Proposals, Trigger(p) PROVE <1>8!:
    BY <1>2, <2>0, <2>1 DEF Trigger, Jobs
  <2>2. ASSUME NEW p \in Proposals, AckUndone(p) PROVE <1>8!:
    BY <1>2, <2>0, <2>2 DEF AckUndone, Acked, Jobs
  <2>3. ASSUME NEW p \in Proposals, TakeUrgent(p) PROVE <1>8!:
    BY <1>3, <2>0, <2>3 DEF TakeUrgent, Jobs
  <2>4. CASE Summarized \/ BookLetter
    BY <1>2, <2>0, <2>4 DEF Summarized, BookLetter, Acked, EndJob, Jobs
  <2>5. CASE DeadLetter
    BY <1>4, <2>0, <2>5 DEF DeadLetter, Jobs
  <2>6. CASE JobFails
    BY <2>0, <2>6, RetriedIsCounted DEF JobFails, EndJob, Jobs
  <2> QED
    BY <2>1, <2>2, <2>3, <2>4, <2>5, <2>6
<1>9. AiTypeOK'
  BY <1>1, <1>5, <1>6, <1>7, <1>8 DEF AiTypeOK
<1>10. Hands'
  BY <1>1, HandsStay
<1>11. Walked'
  BY <1>1, <1>5, WalkedStays
<1> QED
  BY <1>8, <1>9, <1>10, <1>11 DEF IInv

LEMMA BudgetKeeps ==
    ASSUME IInv, BudgetTick \/ NewMonth
    PROVE  IInv'
<1>1. /\ AiTypeOK
      /\ UNCHANGED <<open, batch, outputs, letters, cursor, pc, hand, items, pageEnd,
                     tries, urgent, step, failures>>
  BY DEF IInv, BudgetTick, NewMonth, tableVars, driverVars, jobVars
<1>2. disabled' \in BOOLEAN /\ spend' \in 0..Cap
  <2>1. CASE BudgetTick
    BY <1>1, <2>1 DEF AiTypeOK, BudgetTick
  <2>2. CASE NewMonth
    <3>1. spend' = 0 /\ disabled' = disabled
      BY <2>2 DEF NewMonth
    <3> QED
      BY <1>1, <3>1 DEF AiTypeOK
  <2> QED
    BY <2>1, <2>2
<1>3. AiTypeOK'
  BY <1>1, <1>2 DEF AiTypeOK
<1>4. Hands' /\ Jobs'
  BY <1>1, HandsStay DEF IInv, Jobs
<1>5. Walked'
  BY <1>1, WalkedStays
<1> QED
  BY <1>3, <1>4, <1>5 DEF IInv

LEMMA RestartKeeps ==
    ASSUME IInv, WorkerRestart
    PROVE  IInv'
<1>1. /\ AiTypeOK /\ UNCHANGED <<open, batch, outputs, letters, cursor, spend>>
      /\ pc' = [d \in Drivers |-> "idle"] /\ hand' = [d \in Drivers |-> NoHandle]
      /\ items' = [d \in Drivers |-> {}] /\ pageEnd' = NoCursor
      /\ urgent' = Nobody /\ step' = "idle" /\ disabled' = FALSE
      /\ failures < MaxFailures /\ failures' = failures + 1
  BY DEF IInv, WorkerRestart, Failure, EndJob, tableVars
<1>2. tries' \in [Proposals -> 0..(JobRetryLimit + 1)]
  BY <1>1, RetriedIsCounted DEF AiTypeOK, WorkerRestart
<1>3. AiTypeOK'
  <2>1. failures' \in 0..MaxFailures
    BY <1>1 DEF AiTypeOK
  <2>2. /\ pc' \in [Drivers -> {"idle", "fetched", "scan", "submit", "record"}]
        /\ hand' \in [Drivers -> Handles \cup {NoHandle}]
        /\ items' \in [Drivers -> SUBSET Proposals]
    BY <1>1
  <2> QED
    BY <1>1, <1>2, <2>1, <2>2 DEF AiTypeOK
<1>4. Hands' /\ Jobs'
  BY <1>1 DEF Hands, Jobs
<1>5. Walked'
  <2>1. pc'["backfill"] = "idle"
    BY <1>1 DEF Drivers
  <2> QED
    BY <1>1, <2>1, WalkedStays
<1> QED
  BY <1>3, <1>4, <1>5 DEF IInv

LEMMA IInvNext ==
    ASSUME IInv, [AiNext]_aiVars
    PROVE  IInv'
<1>1. ASSUME NEW d \in Drivers, DriverStep(d) \/ TickFails(d) PROVE IInv'
  BY <1>1, FetchKeeps, DrainKeeps, NothingOpenKeeps, CollectKeeps, NothingToSubmitKeeps,
     SubmitKeeps, RecordKeeps, TickFailsKeeps
     DEF DriverStep
<1>2. ASSUME NEW h \in Handles, ProviderEnds(h) \/ ProviderGarbles(h) PROVE IInv'
  BY <1>2, ProviderKeeps
<1>3. CASE (\E p \in Proposals : Trigger(p)) \/ JobStep \/ JobFails
  BY <1>3, JobsKeep DEF JobStep
<1>4. CASE BudgetTick \/ NewMonth
  BY <1>4, BudgetKeeps
<1>5. CASE WorkerRestart
  BY <1>5, RestartKeeps
<1>6. CASE UNCHANGED aiVars
  BY <1>6 DEF IInv, AiTypeOK, Hands, Jobs, Walked, SettledOr, Settled, IsOpen, aiVars
<1> QED
  BY <1>1, <1>2, <1>3, <1>4, <1>5, <1>6 DEF AiNext

LEMMA IInvHolds == AiSpec => []IInv
<1>1. IInv /\ [AiNext]_aiVars => IInv'
  BY IInvNext
<1> QED
  BY <1>1, IInvInit, PTL DEF AiSpec

\* Every variable of the worker stays in its range: a handle is in ai_batch once,
\* a driver holds a batch that is known, and no row of a cost goes past the cap
\* the model counts to.
THEOREM TypeCorrect == AiSpec => []AiTypeOK
<1>1. IInv => AiTypeOK
  BY DEF IInv
<1> QED
  BY <1>1, IInvHolds, PTL

\* The backfill's cursor passes nothing that has neither its output nor its dead
\* letter: not when the provider leaves results out, when the live driver drains
\* the page, when a month's budget ends or when the process dies in the middle.
THEOREM WalkedIsKept == AiSpec => []WalkedIsSettled
<1>1. IInv => WalkedIsSettled
  BY DEF IInv, Walked, SettledOr, WalkedIsSettled
<1> QED
  BY <1>1, IInvHolds, PTL

HIDE AiAssumption

-----------------------------------------------------------------------------
(* RpcFailover.                                                            *)

USE FailoverAssumption

LEMMA PlacesHaveProviders ==
    \A place \in Places : place \in Nat /\ ProviderAt(place) \in Providers
<1>1. Len(Order) \in Nat /\ \A k \in 1..Len(Order) : Order[k] \in Providers
  OBVIOUS
<1> QED
  BY <1>1 DEF Places, ProviderAt

\* The first of the candidates is one of them.
LEMMA LeastIsFirst ==
    ASSUME NEW candidates \in SUBSET Places, candidates # {}
    PROVE  Least(candidates) \in candidates
<1>1. candidates \subseteq Nat
  BY PlacesHaveProviders
<1>2. PICK least \in candidates : \A n \in candidates : least <= n
  <2> HIDE FailoverAssumption
  <2> QED
    BY <1>1, NaturalsHaveLeast
<1> QED
  BY <1>2 DEF Least

\* What the calls of the circuit breaker make of one.
LEMMA BreakerTypes ==
    ASSUME NEW b \in Breaker
    PROVE  /\ Closed \in Breaker /\ Tried(b) \in Breaker /\ Acquired(b) \in Breaker
           /\ RecordSuccess(b) \in Breaker /\ RecordFailure(b) \in Breaker
           /\ RecordAbandoned(b) \in Breaker /\ Older(b) \in Breaker
<1> USE DEF Breaker
<1>1. 0 \in Ages /\ 0 \in 0..Cooldown
  BY DEF Ages
<1>2. Closed \in Breaker
  BY <1>1 DEF Closed
<1>3. Tried(b) \in Breaker /\ Acquired(b) \in Breaker /\ RecordAbandoned(b) \in Breaker
  BY DEF Tried, Acquired, RecordAbandoned
<1>4. RecordFailure(b) \in Breaker
  <2> DEFINE failed == [b EXCEPT !.failures[0] = @ + 1]
  <2>1. failed \in Breaker
    <3>1. [b.failures EXCEPT ![0] = @ + 1] \in [Ages -> Nat]
      BY <1>1
    <3> QED
      BY <3>1
  <2>2. RecordFailure(b) \in {failed, Open(failed), [Open(failed) EXCEPT !.probe = FALSE]}
    BY DEF RecordFailure
  <2> HIDE DEF failed
  <2> QED
    BY <1>1, <2>1, <2>2 DEF Open
<1>5. Older(b) \in Breaker
  <2>1. \A age \in Ages : age # 0 => age - 1 \in Ages
    BY DEF Ages
  <2>2. [age \in Ages |-> IF age = 0 THEN 0 ELSE b.failures[age - 1]] \in [Ages -> Nat]
    BY <2>1
  <2>3. (IF b.state = "open" /\ b.openFor < Cooldown THEN b.openFor + 1 ELSE b.openFor)
            \in 0..Cooldown
    OBVIOUS
  <2> QED
    BY <2>2, <2>3 DEF Older
<1> QED
  BY <1>2, <1>3, <1>4, <1>5 DEF RecordSuccess

LEMMA Acquiring ==
    ASSUME NEW b \in Breaker, b.probe => b.state = "half-open", Grants(b)
    PROVE  LET c == Acquired(b) IN
           /\ c.state \in {"closed", "half-open"}
           /\ c.probe <=> c.state = "half-open"
           /\ c.state = "half-open" =>
                 \/ b.state = "half-open" /\ ~b.probe
                 \/ b.state = "open" /\ b.openFor = Cooldown
BY DEF Breaker, Grants, Tried, Acquired, CooledDown

\* Whoever is refused leaves the breaker as it is.
LEMMA Refused ==
    ASSUME NEW b \in Breaker, b.probe => b.state = "half-open", ~Grants(b)
    PROVE  Tried(b) = b
BY DEF Breaker, Grants, Tried, CooledDown

LEMMA Failing ==
    ASSUME NEW b \in Breaker, b.probe => b.state = "half-open"
    PROVE  LET c == RecordFailure(b) IN
           /\ c.state \in {"closed", "open"} /\ ~c.probe
           /\ c.state = "open" => c.openFor = 0 \/ (b.state = "open" /\ c.openFor = b.openFor)
<1> DEFINE failed == [b EXCEPT !.failures[0] = @ + 1]
<1>1. failed.state = b.state /\ failed.probe = b.probe /\ failed.openFor = b.openFor
  BY DEF Breaker
<1>2. /\ Open(failed).state = "open" /\ Open(failed).openFor = 0
      /\ Open(failed).probe = b.probe
      /\ [Open(failed) EXCEPT !.probe = FALSE].state = "open"
      /\ [Open(failed) EXCEPT !.probe = FALSE].openFor = 0
      /\ [Open(failed) EXCEPT !.probe = FALSE].probe = FALSE
  BY DEF Breaker, Open
<1>3. \/ /\ b.state = "half-open"
         /\ RecordFailure(b) = [Open(failed) EXCEPT !.probe = FALSE]
      \/ b.state = "closed" /\ RecordFailure(b) = Open(failed)
      \/ b.state # "half-open" /\ RecordFailure(b) = failed
  BY DEF RecordFailure
<1>4. b.probe \in BOOLEAN /\ b.state \in {"closed", "open", "half-open"}
  BY DEF Breaker
<1> DEFINE c == RecordFailure(b)
<1>5. ASSUME b.state # "half-open"
      PROVE  failed.probe = FALSE /\ Open(failed).probe = FALSE
  BY <1>1, <1>2, <1>4, <1>5
<1>6. c.state \in {"closed", "open"} /\ c.probe = FALSE
  <2> HIDE DEF failed
  <2> QED
    BY <1>1, <1>2, <1>3, <1>4, <1>5
<1>7. c.state = "open" => c.openFor = 0 \/ (b.state = "open" /\ c.openFor = b.openFor)
  <2> HIDE DEF failed
  <2> QED
    BY <1>1, <1>2, <1>3
<1> QED
  BY <1>6, <1>7

-----------------------------------------------------------------------------
(* The invariant: what a breaker says of the sends in flight at its        *)
(* provider.  Those in flight when it opened are as old as that; a         *)
(* half-open one has at most one, and none if its slot is free; and only a *)
(* half-open one has the slot taken, by a send or by one lost to a         *)
(* rethrown error or to stop.                                              *)

AtMostOne(p, sends) == \A t, u \in sends : at[t] = p /\ at[u] = p => t = u

\* A slot may be taken for good.
Lost == stopped \/ transparent > 0

Fits(b, p, sends, leaked) ==
    /\ b.state = "open" => \A t \in sends : at[t] = p => b.openFor <= elapsed[t]
    /\ b.state = "half-open" => AtMostOne(p, sends)
    /\ b.state = "half-open" /\ ~b.probe => \A t \in sends : at[t] # p
    /\ b.probe => b.state = "half-open"
    /\ b.probe => (\E t \in sends : at[t] = p) \/ leaked

Probing == \A p \in Providers : Fits(breaker[p], p, Sends, Lost)

\* A send that ends leaves the others as they were.
LEMMA FinishKeeps ==
    ASSUME FailoverTypeOK, NEW s \in Sends, NEW breakers \in [Providers -> Breaker],
           NEW leaked \in BOOLEAN, leaked => Lost',
           \A p \in Providers : Fits(breakers[p], p, Sends \ {s}, leaked),
           breaker' = breakers, Finish(s),
           UNCHANGED <<usable, deprioritized>>,
           stopped' \in BOOLEAN, transparent' \in 0..MaxTransparent
    PROVE  FailoverTypeOK' /\ Probing'
<1>1. FailoverTypeOK'
  BY DEF FailoverTypeOK, Finish
<1>2. /\ at'[s] = NoProvider
      /\ \A t \in Sends \ {s} : at'[t] = at[t] /\ elapsed'[t] = elapsed[t]
  BY DEF FailoverTypeOK, Finish
<1>3. ASSUME NEW p \in Providers PROVE Fits(breaker[p], p, Sends, Lost)'
  <2>1. \A t \in Sends : at'[t] = p => t \in Sends \ {s} /\ at[t] = p
    BY <1>2
  <2>2. \A t \in Sends \ {s} : at[t] = p => at'[t] = p
    BY <1>2
  <2>3. Fits(breakers[p], p, Sends \ {s}, leaked)
    OBVIOUS
  <2> QED
    BY <1>2, <2>1, <2>2, <2>3 DEF Fits, AtMostOne
<1> QED
  BY <1>1, <1>3 DEF Probing

\* A send that goes on to another provider meets nobody there unless its
\* breaker is closed: whoever was in flight when it opened has met its deadline
\* before the cooldown is over.
LEMMA RouteKeeps ==
    ASSUME Deadline < Cooldown, FailoverTypeOK, NEW s \in Sends,
           NEW candidates \in SUBSET Places,
           NEW breakers \in [Providers -> Breaker],
           \A p \in Providers : Fits(breakers[p], p, Sends \ {s}, Lost),
           NEW spent \in 0..Deadline, Route(s, candidates, breakers, spent),
           UNCHANGED <<usable, deprioritized, stopped, transparent>>
    PROVE  FailoverTypeOK' /\ Probing'
<1> DEFINE granting == {k \in candidates : Grants(breakers[ProviderAt(k)])}
           next == Least(granting)
           q == ProviderAt(next)
           tried == [p \in Providers |->
                       IF p \in Refusing(candidates, breakers) THEN Tried(breakers[p])
                       ELSE breakers[p]]
<1>1. \A p \in Providers : breakers[p].probe => breakers[p].state = "half-open"
  BY DEF Fits
<1>2. \A p \in Refusing(candidates, breakers) : p \in Providers /\ ~Grants(breakers[p])
  BY PlacesHaveProviders DEF Refusing
<1>3. tried = breakers
  <2>1. \A p \in Refusing(candidates, breakers) : Tried(breakers[p]) = breakers[p]
    BY <1>1, <1>2, Refused
  <2> QED
    BY <2>1
<1>4. CASE breaker' = breakers /\ Finish(s)
  <2>1. /\ stopped' \in BOOLEAN /\ transparent' \in 0..MaxTransparent
        /\ Lost \in BOOLEAN /\ (Lost => Lost')
    BY DEF FailoverTypeOK, Lost
  <2> QED
    BY <1>4, <2>1, FinishKeeps
<1>5. CASE /\ granting # {}
           /\ breaker' = [tried EXCEPT ![q] = Acquired(breakers[q])]
           /\ at' = [at EXCEPT ![s] = q]
           /\ todo' = [todo EXCEPT ![s] = {k \in candidates : k > next}]
           /\ elapsed' = [elapsed EXCEPT ![s] = spent]
  <2>1. next \in granting /\ q \in Providers /\ Grants(breakers[q])
    <3>1. granting \in SUBSET Places
      OBVIOUS
    <3> HIDE DEF granting
    <3>2. next \in granting
      BY <1>5, <3>1, LeastIsFirst
    <3> QED
      BY <3>2, PlacesHaveProviders DEF granting
  <2> DEFINE b == breakers[q]
             c == Acquired(b)
  <2> HIDE DEF next, q
  <2>2. /\ c \in Breaker /\ c.state \in {"closed", "half-open"}
        /\ c.probe <=> c.state = "half-open"
        /\ c.state = "half-open" =>
              \/ b.state = "half-open" /\ ~b.probe
              \/ b.state = "open" /\ b.openFor = Cooldown
    BY <1>1, <2>1, Acquiring, BreakerTypes
  <2>3. breaker' \in [Providers -> Breaker] /\ breaker'[q] = c
        /\ \A p \in Providers \ {q} : breaker'[p] = breakers[p]
    BY <1>3, <1>5, <2>1, <2>2
  <2>4. FailoverTypeOK'
    BY <1>5, <2>1, <2>3 DEF FailoverTypeOK
  <2>5. /\ at'[s] = q
        /\ \A t \in Sends \ {s} : at'[t] = at[t] /\ elapsed'[t] = elapsed[t]
        /\ Lost' = Lost
    BY <1>5, <2>1 DEF FailoverTypeOK, Lost
  <2>6. Fits(c, q, Sends, Lost)'
    <3>1. c.state = "half-open" => \A t \in Sends \ {s} : at[t] # q
      <4>1. \A t \in Sends : ~(Cooldown <= elapsed[t])
        BY DEF FailoverTypeOK
      <4>2. Fits(b, q, Sends \ {s}, Lost)
        BY <2>1
      <4>3. CASE b.state = "half-open" /\ ~b.probe
        BY <4>2, <4>3 DEF Fits
      <4>4. CASE b.state = "open" /\ b.openFor = Cooldown
        BY <4>1, <4>2, <4>4 DEF Fits
      <4> QED
        BY <2>2, <4>3, <4>4
    <3> QED
      BY <2>2, <2>5, <3>1 DEF Fits, AtMostOne
  <2>7. ASSUME NEW p \in Providers \ {q} PROVE Fits(breaker[p], p, Sends, Lost)'
    <3>1. \A t \in Sends : at'[t] = p => t \in Sends \ {s} /\ at[t] = p
      BY <2>5
    <3>2. \A t \in Sends \ {s} : at[t] = p => at'[t] = p
      BY <2>5
    <3>3. Fits(breakers[p], p, Sends \ {s}, Lost)
      OBVIOUS
    <3> QED
      BY <2>3, <2>5, <3>1, <3>2, <3>3 DEF Fits, AtMostOne
  <2> QED
    BY <2>3, <2>4, <2>6, <2>7 DEF Probing
<1>6. \/ breaker' = breakers /\ Finish(s)
      \/ /\ granting # {}
         /\ breaker' = [tried EXCEPT ![q] = Acquired(breakers[q])]
         /\ at' = [at EXCEPT ![s] = q]
         /\ todo' = [todo EXCEPT ![s] = {k \in candidates : k > next}]
         /\ elapsed' = [elapsed EXCEPT ![s] = spent]
  BY <1>3 DEF Route
<1> QED
  BY <1>4, <1>5, <1>6

LEMMA ProbingInit == FailoverInit => FailoverTypeOK /\ Probing
<1> SUFFICES ASSUME FailoverInit PROVE FailoverTypeOK /\ Probing
  OBVIOUS
<1>1. Closed \in Breaker
  BY DEF Closed, Breaker, Ages
<1>2. FailoverTypeOK
  <2>1. 0 \in 0..Deadline /\ 0 \in 0..MaxTransparent
    OBVIOUS
  <2> QED
    BY <1>1, <2>1 DEF FailoverInit, FailoverTypeOK
<1> QED
  BY <1>2 DEF FailoverInit, Probing, Fits, Closed

LEMMA ProbingNext ==
    ASSUME Deadline < Cooldown, FailoverTypeOK, Probing, [FailoverNext]_failoverVars
    PROVE  FailoverTypeOK' /\ Probing'
<1>1. \A p \in Providers, s \in Sends :
          /\ at[s] # p => Fits(breaker[p], p, Sends \ {s}, Lost)
          /\ Fits(breaker[p], p, Sends \ {s}, TRUE)
  BY DEF Probing, Fits, AtMostOne
\* The provider that answered: closed, opened anew, or left open.
<1>2. ASSUME NEW s \in Sends, ~NotSending(s), NEW b \in Breaker, ~b.probe,
             \/ b.state = "closed"
             \/ /\ b.state = "open"
                /\ b.openFor = 0 \/ (/\ breaker[at[s]].state = "open"
                                     /\ b.openFor = breaker[at[s]].openFor)
             \/ b.state = "half-open" /\ breaker[at[s]].state = "half-open"
      PROVE  \A p \in Providers :
                Fits([breaker EXCEPT ![at[s]] = b][p], p, Sends \ {s}, Lost)
  <2> SUFFICES ASSUME NEW p \in Providers
               PROVE  Fits([breaker EXCEPT ![at[s]] = b][p], p, Sends \ {s}, Lost)
    OBVIOUS
  <2>1. CASE at[s] # p
    BY <1>1, <2>1 DEF FailoverTypeOK
  <2>2. CASE at[s] = p
    <3>1. [breaker EXCEPT ![at[s]] = b][p] = b
      BY <2>2 DEF FailoverTypeOK
    <3>2. \A t \in Sends : 0 <= elapsed[t]
      BY DEF FailoverTypeOK
    <3>3. Fits(breaker[p], p, Sends, Lost)
      BY DEF Probing
    <3>4. Fits(b, p, Sends \ {s}, Lost)
      BY <1>2, <2>2, <3>2, <3>3 DEF Fits, AtMostOne
    <3> QED
      BY <3>1, <3>4
  <2> QED
    BY <2>1, <2>2
<1>3. \A s \in Sends : ~NotSending(s) => at[s] \in Providers /\ breaker[at[s]] \in Breaker
  BY DEF FailoverTypeOK, NotSending
<1>4. \A p \in Providers : breaker[p].probe => breaker[p].state = "half-open"
  BY DEF Probing, Fits
<1>5. /\ transparent \in 0..MaxTransparent /\ stopped \in BOOLEAN
      /\ Lost \in BOOLEAN
  BY DEF FailoverTypeOK, Lost
<1>6. ASSUME NEW s \in Sends, Send(s) PROVE FailoverTypeOK' /\ Probing'
  <2>1. Candidates \in SUBSET Places /\ 0 \in 0..Deadline
    BY DEF Candidates
  <2>2. \A p \in Providers : Fits(breaker[p], p, Sends \ {s}, Lost)
    BY <1>1, <1>6 DEF Send, NotSending
  <2> QED
    BY <1>6, <2>1, <2>2, RouteKeeps DEF Send, FailoverTypeOK
<1>7. ASSUME NEW s \in Sends, Succeed(s) PROVE FailoverTypeOK' /\ Probing'
  <2>1. Closed \in Breaker /\ Closed.state = "closed" /\ ~Closed.probe
    BY DEF Closed, Breaker, Ages
  <2> DEFINE breakers == [breaker EXCEPT ![at[s]] = Closed]
  <2>2. \A p \in Providers : Fits(breakers[p], p, Sends \ {s}, Lost)
    BY <1>2, <1>7, <2>1 DEF Succeed
  <2>3. breakers \in [Providers -> Breaker]
    BY <2>1 DEF FailoverTypeOK
  <2>4. breaker' = breakers
    BY <1>7 DEF Succeed, RecordSuccess
  <2> HIDE DEF breakers
  <2>5. UNCHANGED <<usable, deprioritized, stopped, transparent>> /\ Finish(s)
    BY <1>7 DEF Succeed
  <2> QED
    BY <1>5, <2>2, <2>3, <2>4, <2>5, FinishKeeps DEF Lost
<1>8. ASSUME NEW s \in Sends, ProviderFails(s) PROVE FailoverTypeOK' /\ Probing'
  <2> DEFINE b == RecordFailure(breaker[at[s]])
             breakers == [breaker EXCEPT ![at[s]] = b]
  <2>1. ~NotSending(s) /\ at[s] \in Providers /\ breaker[at[s]] \in Breaker
    BY <1>3, <1>8 DEF ProviderFails
  <2>2. b \in Breaker
    BY <2>1, BreakerTypes
  <2>3. /\ b.state \in {"closed", "open"} /\ ~b.probe
        /\ b.state = "open" =>
              b.openFor = 0 \/ (/\ breaker[at[s]].state = "open"
                                /\ b.openFor = breaker[at[s]].openFor)
    BY <1>4, <2>1, Failing
  <2> HIDE DEF b
  <2>4. \A p \in Providers : Fits(breakers[p], p, Sends \ {s}, Lost)
    BY <1>2, <2>1, <2>2, <2>3
  <2>5. breakers \in [Providers -> Breaker] /\ todo[s] \in SUBSET Places
        /\ elapsed[s] \in 0..Deadline
    BY <2>1, <2>2 DEF FailoverTypeOK
  <2>6. Route(s, todo[s], breakers, elapsed[s])
    BY <1>8 DEF ProviderFails, b
  <2> HIDE DEF breakers
  <2> QED
    BY <1>8, <2>4, <2>5, <2>6, RouteKeeps DEF ProviderFails
<1>9. ASSUME NEW s \in Sends, CallerFails(s) PROVE FailoverTypeOK' /\ Probing'
  <2>1. /\ breaker' = breaker /\ UNCHANGED <<usable, deprioritized>> /\ Finish(s)
        /\ stopped' \in BOOLEAN /\ transparent' \in 0..MaxTransparent /\ Lost'
    BY <1>5, <1>9 DEF CallerFails, Lost
  <2>2. breaker \in [Providers -> Breaker]
    BY DEF FailoverTypeOK
  <2> QED
    BY <1>1, <2>1, <2>2, FinishKeeps
<1>10. ASSUME NEW s \in Sends, DeadlineExpires(s) PROVE FailoverTypeOK' /\ Probing'
  <2> DEFINE b == RecordAbandoned(breaker[at[s]])
             breakers == [breaker EXCEPT ![at[s]] = b]
  <2>1. ~NotSending(s) /\ at[s] \in Providers /\ breaker[at[s]] \in Breaker
    BY <1>3, <1>10 DEF DeadlineExpires
  <2>2. b \in Breaker
    BY <2>1, BreakerTypes
  <2>3. b.state = breaker[at[s]].state /\ b.openFor = breaker[at[s]].openFor
        /\ b.state \in {"closed", "open", "half-open"} /\ ~b.probe
    BY <1>4, <2>1 DEF Breaker, RecordAbandoned
  <2> HIDE DEF b
  <2>4. \A p \in Providers : Fits(breakers[p], p, Sends \ {s}, Lost)
    BY <1>2, <2>1, <2>2, <2>3
  <2>5. breakers \in [Providers -> Breaker]
    BY <2>1, <2>2 DEF FailoverTypeOK
  <2>6. breaker' = breakers
    BY <1>10 DEF DeadlineExpires, b
  <2> HIDE DEF breakers
  <2>7. UNCHANGED <<usable, deprioritized, stopped, transparent>> /\ Finish(s)
    BY <1>10 DEF DeadlineExpires
  <2> QED
    BY <1>5, <2>4, <2>5, <2>6, <2>7, FinishKeeps DEF Lost
<1>11. ASSUME NEW s \in Sends, FailsStopped(s) PROVE FailoverTypeOK' /\ Probing'
  <2>1. /\ breaker' = breaker /\ UNCHANGED <<usable, deprioritized>> /\ Finish(s)
        /\ stopped' \in BOOLEAN /\ transparent' \in 0..MaxTransparent /\ Lost'
    BY <1>5, <1>11 DEF FailsStopped, Lost
  <2>2. breaker \in [Providers -> Breaker]
    BY DEF FailoverTypeOK
  <2> QED
    BY <1>1, <2>1, <2>2, FinishKeeps
<1>12. CASE Stop \/ HealthCheck \/ UNCHANGED failoverVars
  <2>1. FailoverTypeOK'
    BY <1>12 DEF Stop, HealthCheck, FailoverTypeOK, failoverVars, sendVars
  <2>2. /\ UNCHANGED <<breaker, at, elapsed>> /\ (Lost => Lost')
    BY <1>12 DEF Stop, HealthCheck, failoverVars, sendVars, Lost
  <2> QED
    BY <2>1, <2>2 DEF Probing, Fits, AtMostOne
\* A send grows older with the breaker it waits behind.
<1>13. CASE Tick
  <2>1. \A s \in Sends : ~NotSending(s) =>
            elapsed[s] \in 0..Deadline /\ elapsed'[s] = elapsed[s] + 1 /\ elapsed[s] < Deadline
    BY <1>13 DEF Tick, FailoverTypeOK
  <2>2. FailoverTypeOK'
    <3>1. \A p \in Providers : Older(breaker[p]) \in Breaker
      BY BreakerTypes DEF FailoverTypeOK
    <3>2. elapsed' \in [Sends -> 0..Deadline]
      BY <1>13, <2>1 DEF Tick
    <3> QED
      BY <1>13, <3>1, <3>2 DEF Tick, FailoverTypeOK
  <2>3. ASSUME NEW p \in Providers PROVE Fits(breaker[p], p, Sends, Lost)'
    <3>1. Fits(breaker[p], p, Sends, Lost) /\ breaker[p] \in Breaker
      BY DEF Probing, FailoverTypeOK
    <3>2. /\ breaker'[p].state = breaker[p].state /\ breaker'[p].probe = breaker[p].probe
          /\ breaker'[p].openFor <= breaker[p].openFor + 1
      <4>1. breaker'[p] = Older(breaker[p])
        BY <1>13 DEF Tick
      <4>2. Older(breaker[p]).openFor =
                IF breaker[p].state = "open" /\ breaker[p].openFor < Cooldown
                THEN breaker[p].openFor + 1 ELSE breaker[p].openFor
        BY <3>1 DEF Older, Breaker
      <4> QED
        BY <3>1, <4>1, <4>2 DEF Older, Breaker
    <3>3. at' = at /\ Lost' = Lost
      BY <1>13 DEF Tick, Lost
    <3>4. \A t \in Sends : at[t] = p => ~NotSending(t)
      BY DEF NotSending
    <3>5. breaker[p].state = "open" =>
              \A t \in Sends : at[t] = p => breaker'[p].openFor <= elapsed'[t]
      <4>1. breaker'[p].openFor \in Nat
        BY <2>2 DEF FailoverTypeOK, Breaker
      <4> QED
        BY <2>1, <3>1, <3>2, <3>4, <4>1 DEF Fits, Breaker
    <3> QED
      BY <3>1, <3>2, <3>3, <3>5 DEF Fits, AtMostOne
  <2> QED
    BY <2>2, <2>3 DEF Probing
<1> QED
  BY <1>6, <1>7, <1>8, <1>9, <1>10, <1>11, <1>12, <1>13 DEF FailoverNext, Answer

-----------------------------------------------------------------------------
\* circuit-breaker.ts: while a provider is half-open one request is in flight
\* to it, however many callers and providers there are, and a taken slot has a
\* send that will release it, a rethrown error aside.
THEOREM OneProbeAtATime == Deadline < Cooldown => (FailoverSpec => []OneProbe)
<1> SUFFICES ASSUME Deadline < Cooldown PROVE FailoverSpec => []OneProbe
  OBVIOUS
<1>1. FailoverTypeOK /\ Probing /\ [FailoverNext]_failoverVars => FailoverTypeOK' /\ Probing'
  BY ProbingNext
<1>2. FailoverTypeOK /\ Probing => OneProbe
  <2> SUFFICES ASSUME FailoverTypeOK, Probing, NEW p \in Providers
               PROVE  /\ breaker[p].state = "half-open" => Cardinality(InFlight(p)) <= 1
                      /\ breaker[p].probe => InFlight(p) # {} \/ stopped \/ transparent > 0
    BY DEF OneProbe
  <2>1. Fits(breaker[p], p, Sends, Lost)
    BY DEF Probing
  <2>2. ASSUME breaker[p].state = "half-open" PROVE Cardinality(InFlight(p)) <= 1
    <3>1. \A t, u \in InFlight(p) : t = u
      BY <2>1, <2>2 DEF Fits, AtMostOne, InFlight
    <3>2. CASE InFlight(p) = {}
      BY <3>2, FS_EmptySet
    <3>3. ASSUME NEW s \in InFlight(p) PROVE Cardinality(InFlight(p)) <= 1
      <4>1. InFlight(p) = {s}
        BY <3>1
      <4>2. Cardinality({s}) = 1
        BY FS_Singleton
      <4> QED
        BY <4>1, <4>2
    <3> QED
      BY <3>2, <3>3
  <2> QED
    BY <2>1, <2>2 DEF Fits, Lost, InFlight
<1> QED
  BY <1>1, <1>2, ProbingInit, PTL DEF FailoverSpec
=============================================================================
