--------------------------- MODULE OffchainProofs ---------------------------
(***************************************************************************)
(* Proofs about OffchainDerivation, with OffchainArchive, for every finite *)
(* set of items and any number of edits, retries, resends and faults.      *)
(***************************************************************************)
EXTENDS OffchainDerivation, FiniteSetTheorems, SequenceTheorems, WellFoundedInduction, TLAPS

-----------------------------------------------------------------------------
(* Sets of numbers, and sequences.                                         *)

Before == {pair \in Nat \X Nat : pair[1] < pair[2]}

LEMMA NaturalsHaveLeast ==
    ASSUME NEW S, S \subseteq Nat, S # {}
    PROVE  \E least \in S : \A n \in S : least <= n
<1>1. IsWellFoundedOn(Before, Nat)
  BY NatLessThanWellFounded, Zenon DEF OpToRel, Before
<1>2. PICK least \in S : \A n \in S : ~(<<n, least>> \in Before)
  BY <1>1, WFMin, Zenon
<1>3. \A n \in S : ~(n < least)
  BY <1>2 DEF Before
<1> QED
  BY <1>3

\* RemoveAt closes the gap and changes nothing else.
LEMMA RemoveAtCloses ==
    ASSUME NEW S, NEW s \in Seq(S), NEW k \in 1..Len(s)
    PROVE  /\ RemoveAt(s, k) \in Seq(S)
           /\ Len(RemoveAt(s, k)) = Len(s) - 1
           /\ \A j \in 1..(Len(s) - 1) :
                 RemoveAt(s, k)[j] = s[IF j < k THEN j ELSE j + 1]
<1> DEFINE before == SubSeq(s, 1, k - 1)
           after == SubSeq(s, k + 1, Len(s))
<1>1. Len(s) \in Nat /\ k \in Nat /\ 1 <= k /\ k <= Len(s)
  OBVIOUS
<1>2. /\ before \in Seq(S) /\ Len(before) = k - 1
      /\ \A j \in 1..(k - 1) : before[j] = s[j]
  <2>1. \A j \in 1..(k - 1) : j \in 1..Len(s)
    BY <1>1
  <2> QED
    BY <1>1, <2>1, SubSeqProperties
<1>3. /\ after \in Seq(S) /\ Len(after) = Len(s) - k
      /\ \A j \in 1..(Len(s) - k) : after[j] = s[k + j]
  <2>1. \A j \in (k + 1)..Len(s) : j \in 1..Len(s)
    BY <1>1
  <2>2. /\ after \in Seq(S)
        /\ Len(after) = IF k + 1 <= Len(s) THEN Len(s) - (k + 1) + 1 ELSE 0
        /\ \A j \in 1..Len(after) : after[j] = s[k + 1 + j - 1]
    BY <1>1, <2>1, SubSeqProperties
  <2>3. Len(after) = Len(s) - k
    BY <1>1, <2>2
  <2>4. \A j \in 1..(Len(s) - k) : k + 1 + j - 1 = k + j
    BY <1>1
  <2> QED
    BY <2>2, <2>3, <2>4
<1> HIDE DEF before, after
<1>4. /\ before \o after \in Seq(S) /\ Len(before \o after) = Len(s) - 1
      /\ \A j \in 1..(Len(s) - 1) :
            (before \o after)[j] = IF j <= k - 1 THEN before[j] ELSE after[j - (k - 1)]
  <2>1. Len(before) + Len(after) = Len(s) - 1
    BY <1>1, <1>2, <1>3
  <2>2. /\ before \o after \in Seq(S) /\ Len(before \o after) = Len(before) + Len(after)
        /\ \A j \in 1..(Len(before) + Len(after)) :
              (before \o after)[j] =
                  IF j <= Len(before) THEN before[j] ELSE after[j - Len(before)]
    BY <1>2, <1>3, ConcatProperties
  <2> QED
    BY <1>2, <2>1, <2>2
<1>5. ASSUME NEW j \in 1..(Len(s) - 1)
      PROVE  (before \o after)[j] = s[IF j < k THEN j ELSE j + 1]
  <2>1. CASE j < k
    BY <1>1, <1>2, <1>4, <2>1
  <2>2. CASE ~(j < k)
    <3>1. j - (k - 1) \in 1..(Len(s) - k) /\ k + (j - (k - 1)) = j + 1 /\ ~(j <= k - 1)
      BY <1>1, <2>2
    <3> QED
      BY <1>3, <1>4, <2>2, <3>1
  <2> QED
    BY <2>1, <2>2
<1>6. RemoveAt(s, k) = before \o after
  BY DEF RemoveAt, before, after
<1> QED
  BY <1>4, <1>5, <1>6

-----------------------------------------------------------------------------
(* The queue. *)

LEMMA SomeJobIsFirst ==
    ASSUME NEW queue \in Seq(Job), NEW state, \E k \in DOMAIN queue : queue[k].state = state
    PROVE  \E k \in DOMAIN queue :
              queue[k].state = state /\ \A j \in 1..(k - 1) : queue[j].state # state
<1> DEFINE S == {k \in DOMAIN queue : queue[k].state = state}
<1>1. Len(queue) \in Nat /\ DOMAIN queue = 1..Len(queue)
  OBVIOUS
<1>2. S \subseteq Nat /\ S # {}
  BY <1>1
<1>3. PICK least \in S : \A n \in S : least <= n
  BY <1>2, NaturalsHaveLeast
<1>4. \A j \in 1..(least - 1) : j \in DOMAIN queue /\ ~(least <= j)
  BY <1>1, <1>3
<1> QED
  BY <1>3, <1>4

LEMMA FirstIsFirst ==
    ASSUME jobs \in Seq(Job), NEW state, \E k \in DOMAIN jobs : jobs[k].state = state
    PROVE  /\ First(state) \in DOMAIN jobs /\ jobs[First(state)].state = state
           /\ \A j \in 1..(First(state) - 1) : jobs[j].state # state
BY SomeJobIsFirst DEF First

IsActive(k) == jobs[k].state = "active"

\* One worker holds one job.
OneActive == \A j, k \in DOMAIN jobs : IsActive(j) /\ IsActive(k) => j = k

\* Nothing is paged, and no revision read, before it is published.
PublishedFirst ==
    /\ \A i \in mem \cup cursor : published[i] > 0
    /\ \A content \in fetched : content[2] <= published[content[1]]

Shape == DerivationTypeOK /\ IsFiniteSet(fetched) /\ OneActive /\ PublishedFirst

LEMMA ActiveIsActive ==
    ASSUME Shape, pc # "idle"
    PROVE  /\ First("active") \in DOMAIN jobs /\ IsActive(First("active"))
           /\ Active \in Job
           /\ \A k \in DOMAIN jobs : IsActive(k) => k = First("active") /\ jobs[k] = Active
<1>1. jobs \in Seq(Job) /\ \E k \in DOMAIN jobs : jobs[k].state = "active"
  BY DEF Shape, DerivationTypeOK, TypeOK
<1>2. First("active") \in DOMAIN jobs /\ IsActive(First("active"))
  BY <1>1, FirstIsFirst DEF IsActive
<1>3. jobs[First("active")] \in Job
  BY <1>1, <1>2
<1> QED
  BY <1>2, <1>3 DEF Active, Shape, OneActive

\* A step that adds no active job and drops none leaves the worker its job.
Keeps ==
    /\ jobs' \in Seq(Job) /\ OneActive'
    /\ \A k \in DOMAIN jobs' : IsActive(k)' => \E j \in DOMAIN jobs : jobs'[k] = jobs[j]
    /\ \A k \in DOMAIN jobs : IsActive(k) => \E j \in DOMAIN jobs' : IsActive(j)'

LEMMA KeptIsActive ==
    ASSUME Shape, Keeps, pc # "idle"
    PROVE  Active' = Active
<1>1. \E k \in DOMAIN jobs' : jobs'[k].state = "active"
  BY ActiveIsActive DEF Keeps, IsActive
<1>2. First("active")' \in DOMAIN jobs' /\ jobs'[First("active")'].state = "active"
  BY <1>1, SomeJobIsFirst DEF Keeps, First
<1> QED
  BY <1>2, ActiveIsActive DEF Keeps, IsActive, Active

\* commitTick appends one job for each content the tick has read.
LEMMA CommitAppends ==
    ASSUME jobs \in Seq(Job), fetched \subseteq Content, IsFiniteSet(fetched),
           OffchainAssumption, Commit
    PROVE  /\ jobs' \in Seq(Job) /\ Len(jobs) <= Len(jobs')
           /\ \A k \in 1..Len(jobs) : jobs'[k] = jobs[k]
           /\ \A k \in 1..Len(jobs') : ~(k <= Len(jobs)) =>
                 \E content \in fetched : jobs'[k] = NewJob(content)
<1>1. PICK order \in SetToSeqs(fetched) :
          jobs' = jobs \o [k \in DOMAIN order |-> NewJob(order[k])]
  BY DEF Commit
<1> DEFINE new == [k \in DOMAIN order |-> NewJob(order[k])]
           n == Cardinality(fetched)
<1>2. n \in Nat /\ order \in [1..n -> fetched]
  BY <1>1, FS_CardinalityType DEF SetToSeqs
<1>3. \A content \in Content : NewJob(content) \in Job
  BY DEF NewJob, Content, Job, OffchainAssumption
<1>4. new \in Seq(Job) /\ Len(new) = n /\ \A k \in 1..n : new[k] = NewJob(order[k])
  BY <1>2, <1>3
<1> HIDE DEF new
<1>5. /\ jobs \o new \in Seq(Job) /\ Len(jobs \o new) = Len(jobs) + Len(new)
      /\ \A k \in 1..(Len(jobs) + Len(new)) :
            (jobs \o new)[k] = IF k <= Len(jobs) THEN jobs[k] ELSE new[k - Len(jobs)]
  BY <1>4, ConcatProperties
<1>6. jobs' = jobs \o new
  BY <1>1 DEF new
<1>7. ASSUME NEW k \in 1..Len(jobs'), ~(k <= Len(jobs))
      PROVE  \E content \in fetched : jobs'[k] = NewJob(content)
  <2>1. k - Len(jobs) \in 1..n
    BY <1>2, <1>4, <1>5, <1>6, <1>7
  <2> QED
    BY <1>2, <1>4, <1>5, <1>6, <1>7, <2>1
<1> QED
  BY <1>2, <1>4, <1>5, <1>6, <1>7

LEMMA JobRestated ==
    ASSUME NEW job \in Job, NEW state \in {"ready", "active", "orphan", "waiting"}
    PROVE  LET restated == [job EXCEPT !.state = state]
           IN  restated \in Job /\ restated.state = state /\ restated.item = job.item
               /\ restated.rev = job.rev
BY DEF Job

\* A job restated in its place.
LEMMA Restated ==
    ASSUME jobs \in Seq(Job), NEW k \in DOMAIN jobs, NEW job \in Job,
           jobs' = [jobs EXCEPT ![k] = job]
    PROVE  /\ jobs' \in Seq(Job) /\ DOMAIN jobs' = DOMAIN jobs
           /\ \A j \in DOMAIN jobs : jobs'[j] = IF j = k THEN job ELSE jobs[j]
BY ExceptSeq

\* A job taken out of the queue: those that stay keep their order.
LEMMA Removed ==
    ASSUME jobs \in Seq(Job), NEW k \in DOMAIN jobs, jobs' = RemoveAt(jobs, k)
    PROVE  /\ jobs' \in Seq(Job)
           /\ \A j \in DOMAIN jobs' :
                 \/ j \in DOMAIN jobs /\ j < k /\ jobs'[j] = jobs[j]
                 \/ j + 1 \in DOMAIN jobs /\ k < j + 1 /\ jobs'[j] = jobs[j + 1]
           /\ \A j \in DOMAIN jobs : j # k => \E i \in DOMAIN jobs' : jobs'[i] = jobs[j]
<1>1. Len(jobs) \in Nat /\ k \in 1..Len(jobs) /\ DOMAIN jobs = 1..Len(jobs)
  OBVIOUS
<1>2. /\ jobs' \in Seq(Job) /\ DOMAIN jobs' = 1..(Len(jobs) - 1)
      /\ \A j \in 1..(Len(jobs) - 1) : jobs'[j] = jobs[IF j < k THEN j ELSE j + 1]
  <2>1. /\ jobs' \in Seq(Job) /\ Len(jobs') = Len(jobs) - 1
        /\ \A j \in 1..(Len(jobs) - 1) : jobs'[j] = jobs[IF j < k THEN j ELSE j + 1]
    BY <1>1, RemoveAtCloses
  <2> QED
    BY <2>1
<1>3. ASSUME NEW j \in DOMAIN jobs'
      PROVE  \/ j \in DOMAIN jobs /\ j < k /\ jobs'[j] = jobs[j]
             \/ j + 1 \in DOMAIN jobs /\ k < j + 1 /\ jobs'[j] = jobs[j + 1]
  BY <1>1, <1>2
<1>4. ASSUME NEW j \in DOMAIN jobs, j # k
      PROVE  \E i \in DOMAIN jobs' : jobs'[i] = jobs[j]
  <2>1. CASE j < k
    <3>1. j \in 1..(Len(jobs) - 1)
      BY <1>1, <2>1
    <3> QED
      BY <1>2, <2>1, <3>1
  <2>2. CASE k < j
    <3>1. j - 1 \in 1..(Len(jobs) - 1) /\ ~(j - 1 < k) /\ (j - 1) + 1 = j
      BY <1>1, <2>2
    <3>2. jobs'[j - 1] = jobs[(j - 1) + 1]
      BY <1>2, <3>1
    <3> QED
      BY <1>2, <3>1, <3>2
  <2> QED
    BY <1>1, <1>4, <2>1, <2>2
<1> QED
  BY <1>2, <1>3, <1>4

\* GiveBack leaves the job neither active nor, if it was, any other active.
LEMMA GivenBack ==
    ASSUME jobs \in Seq(Job), OneActive, dead \subseteq Content, OffchainAssumption,
           NEW k \in DOMAIN jobs, GiveBack(k)
    PROVE  /\ jobs' \in Seq(Job) /\ OneActive' /\ dead' \subseteq Content
           /\ \A j \in DOMAIN jobs' : IsActive(j)' =>
                 \E i \in DOMAIN jobs : i # k /\ jobs'[j] = jobs[i]
           /\ \A i \in DOMAIN jobs : i # k => \E j \in DOMAIN jobs' : jobs'[j] = jobs[i]
<1>1. jobs[k] \in Job
  OBVIOUS
<1>2. CASE jobs[k].tries < RetryLimit
  <2> DEFINE job == [jobs[k] EXCEPT !.tries = @ + 1, !.state = "waiting"]
  <2>1. job \in Job /\ job.state = "waiting"
    <3>1. jobs[k].tries + 1 \in 0..RetryLimit
      BY <1>1, <1>2 DEF Job, OffchainAssumption
    <3> QED
      BY <1>1, <3>1 DEF Job
  <2>2. jobs' = [jobs EXCEPT ![k] = job] /\ dead' = dead
    BY <1>2 DEF GiveBack
  <2> HIDE DEF job
  <2>3. /\ jobs' \in Seq(Job) /\ DOMAIN jobs' = DOMAIN jobs
        /\ \A j \in DOMAIN jobs : jobs'[j] = IF j = k THEN job ELSE jobs[j]
    BY <2>1, <2>2, Restated
  <2> QED
    BY <2>1, <2>2, <2>3 DEF OneActive, IsActive
<1>3. CASE ~(jobs[k].tries < RetryLimit)
  <2>1. jobs' = RemoveAt(jobs, k) /\ dead' = dead \cup {<<jobs[k].item, jobs[k].rev>>}
    BY <1>3 DEF GiveBack
  <2>2. dead' \subseteq Content
    BY <1>1, <2>1 DEF Job, Content
  <2>3. /\ jobs' \in Seq(Job)
        /\ \A j \in DOMAIN jobs' :
              \/ j \in DOMAIN jobs /\ j < k /\ jobs'[j] = jobs[j]
              \/ j + 1 \in DOMAIN jobs /\ k < j + 1 /\ jobs'[j] = jobs[j + 1]
        /\ \A j \in DOMAIN jobs : j # k => \E i \in DOMAIN jobs' : jobs'[i] = jobs[j]
    BY <2>1, Removed
  <2>4. k \in Nat /\ \A j \in DOMAIN jobs' : j \in Nat
    BY <2>3
  <2>5. OneActive'
    <3> SUFFICES ASSUME NEW i \in DOMAIN jobs', NEW j \in DOMAIN jobs',
                        jobs'[i].state = "active", jobs'[j].state = "active"
                 PROVE  i = j
      BY DEF OneActive, IsActive
    <3>1. PICK a \in DOMAIN jobs :
             /\ jobs'[i] = jobs[a]
             /\ \/ a = i /\ i < k
                \/ a = i + 1 /\ k < i + 1
      BY <2>3
    <3>2. PICK b \in DOMAIN jobs :
             /\ jobs'[j] = jobs[b]
             /\ \/ b = j /\ j < k
                \/ b = j + 1 /\ k < j + 1
      BY <2>3
    <3>3. a = b
      BY <3>1, <3>2 DEF OneActive, IsActive
    <3> QED
      BY <2>4, <3>1, <3>2, <3>3
  <2>6. \A j \in DOMAIN jobs' : \E i \in DOMAIN jobs : i # k /\ jobs'[j] = jobs[i]
    BY <2>3, <2>4
  <2> QED
    BY <2>2, <2>3, <2>5, <2>6
<1> QED
  BY <1>2, <1>3

-----------------------------------------------------------------------------
(* Types. *)

LEMMA ShapeInit == OffchainAssumption /\ Init => Shape
<1> SUFFICES ASSUME OffchainAssumption, Init PROVE Shape
  OBVIOUS
<1>1. NoRow \in Row
  BY DEF NoRow, Row
<1>2. rows \in [Items -> Row] /\ jobs \in Seq(Job) /\ \A k \in DOMAIN jobs : FALSE
  BY <1>1 DEF Init, ArchiveInit
<1>3. (pc = "idle") = (\A k \in DOMAIN jobs : jobs[k].state # "active")
  BY <1>2 DEF Init, ArchiveInit
<1>4. /\ published \in [Items -> Nat] /\ \A i \in Items : published[i] <= Edits[i]
      /\ projected \in [Items -> Revision \cup {0}]
  BY DEF Init, ArchiveInit, OffchainAssumption, Revision
<1>5. /\ cursor \subseteq Items /\ mem \subseteq Items /\ fetched \subseteq Content
      /\ pc \in {"idle", "write", "row", "ack", "reject"} /\ found \in Nat
      /\ ch \subseteq Archived
      /\ dead \subseteq Content /\ dlq \subseteq Content /\ gone \subseteq Content
      /\ resends \in 0..MaxResends /\ faults \in 0..MaxFaults
  BY DEF Init, ArchiveInit, OffchainAssumption
<1>6. TypeOK
  BY <1>2, <1>3, <1>4, <1>5 DEF TypeOK
<1> QED
  BY <1>2, <1>4, <1>6, FS_EmptySet
     DEF Shape, DerivationTypeOK, OneActive, PublishedFirst, Init, ArchiveInit

\* What the steps that leave the worker where it is do to the types.
LEMMA KeptTypes ==
    ASSUME Shape, Keeps, pc' = pc, found' = found, rows' \in [Items -> Row],
           ch' = ch, published' = published, resends' = resends,
           cursor' \subseteq Items, mem' \subseteq Items,
           fetched' \subseteq fetched, faults' \in 0..MaxFaults,
           dead' \subseteq Content, dlq' \subseteq Content, gone' \subseteq Content
    PROVE  TypeOK' /\ IsFiniteSet(fetched') /\ OneActive'
<1>1. IsFiniteSet(fetched')
  BY FS_Subset DEF Shape
<1>2. (pc' = "idle") = (\A k \in DOMAIN jobs' : jobs'[k].state # "active")
  <2>1. (pc = "idle") <=> (\A k \in DOMAIN jobs : ~IsActive(k))
    BY DEF IsActive, Shape, DerivationTypeOK, TypeOK
  <2>2. (\A k \in DOMAIN jobs : ~IsActive(k)) <=> (\A k \in DOMAIN jobs' : ~IsActive(k)')
    BY DEF Keeps, IsActive
  <2> QED
    BY <2>1, <2>2 DEF IsActive
<1> QED
  BY <1>1, <1>2 DEF Keeps, Shape, DerivationTypeOK, TypeOK

LEMMA SameJobsKeep == Shape /\ jobs' = jobs => Keeps
BY DEF Keeps, Shape, DerivationTypeOK, TypeOK, OneActive, IsActive

LEMMA FaultIsBounded ==
    ASSUME OffchainAssumption, Shape, Fault
    PROVE  faults' \in 0..MaxFaults /\ faults' # 0
BY DEF OffchainAssumption, Shape, DerivationTypeOK, TypeOK, Fault

LEMMA CommitKeeps ==
    ASSUME OffchainAssumption, Shape, Commit
    PROVE  Keeps /\ cursor' \subseteq Items /\ NextCursor \subseteq Items
<1>1. /\ jobs \in Seq(Job) /\ fetched \subseteq Content /\ IsFiniteSet(fetched)
      /\ mem \subseteq Items
  BY DEF Shape, DerivationTypeOK, TypeOK
<1>2. /\ jobs' \in Seq(Job) /\ Len(jobs) <= Len(jobs')
      /\ \A k \in 1..Len(jobs) : jobs'[k] = jobs[k]
      /\ \A k \in 1..Len(jobs') : ~(k <= Len(jobs)) =>
            \E content \in fetched : jobs'[k] = NewJob(content)
  BY <1>1, CommitAppends
<1>3. ASSUME NEW k \in DOMAIN jobs', IsActive(k)'
      PROVE  k \in DOMAIN jobs /\ jobs'[k] = jobs[k]
  <2>1. k \in 1..Len(jobs') /\ Len(jobs) \in Nat
    BY <1>1, <1>2
  <2>2. k <= Len(jobs)
    <3>1. \A content : NewJob(content).state # "active"
      BY DEF NewJob
    <3>2. jobs'[k].state = "active"
      BY <1>3 DEF IsActive
    <3> QED
      BY <1>2, <2>1, <3>1, <3>2
  <2> QED
    BY <1>1, <1>2, <2>1, <2>2
<1>4. \A k \in DOMAIN jobs : k \in DOMAIN jobs' /\ jobs'[k] = jobs[k]
  BY <1>1, <1>2
<1>5. NextCursor \subseteq Items /\ cursor' = NextCursor
  BY <1>1 DEF Commit, NextCursor, Content
<1> QED
  BY <1>2, <1>3, <1>4, <1>5 DEF Keeps, Shape, OneActive, IsActive

LEMMA BackoffKeeps == ASSUME Shape, BackoffElapses PROVE Keeps
<1>1. jobs \in Seq(Job)
  BY DEF Shape, DerivationTypeOK, TypeOK
<1>2. PICK k \in DOMAIN jobs :
         jobs[k].state = "waiting" /\ jobs' = [jobs EXCEPT ![k].state = "ready"]
  BY DEF BackoffElapses
<1> DEFINE job == [jobs[k] EXCEPT !.state = "ready"]
<1>3. job \in Job /\ job.state = "ready" /\ jobs' = [jobs EXCEPT ![k] = job]
  <2>1. jobs[k] \in Job
    BY <1>1
  <2>2. job \in Job /\ job.state = "ready"
    BY <2>1, JobRestated
  <2> QED
    BY <1>2, <2>2
<1> HIDE DEF job
<1>4. /\ jobs' \in Seq(Job) /\ DOMAIN jobs' = DOMAIN jobs
      /\ \A j \in DOMAIN jobs : jobs'[j] = IF j = k THEN job ELSE jobs[j]
  BY <1>1, <1>3, Restated
<1> QED
  BY <1>2, <1>3, <1>4 DEF Keeps, Shape, OneActive, IsActive

LEMMA ExpireKeeps ==
    ASSUME OffchainAssumption, Shape, Expire
    PROVE  Keeps /\ dead' \subseteq Content
<1>1. PICK k \in DOMAIN jobs : jobs[k].state = "orphan" /\ GiveBack(k)
  BY DEF Expire
<1>2. jobs \in Seq(Job) /\ OneActive /\ dead \subseteq Content
  BY DEF Shape, DerivationTypeOK, TypeOK
<1>3. /\ jobs' \in Seq(Job) /\ OneActive' /\ dead' \subseteq Content
      /\ \A j \in DOMAIN jobs' : IsActive(j)' =>
            \E i \in DOMAIN jobs : i # k /\ jobs'[j] = jobs[i]
      /\ \A i \in DOMAIN jobs : i # k => \E j \in DOMAIN jobs' : jobs'[j] = jobs[i]
  BY <1>1, <1>2, GivenBack
<1> QED
  BY <1>1, <1>3 DEF Keeps, IsActive

\* The worker is idle after a step that ends its job.
LEMMA EndTypes ==
    ASSUME Shape, jobs' \in Seq(Job), OneActive', \A k \in DOMAIN jobs' : ~IsActive(k)',
           pc' = "idle", found' = 0, faults' \in 0..MaxFaults, dead' \subseteq Content,
           cursor' = cursor, mem' \subseteq Items, fetched' \subseteq fetched,
           UNCHANGED <<published, resends, rows, ch, dlq, gone>>
    PROVE  TypeOK' /\ IsFiniteSet(fetched') /\ OneActive'
<1>1. IsFiniteSet(fetched')
  BY FS_Subset DEF Shape
<1> QED
  BY <1>1 DEF IsActive, Shape, DerivationTypeOK, TypeOK

LEMMA ReleaseEnds ==
    ASSUME OffchainAssumption, Shape, pc # "idle", GiveBack(First("active"))
    PROVE  /\ jobs' \in Seq(Job) /\ OneActive' /\ dead' \subseteq Content
           /\ \A k \in DOMAIN jobs' : ~IsActive(k)'
<1>1. /\ First("active") \in DOMAIN jobs
      /\ \A k \in DOMAIN jobs : IsActive(k) => k = First("active")
  BY ActiveIsActive
<1>2. jobs \in Seq(Job) /\ OneActive /\ dead \subseteq Content
  BY DEF Shape, DerivationTypeOK, TypeOK
<1>3. /\ jobs' \in Seq(Job) /\ OneActive' /\ dead' \subseteq Content
      /\ \A j \in DOMAIN jobs' : IsActive(j)' =>
            \E i \in DOMAIN jobs : i # First("active") /\ jobs'[j] = jobs[i]
  BY <1>1, <1>2, GivenBack
<1> QED
  BY <1>1, <1>3 DEF IsActive

LEMMA AckEnds ==
    ASSUME Shape, Ack
    PROVE  jobs' \in Seq(Job) /\ OneActive' /\ \A k \in DOMAIN jobs' : ~IsActive(k)'
<1>1. /\ First("active") \in DOMAIN jobs /\ jobs' = RemoveAt(jobs, First("active"))
      /\ \A k \in DOMAIN jobs : IsActive(k) => k = First("active")
  BY ActiveIsActive DEF Ack
<1>2. jobs \in Seq(Job) /\ First("active") \in Nat
  BY <1>1 DEF Shape, DerivationTypeOK, TypeOK
<1>3. /\ jobs' \in Seq(Job)
      /\ \A j \in DOMAIN jobs' :
            \/ j \in DOMAIN jobs /\ j < First("active") /\ jobs'[j] = jobs[j]
            \/ j + 1 \in DOMAIN jobs /\ First("active") < j + 1 /\ jobs'[j] = jobs[j + 1]
  BY <1>1, <1>2, Removed
<1>4. \A j \in DOMAIN jobs' : \E i \in DOMAIN jobs : i # First("active") /\ jobs'[j] = jobs[i]
  BY <1>2, <1>3
<1> QED
  BY <1>1, <1>3, <1>4 DEF IsActive, OneActive

LEMMA RestartEnds ==
    ASSUME Shape, Restart
    PROVE  jobs' \in Seq(Job) /\ OneActive' /\ \A k \in DOMAIN jobs' : ~IsActive(k)'
<1>1. jobs \in Seq(Job)
  BY DEF Shape, DerivationTypeOK, TypeOK
<1> DEFINE orphan(k) == IF jobs[k].state = "active" THEN [jobs[k] EXCEPT !.state = "orphan"]
                        ELSE jobs[k]
<1>2. ASSUME NEW k \in DOMAIN jobs
      PROVE  orphan(k) \in Job /\ orphan(k).state # "active"
  <2>1. jobs[k] \in Job
    BY <1>1
  <2> QED
    BY <2>1, JobRestated
<1>3. jobs' = [k \in DOMAIN jobs |-> orphan(k)]
  BY DEF Restart
<1> HIDE DEF orphan
<1>4. /\ DOMAIN jobs' = 1..Len(jobs) /\ Len(jobs) \in Nat
      /\ \A k \in DOMAIN jobs' : jobs'[k] \in Job /\ jobs'[k].state # "active"
  BY <1>1, <1>2, <1>3
<1>5. jobs' \in Seq(Job)
  BY <1>3, <1>4
<1> QED
  BY <1>4, <1>5 DEF IsActive, OneActive

LEMMA PollTypes ==
    ASSUME OffchainAssumption, Shape, Publish \/ Poll \/ CommitFails
    PROVE  TypeOK' /\ IsFiniteSet(fetched') /\ OneActive'
<1> USE DEF Shape, DerivationTypeOK, pollVars, workVars, dlqVars
<1>1. CASE Publish
  <2>1. PICK i \in Items :
           published[i] < Edits[i] /\ published' = [published EXCEPT ![i] = @ + 1]
    BY <1>1 DEF Publish
  <2>2. Edits \in [Items -> Nat] /\ published \in [Items -> Nat]
    BY DEF OffchainAssumption, TypeOK
  <2>3. published' \in [Items -> Nat] /\ \A j \in Items : published'[j] <= Edits[j]
    <3>1. published[i] + 1 <= Edits[i] /\ published[i] + 1 \in Nat
      BY <2>1, <2>2
    <3> QED
      BY <2>1, <2>2, <3>1 DEF TypeOK
  <2>4. UNCHANGED <<pollVars, jobs, workVars, rows, ch, dlqVars, faults>>
    BY <1>1 DEF Publish
  <2> QED
    BY <2>3, <2>4 DEF TypeOK, OneActive, IsActive
<1>2. CASE FetchTick
  <2>1. PICK page \in SUBSET {i \in Items \ mem : published[i] > 0}, again \in SUBSET mem :
           /\ resends + Cardinality(again) <= MaxResends
           /\ resends' = resends + Cardinality(again)
           /\ fetched' = {<<i, published[i]>> : i \in page \cup again}
    BY <1>2 DEF FetchTick
  <2>2. /\ mem \subseteq Items /\ published \in [Items -> Nat] /\ resends \in 0..MaxResends
        /\ IsFiniteSet(Items) /\ MaxResends \in Nat
    BY DEF OffchainAssumption, TypeOK
  <2>3. IsFiniteSet(page \cup again) /\ IsFiniteSet(again)
    BY <2>2, FS_Subset
  <2>4. IsFiniteSet(fetched')
    <3> DEFINE show == [i \in page \cup again |-> <<i, published[i]>>]
    <3>1. show \in Surjection(page \cup again, fetched')
      BY <2>1 DEF Surjection
    <3> QED
      BY <2>3, <3>1, FS_Surjection
  <2>5. fetched' \subseteq Content
    <3>1. \A i \in page \cup again : published[i] \in Nat \ {0}
      BY <2>2 DEF PublishedFirst
    <3> QED
      BY <2>1, <2>2, <3>1 DEF Content, Revision
  <2>6. resends' \in 0..MaxResends
    BY <2>1, <2>2, <2>3, FS_CardinalityType
  <2>7. UNCHANGED <<published, cursor, mem, jobs, workVars, rows, ch, dlqVars, faults>>
    BY <1>2 DEF FetchTick
  <2> QED
    BY <2>4, <2>5, <2>6, <2>7 DEF TypeOK, OneActive, IsActive
<1>3. CASE CommitTick
  BY <1>3, CommitKeeps, KeptTypes DEF CommitTick, TypeOK
<1>4. CASE CommitFails
  <2>1. Keeps /\ cursor' \subseteq Items
    BY <1>4, CommitKeeps, SameJobsKeep DEF CommitFails, TypeOK
  <2> QED
    BY <1>4, <2>1, KeptTypes, FaultIsBounded DEF CommitFails, TypeOK
<1> QED
  BY <1>1, <1>2, <1>3, <1>4 DEF Poll

LEMMA ServeTypes ==
    ASSUME OffchainAssumption, Shape, Serve \/ BridgeGivesUp
    PROVE  TypeOK' /\ IsFiniteSet(fetched') /\ OneActive'
<1> USE DEF Shape, DerivationTypeOK, pollVars, workVars, dlqVars
<1>1. CASE BackoffElapses
  BY <1>1, BackoffKeeps, KeptTypes DEF BackoffElapses, TypeOK
<1>2. CASE Expire
  BY <1>2, ExpireKeeps, KeptTypes DEF Expire, TypeOK
<1>3. CASE Bridge
  BY <1>3, SameJobsKeep, KeptTypes DEF Bridge, TypeOK
<1>4. CASE BridgeGivesUp
  BY <1>4, SameJobsKeep, KeptTypes, FaultIsBounded DEF BridgeGivesUp, TypeOK
<1> QED
  BY <1>1, <1>2, <1>3, <1>4 DEF Serve

LEMMA NextVersionIsPositive == Shape => NextVersion \in Nat \ {0}
<1>1. Shape => found \in Nat
  BY DEF Shape, DerivationTypeOK, TypeOK
<1>2. ASSUME NEW n \in Nat PROVE n + 1 \in Nat \ {0}
  OBVIOUS
<1> QED
  BY <1>1, <1>2 DEF NextVersion

LEMMA WorkTypes ==
    ASSUME OffchainAssumption, Shape, Work \/ HandlerFails
    PROVE  TypeOK' /\ IsFiniteSet(fetched') /\ OneActive'
<1> USE DEF Shape, DerivationTypeOK, pollVars, workVars, dlqVars
<1>1. CASE Take
  <2>1. /\ \E k \in DOMAIN jobs : jobs[k].state = "ready"
        /\ \A k \in DOMAIN jobs : ~IsActive(k)
        /\ jobs \in Seq(Job)
    BY <1>1 DEF Take, Unchanged, TypeOK, IsActive
  <2>2. PICK k \in DOMAIN jobs : k = First("ready")
    BY <2>1, FirstIsFirst
  <2> DEFINE job == [jobs[k] EXCEPT !.state = "active"]
  <2>3. jobs[k] \in Job /\ jobs' = [jobs EXCEPT ![k] = job]
    BY <1>1, <2>1, <2>2 DEF Take, Unchanged
  <2>4. job \in Job /\ job.state = "active" /\ jobs[k].item \in Items
    BY <2>3, JobRestated DEF Job
  <2>5. /\ jobs' \in Seq(Job) /\ DOMAIN jobs' = DOMAIN jobs
        /\ \A j \in DOMAIN jobs : jobs'[j] = IF j = k THEN job ELSE jobs[j]
    <3> HIDE DEF job
    <3> QED
      BY <2>1, <2>2, <2>3, <2>4, Restated
  <2>6. OneActive' /\ k \in DOMAIN jobs' /\ jobs'[k].state = "active"
    <3> HIDE DEF job
    <3> QED
      BY <2>1, <2>4, <2>5 DEF OneActive, IsActive
  <2>7. found' \in Nat /\ pc' \in {"write", "ack", "reject"}
    <3>1. rows[jobs[k].item].ver \in Nat
      BY <2>4 DEF TypeOK, Row
    <3> QED
      BY <1>1, <2>2, <3>1 DEF Take, Unchanged
  <2>8. (pc' = "idle") = (\A j \in DOMAIN jobs' : jobs'[j].state # "active")
    BY <2>6, <2>7
  <2>9. UNCHANGED <<published, pollVars, rows, ch, dlqVars, faults>>
    BY <1>1 DEF Take, Unchanged
  <2> QED
    BY <2>5, <2>6, <2>7, <2>8, <2>9 DEF TypeOK
<1>2. CASE Reject
  <2>1. <<Active.item, Active.rev>> \in Content
    BY <1>2, ActiveIsActive DEF Reject, Job, Content
  <2> QED
    BY <1>2, <2>1 DEF Reject, TypeOK, OneActive, IsActive
<1>3. CASE WriteArchive
  <2>1. [item |-> Active.item, ver |-> NextVersion, rev |-> Active.rev] \in Archived
    <3>1. Active \in Job /\ NextVersion \in Nat \ {0}
      BY <1>3, ActiveIsActive, NextVersionIsPositive DEF WriteArchive
    <3> QED
      BY <3>1 DEF Job, Archived
  <2> QED
    BY <1>3, <2>1 DEF WriteArchive, TypeOK, OneActive, IsActive
<1>4. CASE WriteRow
  <2>1. [NoRow EXCEPT !.rev = Active.rev, !.ver = NextVersion] \in Row
    <3>1. Active \in Job /\ NextVersion \in Nat
      BY <1>4, ActiveIsActive, NextVersionIsPositive DEF WriteRow
    <3> QED
      BY <3>1 DEF Job, Row, NoRow
  <2>2. rows' \in [Items -> Row]
    BY <1>4, <2>1 DEF WriteRow, TypeOK
  <2> QED
    BY <1>4, <2>2 DEF WriteRow, TypeOK, OneActive, IsActive
<1>5. CASE Ack
  <2>1. faults' \in 0..MaxFaults /\ fetched' = fetched
    BY <1>5 DEF Ack, TypeOK
  <2> QED
    BY <1>5, <2>1, AckEnds, EndTypes DEF Ack, TypeOK
<1>6. CASE HandlerFails
  BY <1>6, ReleaseEnds, EndTypes, FaultIsBounded DEF HandlerFails, TypeOK
<1> QED
  BY <1>1, <1>2, <1>3, <1>4, <1>5, <1>6 DEF Work

LEMMA RowMarked ==
    ASSUME NEW row \in Row
    PROVE  [row EXCEPT !.resolved = TRUE] \in Row /\ [row EXCEPT !.derived = TRUE] \in Row
BY DEF Row

\* What the sweep and the deriver do to the types of the rows.
LEMMA MarkedTypes ==
    ASSUME Shape, MarksRows, rows' \in [Items -> Row], faults' \in 0..MaxFaults
    PROVE  TypeOK' /\ IsFiniteSet(fetched') /\ OneActive'
BY SameJobsKeep, KeptTypes DEF MarksRows, pollVars, workVars, dlqVars, Shape, DerivationTypeOK, TypeOK

LEMMA FailedRows ==
    ASSUME Shape, NEW failed, NEW before, HandleFailure(failed, before)
    PROVE  /\ rows' \in [Items -> Row]
           /\ \A i \in Items : /\ rows'[i].ver = rows[i].ver /\ rows'[i].rev = rows[i].rev
                              /\ rows'[i].derived = rows[i].derived
           /\ failed \subseteq Items => parked' \subseteq Items
<1> DEFINE row(i) == [rows[i] EXCEPT !.attempts = @ + One(i \in failed) + One(i \in before)]
<1>1. ASSUME NEW i \in Items
      PROVE  /\ row(i) \in Row /\ row(i).ver = rows[i].ver /\ row(i).rev = rows[i].rev
             /\ row(i).derived = rows[i].derived
  <2>1. rows[i] \in Row
    BY DEF Shape, DerivationTypeOK, TypeOK
  <2>2. One(i \in failed) \in Nat /\ One(i \in before) \in Nat
    BY DEF One
  <2>3. rows[i].attempts + One(i \in failed) + One(i \in before) \in Nat
    BY <2>1, <2>2 DEF Row
  <2> QED
    BY <2>1, <2>3 DEF Row
<1>2. rows' = [i \in Items |-> row(i)]
  BY DEF HandleFailure
<1>3. failed \subseteq Items => parked' \subseteq Items
  BY DEF HandleFailure, Shape, DerivationTypeOK
<1> HIDE DEF row
<1> QED
  BY <1>1, <1>2, <1>3

\* What a restart does.
LEMMA RestartTypes ==
    ASSUME OffchainAssumption, Shape, Restart
    PROVE  TypeOK' /\ IsFiniteSet(fetched') /\ OneActive'
<1>1. faults' \in 0..MaxFaults /\ mem' = cursor /\ fetched' = {} /\ cursor \subseteq Items
  BY FaultIsBounded DEF Restart, Shape, DerivationTypeOK, TypeOK
<1> QED
  BY <1>1, RestartEnds, EndTypes DEF Restart, dlqVars, Shape, DerivationTypeOK, TypeOK

LEMMA PublishedFirstStep ==
    ASSUME OffchainAssumption, Shape, [Next]_vars
    PROVE  PublishedFirst'
<1> USE DEF Shape, PublishedFirst
<1>1. /\ published \in [Items -> Nat] /\ fetched \subseteq Content
      /\ mem \subseteq Items /\ cursor \subseteq Items
  BY DEF DerivationTypeOK, TypeOK
<1>2. CASE Publish
  <2>1. \A i \in Items : published[i] \in Nat /\ published'[i] \in {published[i], published[i] + 1}
    BY <1>1, <1>2 DEF Publish
  <2>2. \A content \in fetched : content[1] \in Items /\ content[2] \in Nat
    BY <1>1 DEF Content, Revision
  <2> QED
    BY <1>1, <1>2, <2>1, <2>2 DEF Publish, pollVars
<1>3. CASE FetchTick
  BY <1>1, <1>3 DEF FetchTick
<1>4. \A i \in NextCursor : published[i] > 0
  <2>1. \A content \in fetched : /\ content[1] \in Items /\ content[2] \in Nat \ {0}
                               /\ published[content[1]] \in Nat
                               /\ content[2] <= published[content[1]]
    BY <1>1 DEF Content, Revision
  <2>2. \A content \in fetched : published[content[1]] > 0
    BY <2>1
  <2> QED
    BY <2>2 DEF NextCursor
<1>5. CASE CommitTick
  BY <1>4, <1>5 DEF CommitTick, Commit
<1>6. CASE CommitFails
  BY <1>4, <1>6 DEF CommitFails, Commit
<1>7. CASE Restart
  BY <1>7 DEF Restart
<1>8. CASE UNCHANGED <<published, cursor, mem, fetched>>
  BY <1>8
<1>9. Serve \/ BridgeGivesUp \/ Work \/ HandlerFails => UNCHANGED <<published, cursor, mem, fetched>>
  BY DEF Serve, BackoffElapses, Expire, Bridge, BridgeGivesUp, Work, Take, Reject,
         WriteArchive, WriteRow, Ack, HandlerFails, pollVars
<1>10. Sweep \/ Derive \/ DerivationFaults => UNCHANGED <<published, cursor, mem, fetched>>
  BY DEF Sweep, SweepTick, SweepRow, Derive, DeriveTick, DeriveRow, DerivationFaults,
         SweepRowFails, SweepBatchFails, DeriveRowFails, MarksRows, archiveVars, pollVars
<1>11. UNCHANGED vars => UNCHANGED <<published, cursor, mem, fetched>>
  BY DEF vars, archiveVars, pollVars
<1> QED
  BY <1>2, <1>3, <1>5, <1>6, <1>7, <1>8, <1>9, <1>10, <1>11
     DEF Next, ArchiveStep, Poll, Faults, RestartAll

LEMMA TypesStep == OffchainAssumption /\ Shape /\ [Next]_vars => Shape'
<1> SUFFICES ASSUME OffchainAssumption, Shape, [Next]_vars PROVE Shape'
  OBVIOUS
<1> DEFINE Types == TypeOK' /\ IsFiniteSet(fetched') /\ OneActive'
           Own == /\ todo' \subseteq batch' /\ batch' \subseteq Items
                  /\ parked' \subseteq Items /\ derive' \subseteq Content
                  /\ projected' \in [Items -> Revision \cup {0}]
<1>1. /\ todo \subseteq batch /\ batch \subseteq Items /\ parked \subseteq Items
      /\ derive \subseteq Content /\ projected \in [Items -> Revision \cup {0}]
      /\ rows \in [Items -> Row] /\ ch \subseteq Archived /\ faults \in 0..MaxFaults
  BY DEF Shape, DerivationTypeOK, TypeOK
<1>2. CASE ArchiveStep /\ UNCHANGED <<sweepVars, deriveVars>>
  <2>1. Types
    BY <1>2, PollTypes, ServeTypes, WorkTypes DEF ArchiveStep, Faults
  <2> QED
    BY <1>1, <1>2, <2>1, PublishedFirstStep
       DEF Shape, DerivationTypeOK, sweepVars, deriveVars
<1>3. CASE SweepTick
  <2>1. Types /\ rows' = rows
    BY <1>3 DEF SweepTick, archiveVars, pollVars, workVars, dlqVars, Shape, DerivationTypeOK,
                TypeOK, OneActive, IsActive
  <2>2. Own
    BY <1>1, <1>3 DEF SweepTick, Unresolved, deriveVars
  <2> QED
    BY <2>1, <2>2, PublishedFirstStep DEF Shape, DerivationTypeOK
<1>4. CASE SweepRow
  <2>1. PICK i \in todo : rows' = [rows EXCEPT ![i].resolved = TRUE] /\ todo' = todo \ {i}
    BY <1>4 DEF SweepRow
  <2>2. rows' \in [Items -> Row] /\ faults' = faults
    BY <1>1, <1>4, <2>1, RowMarked DEF SweepRow
  <2>3. Types
    BY <1>1, <1>4, <2>2, MarkedTypes DEF SweepRow
  <2>4. Own
    BY <1>1, <1>4 DEF SweepRow, deriveVars
  <2> QED
    BY <2>3, <2>4, PublishedFirstStep DEF Shape, DerivationTypeOK
<1>5. CASE SweepRowFails
  <2>1. PICK i \in todo : HandleFailure({i}, {}) /\ Fault /\ todo' = todo \ {i}
    BY <1>5 DEF SweepRowFails
  <2>2. rows' \in [Items -> Row] /\ parked' \subseteq Items
    BY <1>1, <2>1, FailedRows
  <2>3. Types
    BY <1>5, <2>1, <2>2, FaultIsBounded, MarkedTypes DEF SweepRowFails
  <2>4. Own
    BY <1>1, <1>5, <2>1, <2>2 DEF SweepRowFails, deriveVars
  <2> QED
    BY <2>3, <2>4, PublishedFirstStep DEF Shape, DerivationTypeOK
<1>6. CASE SweepBatchFails
  <2>1. /\ Fault /\ todo' = {} /\ MarksRows /\ UNCHANGED <<batch, deriveVars>>
        /\ \E before : HandleFailure(batch, before)
    BY <1>6 DEF SweepBatchFails
  <2>2. rows' \in [Items -> Row] /\ parked' \subseteq Items
    BY <1>1, <2>1, FailedRows
  <2>3. Types
    BY <2>1, <2>2, FaultIsBounded, MarkedTypes
  <2>4. Own
    BY <1>1, <2>1, <2>2 DEF deriveVars
  <2> QED
    BY <2>3, <2>4, PublishedFirstStep DEF Shape, DerivationTypeOK
<1>7. CASE DeriveTick
  <2>1. Types /\ rows' = rows
    BY <1>7 DEF DeriveTick, archiveVars, pollVars, workVars, dlqVars, Shape, DerivationTypeOK,
                TypeOK, OneActive, IsActive
  <2>2. derive' \subseteq Content
    <3>1. PICK read \in [Derivable -> ch] : derive' = {<<i, read[i].rev>> : i \in Derivable}
      BY <1>7 DEF DeriveTick
    <3>2. \A i \in Derivable : i \in Items /\ read[i].rev \in Revision
      BY <1>1 DEF Derivable, Archived
    <3> QED
      BY <3>1, <3>2 DEF Content
  <2> QED
    BY <1>1, <1>7, <2>1, <2>2, PublishedFirstStep
       DEF Shape, DerivationTypeOK, DeriveTick, sweepVars
<1>8. CASE DeriveRow
  <2>1. PICK content \in derive :
           /\ projected' = [projected EXCEPT ![content[1]] = content[2]]
           /\ rows' = [rows EXCEPT ![content[1]].derived = TRUE]
           /\ derive' = derive \ {content}
    BY <1>8 DEF DeriveRow
  <2>2. content[1] \in Items /\ content[2] \in Revision
    BY <1>1 DEF Content
  <2>3. rows' \in [Items -> Row] /\ faults' = faults
    BY <1>1, <1>8, <2>1, <2>2, RowMarked DEF DeriveRow
  <2>4. Types
    BY <1>1, <1>8, <2>3, MarkedTypes DEF DeriveRow
  <2>5. Own
    BY <1>1, <1>8, <2>1, <2>2 DEF DeriveRow, sweepVars
  <2> QED
    BY <2>4, <2>5, PublishedFirstStep DEF Shape, DerivationTypeOK
<1>9. CASE DeriveRowFails
  <2>1. Types
    BY <1>1, <1>9, FaultIsBounded, MarkedTypes DEF DeriveRowFails
  <2>2. Own
    BY <1>1, <1>9 DEF DeriveRowFails, sweepVars
  <2> QED
    BY <2>1, <2>2, PublishedFirstStep DEF Shape, DerivationTypeOK
<1>10. CASE RestartAll
  <2>1. Types
    BY <1>10, RestartTypes DEF RestartAll
  <2> QED
    BY <1>1, <1>10, <2>1, PublishedFirstStep DEF RestartAll, Shape, DerivationTypeOK
<1>11. CASE UNCHANGED vars
  BY <1>11, PublishedFirstStep
     DEF vars, archiveVars, pollVars, workVars, dlqVars, sweepVars, deriveVars,
         Shape, DerivationTypeOK, TypeOK, OneActive, IsActive
<1> QED
  BY <1>2, <1>3, <1>4, <1>5, <1>6, <1>7, <1>8, <1>9, <1>10, <1>11
     DEF Next, Sweep, Derive, DerivationFaults

-----------------------------------------------------------------------------
(* Rows and ClickHouse. *)

\* The version the worker has found is still the row's, since only the worker
\* moves it; between its two writes ClickHouse has what the row is to name.
Holding ==
    /\ pc \in {"write", "row"} => found = rows[Active.item].ver
    /\ pc = "row" =>
          [item |-> Active.item, ver |-> NextVersion, rev |-> Active.rev] \in ch

\* RowIsArchived, of every item.
Vouched(i) ==
    /\ rows[i].ver > 0 => [item |-> i, ver |-> rows[i].ver, rev |-> rows[i].rev] \in ch
    /\ \A c \in ch : c.item = i => c.ver <= rows[i].ver + 1

\* What a projection shows was in ClickHouse when it was read, and nothing
\* leaves it.
ShownIsArchived ==
    /\ \A content \in derive : IsArchived(content)
    /\ \A i \in Items : projected[i] # 0 => IsArchived(<<i, projected[i]>>)
    /\ \A i \in Items : rows[i].derived => projected[i] # 0

IInv == Shape /\ Holding /\ (\A i \in Items : Vouched(i)) /\ ShownIsArchived

LEMMA InitIsVouched == OffchainAssumption /\ Init => IInv
<1> SUFFICES ASSUME OffchainAssumption, Init PROVE IInv
  OBVIOUS
<1>1. \A i \in Items : rows[i].ver = 0 /\ ~rows[i].derived /\ projected[i] = 0
  BY DEF Init, ArchiveInit, NoRow
<1> QED
  BY <1>1, ShapeInit
     DEF IInv, Holding, Vouched, ShownIsArchived, Init, ArchiveInit, IsArchived

\* Steps that leave the worker, the rows and ClickHouse as they are ...
LEMMA QuietSteps ==
    ASSUME OffchainAssumption, Shape, Publish \/ Poll \/ CommitFails \/ Serve \/ BridgeGivesUp
    PROVE  Keeps /\ UNCHANGED <<pc, found, rows, ch>>
<1>1. UNCHANGED <<pc, found, rows, ch>>
  BY DEF Publish, Poll, FetchTick, CommitTick, CommitFails, Serve, BackoffElapses, Expire,
         Bridge, BridgeGivesUp, workVars
<1>2. Keeps
  BY SameJobsKeep, CommitKeeps, BackoffKeeps, ExpireKeeps
     DEF Publish, Poll, FetchTick, CommitTick, CommitFails, Serve, Bridge, BridgeGivesUp
<1> QED
  BY <1>1, <1>2

\* ... and those that mark rows and nothing else of the archive.
Marks ==
    /\ UNCHANGED <<jobs, pc, found, ch, published, fetched>>
    /\ \A i \in Items : rows'[i].ver = rows[i].ver /\ rows'[i].rev = rows[i].rev

LEMMA MarkSteps ==
    ASSUME Shape, Sweep \/ Derive \/ DerivationFaults
    PROVE  Marks
<1> USE DEF Marks
<1>1. /\ todo \subseteq Items /\ derive \subseteq Content /\ rows \in [Items -> Row]
  BY DEF Shape, DerivationTypeOK, TypeOK
<1>2. UNCHANGED <<jobs, pc, found, ch, published, fetched>>
  BY DEF Sweep, SweepTick, SweepRow, Derive, DeriveTick, DeriveRow, DerivationFaults,
         SweepRowFails, SweepBatchFails, DeriveRowFails, MarksRows, archiveVars,
         pollVars, workVars
<1>3. CASE SweepRowFails \/ SweepBatchFails
  <2>1. \E failed, before : HandleFailure(failed, before)
    BY <1>3 DEF SweepRowFails, SweepBatchFails
  <2> QED
    BY <1>2, <2>1, FailedRows
<1>4. CASE SweepRow
  BY <1>1, <1>2, <1>4 DEF SweepRow, Row
<1>5. CASE DeriveRow
  <2>1. PICK content \in derive : rows' = [rows EXCEPT ![content[1]].derived = TRUE]
    BY <1>5 DEF DeriveRow
  <2> QED
    BY <1>1, <1>2, <2>1 DEF Row
<1>6. CASE rows' = rows
  BY <1>2, <1>6
<1> QED
  BY <1>3, <1>4, <1>5, <1>6
     DEF Sweep, SweepTick, Derive, DeriveTick, DerivationFaults, DeriveRowFails, archiveVars

LEMMA HoldingStep ==
    ASSUME OffchainAssumption, Shape, Holding, [Next]_vars
    PROVE  Holding'
<1>1. CASE Publish \/ Poll \/ CommitFails \/ Serve \/ BridgeGivesUp
  BY <1>1, QuietSteps, KeptIsActive DEF Holding, NextVersion
<1>2. CASE Take
  <2>1. /\ \E k \in DOMAIN jobs : jobs[k].state = "ready"
        /\ \A k \in DOMAIN jobs : ~IsActive(k)
        /\ jobs \in Seq(Job)
    BY <1>2 DEF Take, Unchanged, Shape, DerivationTypeOK, TypeOK, IsActive
  <2>2. PICK k \in DOMAIN jobs : k = First("ready")
    BY <2>1, FirstIsFirst
  <2> DEFINE job == [jobs[k] EXCEPT !.state = "active"]
  <2>3. jobs[k] \in Job /\ jobs' = [jobs EXCEPT ![k] = job] /\ rows' = rows
    BY <1>2, <2>1, <2>2 DEF Take, Unchanged
  <2>4. job \in Job /\ job.state = "active" /\ job.item = jobs[k].item
    BY <2>3, JobRestated
  <2> HIDE DEF job
  <2>5. /\ jobs' \in Seq(Job) /\ DOMAIN jobs' = DOMAIN jobs
        /\ \A j \in DOMAIN jobs : jobs'[j] = IF j = k THEN job ELSE jobs[j]
    BY <2>1, <2>3, <2>4, Restated
  <2>6. Active' = job
    <3>1. k \in DOMAIN jobs' /\ jobs'[k].state = "active"
      BY <2>4, <2>5
    <3>2. First("active")' \in DOMAIN jobs' /\ jobs'[First("active")'].state = "active"
      BY <2>5, <3>1, SomeJobIsFirst DEF First
    <3> QED
      BY <2>1, <2>5, <3>2 DEF IsActive, Active
  <2>7. found' = rows[jobs[k].item].ver /\ pc' # "row"
    BY <1>2, <2>2 DEF Take, Unchanged
  <2> QED
    BY <2>3, <2>4, <2>6, <2>7 DEF Holding
<1>3. CASE WriteArchive
  <2>1. Active' = Active /\ NextVersion' = NextVersion
    BY <1>3 DEF WriteArchive, Active, First, NextVersion
  <2> QED
    BY <1>3, <2>1 DEF WriteArchive, Holding
<1>4. CASE Reject \/ WriteRow \/ Ack \/ HandlerFails \/ Restart
  BY <1>4 DEF Reject, WriteRow, Ack, HandlerFails, Restart, Holding
<1>5. CASE Sweep \/ Derive \/ DerivationFaults
  <2>1. Marks
    BY <1>5, MarkSteps
  <2>2. Active' = Active /\ NextVersion' = NextVersion
    BY <2>1 DEF Marks, Active, First, NextVersion
  <2>3. pc # "idle" => Active.item \in Items
    BY ActiveIsActive DEF Job
  <2> QED
    BY <2>1, <2>2, <2>3 DEF Marks, Holding
<1>6. CASE UNCHANGED vars
  <2>1. Active' = Active /\ NextVersion' = NextVersion
    BY <1>6 DEF vars, archiveVars, workVars, Active, First, NextVersion
  <2> QED
    BY <1>6, <2>1 DEF vars, archiveVars, workVars, Holding
<1> QED
  BY <1>1, <1>2, <1>3, <1>4, <1>5, <1>6 DEF Next, ArchiveStep, Work, Faults, RestartAll

LEMMA VouchedStep ==
    ASSUME OffchainAssumption, Shape, Holding, [Next]_vars, NEW i \in Items, Vouched(i)
    PROVE  Vouched(i)'
<1>1. /\ rows \in [Items -> Row] /\ ch \subseteq Archived /\ rows[i].ver \in Nat
      /\ \A c \in ch : c.ver \in Nat
  BY DEF Shape, DerivationTypeOK, TypeOK, Row, Archived
<1>2. CASE UNCHANGED <<rows, ch>>
  BY <1>2 DEF Vouched
<1>3. CASE Marks
  BY <1>3 DEF Marks, Vouched
<1>4. CASE WriteArchive
  <2>1. found = rows[Active.item].ver
    BY <1>4 DEF Holding, WriteArchive
  <2>2. rows' = rows /\ ch' = ch \cup {[item |-> Active.item, ver |-> found + 1, rev |-> Active.rev]}
    BY <1>4 DEF WriteArchive, NextVersion
  <2> QED
    BY <1>1, <2>1, <2>2 DEF Vouched
<1>5. CASE WriteRow
  <2>1. /\ found = rows[Active.item].ver /\ Active \in Job
        /\ [item |-> Active.item, ver |-> found + 1, rev |-> Active.rev] \in ch
    BY <1>5, ActiveIsActive DEF Holding, WriteRow, NextVersion
  <2>2. Active.item \in Items /\ found \in Nat
    BY <2>1 DEF Job, Shape, DerivationTypeOK, TypeOK
  <2> DEFINE row == [NoRow EXCEPT !.rev = Active.rev, !.ver = found + 1]
  <2>3. row.rev = Active.rev /\ row.ver = found + 1
    BY DEF NoRow
  <2>4. ch' = ch /\ (rows' = rows \/ rows' = [rows EXCEPT ![Active.item] = row])
    BY <1>5 DEF WriteRow, NextVersion
  <2> HIDE DEF row
  <2>5. CASE rows' = rows \/ i # Active.item
    BY <1>1, <2>2, <2>4, <2>5 DEF Vouched
  <2>6. CASE rows' = [rows EXCEPT ![Active.item] = row] /\ i = Active.item
    <3>1. rows'[i] = row /\ rows[i].ver = found
      BY <1>1, <2>1, <2>6
    <3>2. \A c \in ch : c.item = i => c.ver <= found + 1
      BY <3>1 DEF Vouched
    <3>3. \A c \in ch : c.item = i => c.ver <= found + 1 + 1
      BY <1>1, <2>2, <3>2
    <3> QED
      BY <2>1, <2>3, <2>4, <2>6, <3>1, <3>3 DEF Vouched
  <2> QED
    BY <2>4, <2>5, <2>6
<1>6. Publish \/ Poll \/ CommitFails \/ Serve \/ BridgeGivesUp => UNCHANGED <<rows, ch>>
  BY QuietSteps
<1>7. Take \/ Reject \/ Ack \/ HandlerFails \/ Restart => UNCHANGED <<rows, ch>>
  BY DEF Take, Reject, Ack, HandlerFails, Restart
<1>8. UNCHANGED vars => UNCHANGED <<rows, ch>>
  BY DEF vars, archiveVars
<1> QED
  BY <1>2, <1>3, <1>4, <1>5, <1>6, <1>7, <1>8, MarkSteps
     DEF Next, ArchiveStep, Work, Faults, RestartAll

LEMMA ArchiveGrows == ASSUME Shape, [Next]_vars PROVE ch \subseteq ch'
BY MarkSteps
   DEF Marks, Next, ArchiveStep, Publish, Poll, FetchTick, CommitTick, Work, Take, Reject,
       WriteArchive, WriteRow, Ack, Serve, BackoffElapses, Expire, Bridge, Faults, CommitFails,
       BridgeGivesUp, HandlerFails, RestartAll, Restart, vars, archiveVars

LEMMA ShownStep ==
    ASSUME OffchainAssumption, Shape, ShownIsArchived, [Next]_vars
    PROVE  ShownIsArchived'
<1>1. \A content : IsArchived(content) => IsArchived(content)'
  BY ArchiveGrows DEF IsArchived
<1>2. /\ rows \in [Items -> Row] /\ projected \in [Items -> Revision \cup {0}]
      /\ derive \subseteq Content /\ todo \subseteq Items
  BY DEF Shape, DerivationTypeOK, TypeOK
<1>3. CASE UNCHANGED deriveVars /\ \A i \in Items : rows'[i].derived => rows[i].derived
  BY <1>1, <1>3 DEF ShownIsArchived, deriveVars
<1>4. CASE DeriveTick
  <2>1. PICK read \in [Derivable -> ch] :
           /\ \A i \in Derivable : read[i] \in Latest(i)
           /\ derive' = {<<i, read[i].rev>> : i \in Derivable}
    BY <1>4 DEF DeriveTick
  <2>2. \A i \in Derivable : IsArchived(<<i, read[i].rev>>)
    BY <2>1 DEF Latest, IsArchived
  <2>3. \A content \in derive' : IsArchived(content)
    BY <2>1, <2>2
  <2>4. projected' = projected /\ rows' = rows
    BY <1>4 DEF DeriveTick, archiveVars
  <2> QED
    BY <1>1, <2>3, <2>4 DEF ShownIsArchived
<1>5. CASE DeriveRow
  <2>1. PICK content \in derive :
           /\ projected' = [projected EXCEPT ![content[1]] = content[2]]
           /\ rows' = [rows EXCEPT ![content[1]].derived = TRUE]
           /\ derive' = derive \ {content}
    BY <1>5 DEF DeriveRow
  <2>2. /\ content[1] \in Items /\ content[2] # 0 /\ content = <<content[1], content[2]>>
        /\ IsArchived(content)
    BY <1>2 DEF Content, Revision, ShownIsArchived
  <2>3. \A i \in Items : projected'[i] = IF i = content[1] THEN content[2] ELSE projected[i]
    BY <1>2, <2>1, <2>2
  <2>4. \A i \in Items : i # content[1] => rows'[i] = rows[i]
    BY <1>2, <2>1, <2>2
  <2> QED
    BY <1>1, <2>1, <2>2, <2>3, <2>4 DEF ShownIsArchived
<1>6. CASE DeriveRowFails
  <2>1. derive' \subseteq derive /\ projected' = projected /\ rows' = rows
    BY <1>6 DEF DeriveRowFails
  <2> QED
    BY <1>1, <2>1 DEF ShownIsArchived
<1>7. CASE RestartAll
  <2>1. derive' = {} /\ projected' = projected /\ rows' = rows
    BY <1>7 DEF RestartAll, Restart
  <2> QED
    BY <1>1, <2>1 DEF ShownIsArchived
<1>8. ASSUME ArchiveStep /\ UNCHANGED <<sweepVars, deriveVars>>
      PROVE  UNCHANGED deriveVars /\ \A i \in Items : rows'[i].derived => rows[i].derived
  <2>1. CASE WriteRow
    <3>1. /\ ~[NoRow EXCEPT !.rev = Active.rev, !.ver = NextVersion].derived
          /\ \/ rows' = rows
             \/ rows' = [rows EXCEPT ![Active.item] =
                            [NoRow EXCEPT !.rev = Active.rev, !.ver = NextVersion]]
      BY <2>1 DEF WriteRow, NoRow
    <3> QED
      BY <1>2, <1>8, <3>1
  <2>2. CASE rows' = rows
    BY <1>8, <2>2
  <2> QED
    BY <1>8, <2>1, <2>2, QuietSteps
       DEF ArchiveStep, Work, Faults, Take, Reject, WriteArchive, Ack, HandlerFails
<1>9. ASSUME SweepTick \/ SweepRow \/ SweepRowFails \/ SweepBatchFails
      PROVE  UNCHANGED deriveVars /\ \A i \in Items : rows'[i].derived => rows[i].derived
  <2>1. UNCHANGED deriveVars
    BY <1>9 DEF SweepTick, SweepRow, SweepRowFails, SweepBatchFails
  <2>2. CASE SweepRow
    BY <1>2, <2>1, <2>2 DEF SweepRow, Row
  <2>3. CASE SweepTick
    BY <2>1, <2>3 DEF SweepTick, archiveVars
  <2>4. CASE SweepRowFails \/ SweepBatchFails
    <3>1. \E failed, before : HandleFailure(failed, before)
      BY <2>4 DEF SweepRowFails, SweepBatchFails
    <3> QED
      BY <2>1, <3>1, FailedRows
  <2> QED
    BY <1>9, <2>2, <2>3, <2>4
<1>10. CASE UNCHANGED vars
  BY <1>1, <1>10 DEF vars, archiveVars, deriveVars, ShownIsArchived
<1> QED
  BY <1>3, <1>4, <1>5, <1>6, <1>7, <1>8, <1>9, <1>10 DEF Next, Sweep, Derive, DerivationFaults

LEMMA IInvStep == OffchainAssumption /\ IInv /\ [Next]_vars => IInv'
<1> SUFFICES ASSUME OffchainAssumption, IInv, [Next]_vars PROVE IInv'
  OBVIOUS
<1>1. Shape'
  BY TypesStep DEF IInv
<1>2. Holding'
  BY HoldingStep DEF IInv
<1>3. \A i \in Items : Vouched(i)'
  BY VouchedStep DEF IInv
<1>4. ShownIsArchived'
  BY ShownStep DEF IInv
<1> QED
  BY <1>1, <1>2, <1>3, <1>4 DEF IInv

LEMMA IInvImplies ==
    IInv => DerivationTypeOK /\ RowIsArchived /\ DerivedShowsArchive
BY DEF IInv, Shape, Vouched, ShownIsArchived, RowIsArchived, DerivedShowsArchive

-----------------------------------------------------------------------------
(* While no call has failed. *)

\* The queue holds the revisions of an item in the order they were published,
\* the worker holds its first job, and no row and no job is ahead of what is
\* still to come.
InOrder ==
    /\ \A k \in DOMAIN jobs :
          jobs[k].state \in {"ready", "active"} /\ (IsActive(k) => k = 1)
    /\ \A j, k \in DOMAIN jobs :
          j <= k /\ jobs[j].item = jobs[k].item => jobs[j].rev <= jobs[k].rev
    /\ \A k \in DOMAIN jobs : /\ rows[jobs[k].item].rev <= jobs[k].rev
                             /\ jobs[k].rev <= published[jobs[k].item]
    /\ \A i \in Items : rows[i].rev <= published[i]

\* What the tick has read goes behind all of it.
FetchedInOrder ==
    \A content \in fetched :
        /\ \A k \in DOMAIN jobs : jobs[k].item = content[1] => jobs[k].rev <= content[2]
        /\ rows[content[1]].rev <= content[2]
        /\ \A other \in fetched : other[1] = content[1] => other = content

Calm == faults = 0 => InOrder /\ FetchedInOrder

LEMMA NumbersAreNatural ==
    ASSUME Shape
    PROVE  /\ \A k \in DOMAIN jobs : k \in Nat /\ jobs[k].item \in Items /\ jobs[k].rev \in Nat
           /\ \A i \in Items : rows[i].rev \in Nat /\ published[i] \in Nat
           /\ \A content \in fetched : content[1] \in Items /\ content[2] \in Nat
<1>1. \A k \in DOMAIN jobs : k \in Nat /\ jobs[k] \in Job
  BY DEF Shape, DerivationTypeOK, TypeOK
<1>2. \A i \in Items : rows[i] \in Row /\ published[i] \in Nat
  BY DEF Shape, DerivationTypeOK, TypeOK
<1>3. \A content \in fetched : content \in Content
  BY DEF Shape, DerivationTypeOK, TypeOK
<1> QED
  BY <1>1, <1>2, <1>3 DEF Job, Row, Content, Revision

\* A step that leaves the jobs as they are, and the revisions of the rows.
LEMMA OrderKept ==
    ASSUME Shape, InOrder, FetchedInOrder, UNCHANGED <<jobs, fetched, published>>,
           \A i \in Items : rows'[i].rev = rows[i].rev
    PROVE  InOrder' /\ FetchedInOrder'
<1>1. \A k \in DOMAIN jobs : rows'[jobs[k].item].rev = rows[jobs[k].item].rev
  BY NumbersAreNatural
<1>2. \A content \in fetched : rows'[content[1]].rev = rows[content[1]].rev
  BY NumbersAreNatural
<1>3. InOrder'
  BY <1>1 DEF InOrder, IsActive
<1> QED
  BY <1>2, <1>3 DEF FetchedInOrder

LEMMA CalmStep ==
    ASSUME OffchainAssumption, Shape, Calm, [Next]_vars, Shape'
    PROVE  Calm'
<1> SUFFICES ASSUME faults' = 0 PROVE InOrder' /\ FetchedInOrder'
  BY DEF Calm
<1>1. faults = 0 /\ ~Fault
  <2>1. ~Fault
    BY FaultIsBounded
  <2>2. faults' = faults \/ Fault
    BY DEF Next, ArchiveStep, Publish, Poll, FetchTick, CommitTick, Work, Take, Reject,
           WriteArchive, WriteRow, Ack, Serve, BackoffElapses, Expire, Bridge, Faults,
           CommitFails, BridgeGivesUp, HandlerFails, RestartAll, Restart, vars, archiveVars,
           Sweep, SweepTick, SweepRow, Derive, DeriveTick, DeriveRow, DerivationFaults,
           SweepRowFails, SweepBatchFails, DeriveRowFails
  <2> QED
    BY <2>1, <2>2
<1>2. InOrder /\ FetchedInOrder /\ jobs \in Seq(Job)
  BY <1>1 DEF Calm, Shape, DerivationTypeOK, TypeOK
<1>3. CASE /\ UNCHANGED <<jobs, fetched, published>>
           /\ \A i \in Items : rows'[i].rev = rows[i].rev
  BY <1>2, <1>3, OrderKept
<1>4. CASE Publish
  <2>1. PICK i \in Items : published' = [published EXCEPT ![i] = @ + 1]
    BY <1>4 DEF Publish
  <2>2. UNCHANGED <<jobs, fetched, rows>> /\ published \in [Items -> Nat]
    BY <1>4 DEF Publish, pollVars, Shape, DerivationTypeOK, TypeOK
  <2>3. \A j \in Items : published'[j] \in {published[j], published[j] + 1}
    BY <2>1, <2>2
  <2>4. InOrder'
    <3>1. ASSUME NEW k \in DOMAIN jobs PROVE jobs[k].rev <= published'[jobs[k].item]
      <4>1. /\ jobs[k].item \in Items /\ jobs[k].rev \in Nat
            /\ published[jobs[k].item] \in Nat /\ jobs[k].rev <= published[jobs[k].item]
        BY <1>2, NumbersAreNatural DEF InOrder
      <4> QED
        BY <2>3, <4>1
    <3>2. ASSUME NEW j \in Items PROVE rows[j].rev <= published'[j]
      <4>1. rows[j].rev \in Nat /\ published[j] \in Nat /\ rows[j].rev <= published[j]
        BY <1>2, NumbersAreNatural DEF InOrder
      <4> QED
        BY <2>3, <4>1
    <3> QED
      BY <1>2, <2>2, <3>1, <3>2 DEF InOrder, IsActive
  <2> QED
    BY <1>2, <2>2, <2>4 DEF FetchedInOrder
<1>5. CASE FetchTick
  <2>1. UNCHANGED <<published, jobs, rows>>
    BY <1>5 DEF FetchTick
  <2>2. \A content \in fetched' : content[1] \in Items /\ content = <<content[1], published[content[1]]>>
    BY <1>5 DEF FetchTick, Shape, DerivationTypeOK, TypeOK
  <2>3. FetchedInOrder'
    BY <1>2, <2>1, <2>2 DEF FetchedInOrder, InOrder
  <2> QED
    BY <1>2, <2>1, <2>3 DEF InOrder, IsActive
<1>6. CASE CommitTick
  <2>1. Commit /\ fetched' = {} /\ UNCHANGED <<published, rows>>
    BY <1>6 DEF CommitTick
  <2>2. fetched \subseteq Content /\ IsFiniteSet(fetched) /\ PublishedFirst
    BY DEF Shape, DerivationTypeOK, TypeOK
  <2>3. /\ jobs' \in Seq(Job) /\ Len(jobs) <= Len(jobs')
        /\ \A k \in 1..Len(jobs) : jobs'[k] = jobs[k]
        /\ \A k \in 1..Len(jobs') : ~(k <= Len(jobs)) =>
              \E content \in fetched : jobs'[k] = NewJob(content)
    BY <1>2, <2>1, <2>2, CommitAppends
  <2>4. ASSUME NEW k \in DOMAIN jobs'
        PROVE  \/ k \in DOMAIN jobs /\ jobs'[k] = jobs[k]
               \/ /\ k \notin DOMAIN jobs
                  /\ \E content \in fetched :
                       /\ jobs'[k].item = content[1] /\ jobs'[k].rev = content[2]
                       /\ jobs'[k].state = "ready"
    <3>1. k \in 1..Len(jobs') /\ Len(jobs) \in Nat /\ DOMAIN jobs = 1..Len(jobs)
      BY <1>2, <2>3
    <3>2. CASE k <= Len(jobs)
      BY <2>3, <3>1, <3>2
    <3>3. CASE ~(k <= Len(jobs))
      <4>1. PICK content \in fetched : jobs'[k] = NewJob(content)
        BY <2>3, <3>1, <3>3
      <4>2. /\ NewJob(content).item = content[1] /\ NewJob(content).rev = content[2]
            /\ NewJob(content).state = "ready"
        BY DEF NewJob
      <4>3. k \notin DOMAIN jobs
        BY <3>1, <3>3
      <4> QED
        BY <4>1, <4>2, <4>3
    <3> QED
      BY <3>2, <3>3
  <2>5. \A k \in DOMAIN jobs' :
           /\ jobs'[k].state \in {"ready", "active"} /\ (IsActive(k)' => k = 1)
           /\ rows[jobs'[k].item].rev <= jobs'[k].rev
           /\ jobs'[k].rev <= published[jobs'[k].item]
    BY <1>2, <2>2, <2>4 DEF InOrder, FetchedInOrder, PublishedFirst, IsActive
  <2>6. ASSUME NEW j \in DOMAIN jobs', NEW k \in DOMAIN jobs', j <= k,
               jobs'[j].item = jobs'[k].item
        PROVE  jobs'[j].rev <= jobs'[k].rev
    <3>1. CASE j \in DOMAIN jobs /\ k \in DOMAIN jobs
      BY <1>2, <2>4, <2>6, <3>1 DEF InOrder
    <3>2. CASE j \in DOMAIN jobs /\ k \notin DOMAIN jobs
      BY <1>2, <2>4, <2>6, <3>2 DEF FetchedInOrder
    <3>3. CASE j \notin DOMAIN jobs /\ k \notin DOMAIN jobs
      <4>1. jobs'[j].rev = jobs'[k].rev
        BY <1>2, <2>4, <2>6, <3>3 DEF FetchedInOrder
      <4>2. jobs'[k].rev \in Nat
        <5>1. jobs'[k] \in Job
          BY <2>3
        <5> QED
          BY <5>1 DEF Job, Revision
      <4> QED
        BY <4>1, <4>2
    <3>4. k \in DOMAIN jobs => j \in DOMAIN jobs
      BY <1>2, <2>3, <2>6
    <3> QED
      BY <3>1, <3>2, <3>3, <3>4
  <2>7. InOrder'
    BY <1>2, <2>1, <2>5, <2>6 DEF InOrder
  <2> QED
    BY <2>1, <2>7 DEF FetchedInOrder
<1>7. CASE Serve
  <2>1. \A k \in DOMAIN jobs : jobs[k].state # "waiting" /\ jobs[k].state # "orphan"
    BY <1>2 DEF InOrder
  <2>2. Bridge
    BY <1>7, <2>1 DEF Serve, BackoffElapses, Expire
  <2> QED
    BY <1>3, <2>2 DEF Bridge, pollVars
<1>8. CASE Take
  <2>1. /\ \E k \in DOMAIN jobs : jobs[k].state = "ready"
        /\ \A k \in DOMAIN jobs : ~IsActive(k)
    BY <1>8 DEF Take, Unchanged, Shape, DerivationTypeOK, TypeOK, IsActive
  <2>2. PICK k \in DOMAIN jobs :
           k = First("ready") /\ \A j \in 1..(k - 1) : jobs[j].state # "ready"
    BY <1>2, <2>1, FirstIsFirst
  <2> DEFINE job == [jobs[k] EXCEPT !.state = "active"]
  <2>3. /\ jobs[k] \in Job /\ jobs' = [jobs EXCEPT ![k] = job]
        /\ UNCHANGED <<rows, published, fetched>>
    BY <1>2, <1>8, <2>2 DEF Take, Unchanged, pollVars
  <2>4. job \in Job /\ job.state = "active" /\ job.item = jobs[k].item /\ job.rev = jobs[k].rev
    BY <2>3, JobRestated
  <2> HIDE DEF job
  <2>5. /\ DOMAIN jobs' = DOMAIN jobs
        /\ \A j \in DOMAIN jobs : jobs'[j] = IF j = k THEN job ELSE jobs[j]
    BY <1>2, <2>3, <2>4, Restated
  <2>6. k = 1
    <3>1. Len(jobs) \in Nat /\ DOMAIN jobs = 1..Len(jobs)
      BY <1>2
    <3>2. k # 1 => 1 \in DOMAIN jobs /\ 1 \in 1..(k - 1)
      BY <3>1
    <3> QED
      BY <1>2, <2>1, <2>2, <3>2 DEF InOrder, IsActive
  <2>7. \A j \in DOMAIN jobs :
           /\ jobs'[j].item = jobs[j].item /\ jobs'[j].rev = jobs[j].rev
           /\ jobs'[j].state \in {"ready", "active"} /\ (jobs'[j].state = "active" => j = 1)
    BY <1>2, <2>1, <2>4, <2>5, <2>6 DEF InOrder, IsActive
  <2>8. InOrder'
    BY <1>2, <2>3, <2>5, <2>7 DEF InOrder, IsActive
  <2> QED
    BY <1>2, <2>3, <2>5, <2>7, <2>8 DEF FetchedInOrder
<1>9. CASE WriteRow
  <2>1. /\ First("active") \in DOMAIN jobs /\ IsActive(First("active"))
        /\ jobs[First("active")] = Active /\ UNCHANGED <<jobs, published, fetched>>
    BY <1>9, ActiveIsActive DEF WriteRow, pollVars
  <2>2. First("active") = 1
    BY <1>2, <2>1 DEF InOrder
  <2>3. 1 \in DOMAIN jobs /\ jobs[1] = Active /\ Active.item \in Items
    BY <2>1, <2>2, NumbersAreNatural
  <2> DEFINE row == [NoRow EXCEPT !.rev = Active.rev, !.ver = NextVersion]
  <2>4. rows' = rows \/ rows' = [rows EXCEPT ![Active.item] = row]
    BY <1>9 DEF WriteRow
  <2>5. row.rev = Active.rev
    BY DEF NoRow
  <2> HIDE DEF row
  <2>6. \A i \in Items :
           rows'[i].rev = rows[i].rev \/ (i = Active.item /\ rows'[i].rev = Active.rev)
    BY <2>4, <2>5 DEF Shape, DerivationTypeOK, TypeOK
  <2>7. \A k \in DOMAIN jobs : 1 <= k
    BY <1>2
  <2>8. InOrder'
    <3>1. \A k \in DOMAIN jobs : rows'[jobs[k].item].rev <= jobs[k].rev
      BY <1>2, <2>3, <2>6, <2>7, NumbersAreNatural DEF InOrder
    <3>2. \A i \in Items : rows'[i].rev <= published[i]
      BY <1>2, <2>3, <2>6 DEF InOrder
    <3> QED
      BY <1>2, <2>1, <3>1, <3>2 DEF InOrder, IsActive
  <2>9. \A content \in fetched : rows'[content[1]].rev <= content[2]
    BY <1>2, <2>3, <2>6, NumbersAreNatural DEF FetchedInOrder
  <2> QED
    BY <1>2, <2>1, <2>8, <2>9 DEF FetchedInOrder
<1>10. CASE Ack
  <2>1. /\ First("active") \in DOMAIN jobs /\ jobs' = RemoveAt(jobs, First("active"))
        /\ IsActive(First("active")) /\ UNCHANGED <<rows, published, fetched>>
    BY <1>10, ActiveIsActive DEF Ack, pollVars
  <2>2. First("active") = 1
    BY <1>2, <2>1 DEF InOrder
  <2>3. /\ jobs' \in Seq(Job)
        /\ \A j \in DOMAIN jobs' :
              \/ j \in DOMAIN jobs /\ j < 1 /\ jobs'[j] = jobs[j]
              \/ j + 1 \in DOMAIN jobs /\ 1 < j + 1 /\ jobs'[j] = jobs[j + 1]
    <3>1. 1 \in DOMAIN jobs /\ jobs' = RemoveAt(jobs, 1)
      BY <2>1, <2>2
    <3> QED
      BY <1>2, <3>1, Removed
  <2>4. \A j \in DOMAIN jobs' : j \in Nat /\ j + 1 \in DOMAIN jobs /\ jobs'[j] = jobs[j + 1]
    BY <1>2, <2>3
  <2>5. \A j \in DOMAIN jobs' : jobs'[j].state = "ready"
    BY <1>10, <2>4, AckEnds, <1>2 DEF InOrder, IsActive
  <2>6. InOrder'
    <3>1. ASSUME NEW j \in DOMAIN jobs', NEW k \in DOMAIN jobs', j <= k,
                 jobs'[j].item = jobs'[k].item
          PROVE  jobs'[j].rev <= jobs'[k].rev
      <4>1. j + 1 <= k + 1
        BY <2>4, <3>1
      <4> QED
        BY <1>2, <2>4, <3>1, <4>1 DEF InOrder
    <3> QED
      BY <1>2, <2>1, <2>4, <2>5, <3>1 DEF InOrder, IsActive
  <2> QED
    BY <1>2, <2>1, <2>4, <2>6 DEF FetchedInOrder
<1>11. CASE Reject \/ WriteArchive
  BY <1>3, <1>11 DEF Reject, WriteArchive, pollVars
<1>12. CASE Sweep \/ Derive
  BY <1>3, <1>12, MarkSteps DEF Marks
<1>13. CASE UNCHANGED vars
  BY <1>3, <1>13 DEF vars, archiveVars, pollVars
<1> QED
  BY <1>1, <1>4, <1>5, <1>6, <1>7, <1>8, <1>9, <1>10, <1>11, <1>12, <1>13
     DEF Next, ArchiveStep, Poll, Work, Faults, DerivationFaults,
         CommitFails, BridgeGivesUp, HandlerFails, RestartAll, Restart,
         SweepRowFails, SweepBatchFails, DeriveRowFails

LEMMA OlderEditIsNoOp ==
    ASSUME OffchainAssumption, Shape, Calm, [Next]_vars, faults = 0, NEW i \in Items
    PROVE  rows'[i].rev >= rows[i].rev
<1>1. rows[i].rev \in Nat
  BY NumbersAreNatural
<1>2. CASE WriteRow
  <2>1. /\ First("active") \in DOMAIN jobs /\ jobs[First("active")] = Active
    BY <1>2, ActiveIsActive DEF WriteRow
  <2>2. rows[Active.item].rev <= Active.rev /\ Active.rev \in Nat
    BY <2>1, NumbersAreNatural DEF Calm, InOrder
  <2>3. \/ rows' = rows
        \/ rows' = [rows EXCEPT ![Active.item] =
                       [NoRow EXCEPT !.rev = Active.rev, !.ver = NextVersion]]
    BY <1>2 DEF WriteRow
  <2>4. rows \in [Items -> Row]
    BY DEF Shape, DerivationTypeOK, TypeOK
  <2>5. [NoRow EXCEPT !.rev = Active.rev, !.ver = NextVersion].rev = Active.rev
    BY DEF NoRow
  <2>6. rows'[i].rev = rows[i].rev \/ (i = Active.item /\ rows'[i].rev = Active.rev)
    BY <2>3, <2>4, <2>5
  <2> QED
    BY <1>1, <2>2, <2>6
<1>3. CASE rows' = rows
  BY <1>1, <1>3
<1>4. CASE Sweep \/ Derive \/ DerivationFaults
  BY <1>1, <1>4, MarkSteps DEF Marks
<1> QED
  BY <1>2, <1>3, <1>4, QuietSteps
     DEF Next, ArchiveStep, Work, Take, Reject, WriteArchive, Ack, Faults, HandlerFails,
         RestartAll, Restart, vars, archiveVars

LEMMA InitIsCalm == OffchainAssumption /\ Init => Calm
BY DEF Init, ArchiveInit, NoRow, Calm, InOrder, FetchedInOrder, OffchainAssumption

-----------------------------------------------------------------------------

LEMMA IInvHolds == Spec => []IInv
<1>1. Init => IInv
  BY OffchainAssumption, InitIsVouched
<1>2. IInv /\ [Next]_vars => IInv'
  BY OffchainAssumption, IInvStep
<1> QED
  BY <1>1, <1>2, PTL DEF Spec

\* Queue, worker, cursor, archive and projection stay well typed, and no item is
\* paged before it is published, through every failure and restart.
THEOREM TypeCorrect == Spec => []DerivationTypeOK
BY IInvHolds, IInvImplies, PTL

\* A row of archive_event vouches for ClickHouse, whose versions are at most one
\* ahead of it: Holding is what a worker knows between its two writes, and no
\* second worker, retry or restart takes it away.
THEOREM RowsAreArchived == Spec => []RowIsArchived
BY IInvHolds, IInvImplies, PTL

\* A row marked derived shows content that was archived, although the deriver
\* read its batch before and an edit may have been archived in between.
THEOREM DerivedIsArchived == Spec => []DerivedShowsArchive
BY IInvHolds, IInvImplies, PTL

\* While no call has failed the queue serves each item's edits in order, so no
\* edit overwrites a newer one: Calm says that the queue and what the tick has
\* read are sorted, and at least as new as the rows.
THEOREM CalmArchive == Spec => CalmOlderEditIsNoOp
<1> DEFINE Step == [faults = 0 => \A i \in Items : rows'[i].rev >= rows[i].rev]_archiveVars
<1>1. Init => Shape /\ Calm
  BY OffchainAssumption, ShapeInit, InitIsCalm
<1>2. (Shape /\ Calm) /\ [Next]_vars => (Shape /\ Calm)'
  BY OffchainAssumption, TypesStep, CalmStep
<1>3. (Shape /\ Calm) /\ [Next]_vars => Step
  BY OffchainAssumption, OlderEditIsNoOp
<1> QED
  BY <1>1, <1>2, <1>3, PTL DEF Spec, CalmOlderEditIsNoOp
=============================================================================
