----------------------- MODULE SchedBackfillTheorems -----------------------
(***************************************************************************)
(* The simulator with backfill, for every cluster and every loaded         *)
(* dataset.  Unlike FIFO it changes jobs: distribute folds their cores.    *)
(***************************************************************************)
EXTENDS SchedBackfill, ClusterTheorems

\* The moments stay what was loaded.
LoadedMoments == \E d \in Datasets : moments = d.moments

\* The queue holds jobs, and a distribution under way has a moment.
Typed ==
  /\ ClusterTypeOK
  /\ queue \in Seq(Jobs)
  /\ i \in Nat \ {0}
  /\ pc = "enqueue" => jseq \in DOMAIN moments

\* A moment has jobs, and a job one moment.
LEMMA LoadedFacts ==
  ASSUME LoadedMoments
  PROVE  /\ moments \in Seq(MomentType)
         /\ EachJobOnce(moments)
BY DatasetsAssumption DEF LoadedMoments

\* The job whose turn it is in distribute_backfill.
ToEnqueue == moments[jseq].jobs[i]

LEMMA EnqueuedJob ==
  ASSUME Typed, Enqueue
  PROVE  /\ jseq \in DOMAIN moments
         /\ i \in DOMAIN moments[jseq].jobs
         /\ ToEnqueue \in Jobs
<1>1. jseq \in DOMAIN moments /\ i <= Len(moments[jseq].jobs) /\ i \in Nat \ {0}
  BY DEF Enqueue, Typed
<1>2. moments[jseq].jobs \in Seq(Jobs)
  BY <1>1, MomentTimes DEF Typed
<1> QED
  BY <1>1, <1>2 DEF ToEnqueue

\* Folding touches thread_count and cpu_count and leaves their product alone.
LEMMA FoldedFields ==
  ASSUME NodeTypeOK, NEW j \in Jobs
  PROVE  /\ FoldCores(j) \in JobType
         /\ FoldCores(j).mem_size = job[j].mem_size
         /\ FoldCores(j).max_wait_time = job[j].max_wait_time
         /\ FoldCores(j).cpu_count = 0
         /\ FoldCores(j).thread_count = ThreadsOf(j)
<1>1. job[j] \in JobType
  BY DEF NodeTypeOK
<1>2. job[j].cpu_count \in Nat /\ job[j].thread_count \in Nat
  BY <1>1 DEF JobType
<1>3. job[j].thread_count * job[j].cpu_count \in Nat
  BY <1>2, SMT
<1>4. CASE job[j].cpu_count = 0
  <2>1. FoldCores(j) = job[j] /\ ThreadsOf(j) = job[j].thread_count
    BY <1>2, <1>4 DEF FoldCores, ThreadsOf, Unit, Want
  <2> QED
    BY <1>1, <1>4, <2>1
<1>5. CASE job[j].cpu_count # 0
  <2> DEFINE product == job[j].thread_count * job[j].cpu_count
  <2>1. ThreadsOf(j) = product
    BY <1>5 DEF ThreadsOf, Unit, Want
  <2>2. product \in Nat
    BY <1>3
  <2> DEFINE widened == [job[j] EXCEPT !.thread_count = product]
  <2>3. FoldCores(j) = [widened EXCEPT !.cpu_count = 0]
    BY <1>5 DEF FoldCores
  <2> HIDE DEF product
  <2>4. /\ widened \in JobType
        /\ widened.mem_size = job[j].mem_size
        /\ widened.max_wait_time = job[j].max_wait_time
        /\ widened.thread_count = product
    BY <1>1, <2>2 DEF JobType
  <2> HIDE DEF widened
  <2> QED
    BY <2>1, <2>3, <2>4 DEF JobType
<1> QED
  BY <1>4, <1>5

\* r is the queue with job j put in somewhere, and the order of the others kept.
Inserted(r, at, j) ==
  /\ r \in Seq(Jobs)
  /\ Len(r) = Len(queue) + 1
  /\ \A k \in 1..(Len(queue) + 1) :
       r[k] = IF k < at THEN queue[k] ELSE IF k = at THEN j ELSE queue[k - 1]

\* Whatever the waiting times and priorities are, distribute_backfill links the
\* job into the chain once and unlinks none.
LEMMA EnqueueInserts ==
  ASSUME Typed, Enqueue
  PROVE  \E at \in 1..(Len(queue) + 1) : Inserted(queue', at, ToEnqueue)
<1> DEFINE j == ToEnqueue
<1>1. j \in Jobs /\ queue \in Seq(Jobs) /\ Len(queue) \in Nat
  BY EnqueuedJob DEF Typed
<1>2. queue' = IF queue = <<>> THEN <<j>> ELSE PlaceByWaitTime(queue, j)
  BY DEF Enqueue, ToEnqueue
<1> HIDE DEF j
<1>3. ASSUME queue' = <<j>> \o queue
      PROVE  Inserted(queue', 1, j)
  BY <1>1, <1>3 DEF Inserted
<1>4. ASSUME queue' = Append(queue, j)
      PROVE  Inserted(queue', Len(queue) + 1, j)
  BY <1>1, <1>4 DEF Inserted
<1>5. ASSUME NEW at \in 1..(Len(queue) + 1), queue' = InsertAt(queue, at, j)
      PROVE  Inserted(queue', at, j)
  <2>1. /\ InsertAt(queue, at, j) \in Seq(Jobs)
        /\ Len(InsertAt(queue, at, j)) = Len(queue) + 1
        /\ \A k \in 1..(Len(queue) + 1) :
             InsertAt(queue, at, j)[k]
               = IF k < at THEN queue[k] ELSE IF k = at THEN j ELSE queue[k - 1]
    BY <1>1, InsertAtProperties
  <2> QED
    BY <1>5, <2>1 DEF Inserted
<1>6. CASE queue = <<>>
  <2>1. queue' = <<j>> \o queue
    BY <1>1, <1>2, <1>6
  <2> QED
    BY <1>1, <1>3, <2>1 DEF j
<1>7. CASE queue # <<>> /\ wait_time[j] < wait_time[queue[1]]
  <2>1. queue' = <<j>> \o queue
    BY <1>2, <1>7 DEF PlaceByWaitTime
  <2> QED
    BY <1>1, <1>3, <2>1 DEF j
<1>8. CASE queue # <<>> /\ ~(wait_time[j] < wait_time[queue[1]])
  <2> DEFINE notBefore == {p \in 2..Len(queue) : wait_time[j] <= wait_time[queue[p]]}
  <2>1. queue' = IF notBefore = {} THEN Append(queue, j)
                 ELSE PlaceByPriority(queue, j, Min(notBefore))
    BY <1>2, <1>8 DEF PlaceByWaitTime
  <2>2. CASE notBefore = {}
    <3>1. queue' = Append(queue, j)
      BY <2>1, <2>2
    <3> QED
      BY <1>1, <1>4, <3>1 DEF j
  <2>3. CASE notBefore # {}
    <3> DEFINE k == Min(notBefore)
               behind == {p \in k..Len(queue) : Priority(j) <= Priority(queue[p])}
    <3>1. k \in 2..Len(queue)
      <4>1. notBefore \in SUBSET Nat /\ \A p \in notBefore : p \in 2..Len(queue)
        BY <1>1
      <4> HIDE DEF notBefore
      <4>2. k \in notBefore
        BY <2>3, <4>1, MinIsLeast
      <4> QED
        BY <4>1, <4>2
    <3>2. queue' = InsertAt(queue, IF behind = {} THEN Len(queue) + 1 ELSE Min(behind), j)
      BY <2>1, <2>3 DEF PlaceByPriority
    <3> HIDE DEF k
    <3>3. behind \in SUBSET (1..Len(queue)) /\ behind \in SUBSET Nat
      BY <1>1, <3>1
    <3>4. behind # {} => Min(behind) \in 1..Len(queue)
      BY <3>3, MinIsLeast
    <3> DEFINE at == IF behind = {} THEN Len(queue) + 1 ELSE Min(behind)
    <3>5. at \in 1..(Len(queue) + 1)
      <4> HIDE DEF behind
      <4> QED
        BY <1>1, <3>4
    <3>6. queue' = InsertAt(queue, at, j)
      BY <3>2
    <3> HIDE DEF at
    <3> QED
      BY <1>5, <3>5, <3>6 DEF j
  <2> QED
    BY <2>2, <2>3
<1> QED
  BY <1>6, <1>7, <1>8
-----------------------------------------------------------------------------
\* What distribute_backfill and schedule_backfill leave to the rest of the
\* tick: they count and end no job, and hand over one moment.
LEMMA BackfillActs ==
  ASSUME Distribute \/ Schedule
  PROVE  /\ UNCHANGED <<jobVars, statVars, moments, everything_done, jl, all_done, t>>
         /\ pc \in {"distribute", "enqueue", "schedule", "visit"}
         /\ pc' \in {"enqueue", "schedule", "visit", "moment"}
         /\ pc' = "moment" => jm' = 1
         /\ jm' \in {jm, 1}
         /\ jseq' \in {jseq, jseq + 1}
         /\ UNCHANGED job \/ Enqueue
         /\ UNCHANGED nodeVars \/ \E n \in Nodes : Allocate(n)
<1>1. CASE Distribute
  BY <1>1 DEF Distribute, StartDistribute, Enqueue, Distributed, NoMomentDue,
              BackfillFrame, datasetVars, stepVars
<1>2. CASE Schedule
  BY <1>2 DEF Schedule, StartWalk, NoNodeFits, Allocate, QueueWalked, Visit,
              BackfillFrame, StepStarts
<1> QED
  BY <1>1, <1>2

\* A job of the queue is put on a node that the check accepts.
LEMMA Allocated ==
  ASSUME Typed, NEW n \in Nodes, Allocate(n)
  PROVE  /\ pc = "visit" /\ pc' = "visit" /\ i' = i
         /\ i \in DOMAIN queue /\ queue[i] \in Jobs
         /\ CheckNodeForJob(queue[i], n) /\ PutJobToNode(queue[i], n)
         /\ UNCHANGED <<job, moments, jseq>>
         /\ queue' \in Seq(Jobs)
         /\ Len(queue') = Len(queue) - 1
         /\ \A k \in 1..(Len(queue) - 1) :
              queue'[k] = IF k < i THEN queue[k] ELSE queue[k + 1]
<1>1. /\ pc = "visit" /\ pc' = "visit" /\ i' = i /\ i <= Len(queue)
      /\ UNCHANGED <<job, moments, jseq>>
      /\ CheckNodeForJob(queue[i], n) /\ PutJobToNode(queue[i], n)
      /\ queue' = RemoveAt(queue, i)
  BY DEF Allocate, Visit, BackfillFrame
<1>2. queue \in Seq(Jobs) /\ i \in 1..Len(queue)
  BY <1>1 DEF Typed
<1>3. i \in DOMAIN queue /\ queue[i] \in Jobs
  BY <1>2
<1>4. /\ RemoveAt(queue, i) \in Seq(Jobs)
      /\ Len(RemoveAt(queue, i)) = Len(queue) - 1
      /\ \A k \in 1..(Len(queue) - 1) :
           RemoveAt(queue, i)[k] = IF k < i THEN queue[k] ELSE queue[k + 1]
  BY <1>2, RemoveAtProperties
<1> QED
  BY <1>1, <1>3, <1>4

\* Both functions keep the simulator's state in its type.
LEMMA BackfillKeepsType ==
  ASSUME Typed, LoadedMoments, Distribute \/ Schedule
  PROVE  Typed'
<1>1. /\ UNCHANGED <<jobVars, statVars, moments, everything_done, jl, all_done, t>>
      /\ pc' \in {"enqueue", "schedule", "visit", "moment"}
      /\ jm' \in {jm, 1} /\ jseq' \in {jseq, jseq + 1}
  BY BackfillActs
<1>2. job' \in [Jobs -> JobType]
  <2>1. CASE UNCHANGED job
    BY <2>1 DEF Typed, ClusterTypeOK, NodeTypeOK
  <2>2. CASE Enqueue
    <3>1. /\ ToEnqueue \in Jobs
          /\ job' = [job EXCEPT ![ToEnqueue] = FoldCores(ToEnqueue)]
          /\ job \in [Jobs -> JobType]
      BY <2>2, EnqueuedJob DEF Enqueue, ToEnqueue, Typed, ClusterTypeOK, NodeTypeOK
    <3>2. FoldCores(ToEnqueue) \in JobType
      BY <3>1, FoldedFields DEF Typed, ClusterTypeOK
    <3> QED
      BY <3>1, <3>2
  <2> QED
    BY <2>1, <2>2, BackfillActs
<1>3. NodeTypeOK'
  <2>1. CASE UNCHANGED nodeVars
    BY <1>2, <2>1 DEF Typed, ClusterTypeOK, NodeTypeOK, nodeVars, OccupationType
  <2>2. CASE \E n \in Nodes : Allocate(n)
    <3>1. PICK n \in Nodes : Allocate(n)
      BY <2>2
    <3> QED
      BY <3>1, Allocated, PutKeepsType DEF Typed, ClusterTypeOK
  <2> QED
    BY <2>1, <2>2, BackfillActs
<1>4. ClusterTypeOK'
  <2>1. jm' \in Nat \ {0} /\ jseq' \in Nat \ {0}
    BY <1>1 DEF Typed, ClusterTypeOK
  <2> QED
    BY <1>1, <1>3, <2>1 DEF Typed, ClusterTypeOK, jobVars, statVars
<1>5. queue' \in Seq(Jobs)
  <2>1. CASE UNCHANGED queue
    BY <2>1 DEF Typed
  <2>2. CASE Enqueue
    BY <2>2, EnqueueInserts DEF Inserted
  <2>3. ASSUME NEW n \in Nodes, Allocate(n)
        PROVE  queue' \in Seq(Jobs)
    BY <2>3, Allocated
  <2> QED
    BY <2>1, <2>2, <2>3 DEF Distribute, StartDistribute, Distributed, Schedule,
         StartWalk, NoNodeFits, QueueWalked, backfillVars
<1>6. i' \in Nat \ {0}
  <2>1. i' \in {i, 1, i + 1}
    BY DEF Distribute, StartDistribute, Enqueue, Distributed, Schedule, StartWalk,
           NoNodeFits, Allocate, QueueWalked, backfillVars
  <2> QED
    BY <2>1 DEF Typed
<1>7. (pc = "enqueue" => jseq \in DOMAIN moments)'
  <2>1. CASE StartDistribute
    <3>1. jseq <= Len(moments) /\ jseq' = jseq /\ jseq \in Nat \ {0}
      BY <2>1 DEF StartDistribute, MomentDue, Typed, ClusterTypeOK
    <3> QED
      BY <1>1, <3>1 DEF Typed, ClusterTypeOK
  <2>2. CASE Enqueue
    BY <1>1, <2>2 DEF Enqueue, Typed
  <2>3. CASE pc' # "enqueue"
    BY <2>3
  <2> QED
    BY <2>1, <2>2, <2>3 DEF Distribute, Distributed, NoMomentDue, Schedule,
         StartWalk, NoNodeFits, Allocate, QueueWalked, Visit, StepStarts, BackfillFrame
<1> QED
  BY <1>4, <1>5, <1>6, <1>7 DEF Typed

\* Every field keeps its type, the folded jobs' included, and the queue holds
\* jobs and nothing else.
THEOREM BackfillTypeCorrect == Spec => [](Typed /\ LoadedMoments)
<1>1. Init => Typed /\ LoadedMoments
  BY ClusterStartsTyped DEF Init, ClusterInit, Typed, LoadedMoments
<1>2. Typed /\ LoadedMoments /\ [Next]_vars => Typed' /\ LoadedMoments'
  <2> SUFFICES ASSUME Typed, LoadedMoments, [Next]_vars
               PROVE  Typed' /\ LoadedMoments'
    OBVIOUS
  <2>1. CASE SimulatorStep /\ UNCHANGED backfillVars
    <3>1. ClusterTypeOK' /\ moments' = moments
      BY <2>1, SimulatorKeepsType, SimulatorMovesNone DEF Typed, datasetVars
    <3>2. pc' # "enqueue"
      BY <2>1, SimulatorFrame
    <3> QED
      BY <2>1, <3>1, <3>2 DEF Typed, LoadedMoments, backfillVars
  <2>2. CASE Distribute \/ Schedule
    BY <2>2, BackfillKeepsType, BackfillActs DEF LoadedMoments
  <2>3. CASE UNCHANGED vars
    <3>1. NodeTypeOK'
      BY <2>3, NodeFrame DEF vars, clusterVars, Typed, ClusterTypeOK, datasetVars
    <3> QED
      BY <2>3, <3>1 DEF vars, clusterVars, Typed, ClusterTypeOK, LoadedMoments,
           jobVars, statVars, datasetVars, stepVars, backfillVars
  <2> QED
    BY <2>1, <2>2, <2>3 DEF Next
<1> QED
  BY <1>1, <1>2, PTL DEF Spec
-----------------------------------------------------------------------------
\* A job that is on a node was handed over.
StartedWereHanded == \A j \in Jobs : assigned_node[j] # NULL => j \in HandedOver

WholeInv == QueueIsWhole /\ StartedWereHanded

\* Enqueue hands over one job, which was not handed over before.
LEMMA EnqueueHandsOver ==
  ASSUME Typed, LoadedMoments, Enqueue
  PROVE  ToEnqueue \notin HandedOver /\ HandedOver' = HandedOver \cup {ToEnqueue}
<1>1. /\ jseq \in DOMAIN moments /\ i \in DOMAIN moments[jseq].jobs
      /\ ToEnqueue \in Jobs /\ ToEnqueue = moments[jseq].jobs[i]
  BY EnqueuedJob DEF ToEnqueue
<1>2. pc = "enqueue" /\ pc' = "enqueue" /\ i' = i + 1 /\ UNCHANGED <<moments, jseq>>
  BY DEF Enqueue, BackfillFrame
<1>3. jseq \in Nat /\ i \in Nat
  BY DEF Typed, ClusterTypeOK
<1>4. ASSUME ToEnqueue \in HandedOver PROVE FALSE
  <2>1. PICK p \in DOMAIN moments : \E k \in DOMAIN moments[p].jobs :
          /\ moments[p].jobs[k] = ToEnqueue
          /\ p < jseq \/ (p = jseq /\ pc = "enqueue" /\ k < i)
    BY <1>4 DEF HandedOver
  <2>2. PICK k \in DOMAIN moments[p].jobs :
          /\ moments[p].jobs[k] = ToEnqueue
          /\ p < jseq \/ (p = jseq /\ pc = "enqueue" /\ k < i)
    BY <2>1
  <2>3. p = jseq /\ k = i
    BY <1>1, <2>2, LoadedFacts, OnePlace DEF Typed
  <2> QED
    BY <1>3, <2>2, <2>3
<1>5. ASSUME NEW j \in Jobs
      PROVE  j \in HandedOver' <=> j \in HandedOver \/ j = ToEnqueue
  <2>1. ASSUME NEW p \in DOMAIN moments, NEW k \in DOMAIN moments[p].jobs
        PROVE  p < jseq \/ (p = jseq /\ k < i + 1)
                 <=> (p < jseq \/ (p = jseq /\ k < i)) \/ (p = jseq /\ k = i)
    <3>1. k \in Nat
      BY <2>1, MomentTimes DEF Typed
    <3> QED
      BY <1>3, <3>1
  <2>2. j \in HandedOver' <=>
          \E p \in DOMAIN moments : \E k \in DOMAIN moments[p].jobs :
            moments[p].jobs[k] = j /\ (p < jseq \/ (p = jseq /\ k < i + 1))
    BY <1>2 DEF HandedOver
  <2>3. j \in HandedOver <=>
          \E p \in DOMAIN moments : \E k \in DOMAIN moments[p].jobs :
            moments[p].jobs[k] = j /\ (p < jseq \/ (p = jseq /\ k < i))
    BY <1>2 DEF HandedOver
  <2> QED
    BY <1>1, <2>1, <2>2, <2>3
<1>6. HandedOver \subseteq Jobs /\ HandedOver' \subseteq Jobs
  BY DEF HandedOver
<1> QED
  BY <1>1, <1>4, <1>5, <1>6

\* No other action hands a job over: Distributed only moves on to the next
\* moment when the last job of this one was enqueued.
LEMMA NothingHandedOver ==
  ASSUME Typed,
         SimulatorStep \/ StartDistribute \/ Distributed \/ NoMomentDue \/ Schedule
  PROVE  HandedOver' = HandedOver
<1>1. CASE SimulatorStep
  <2>1. /\ UNCHANGED <<moments, jseq>>
        /\ pc # "enqueue" /\ pc' # "enqueue"
    BY <1>1, SimulatorFrame, SimulatorMovesNone DEF Typed, datasetVars
  <2> QED
    BY <2>1 DEF HandedOver
<1>2. CASE NoMomentDue \/ Schedule
  <2>1. /\ UNCHANGED <<moments, jseq>>
        /\ pc # "enqueue" /\ pc' # "enqueue"
    BY <1>2 DEF NoMomentDue, Schedule, StartWalk, NoNodeFits, Allocate, QueueWalked,
                Visit, StepStarts, BackfillFrame, datasetVars
  <2> QED
    BY <2>1 DEF HandedOver
<1>3. CASE StartDistribute
  <2>1. /\ UNCHANGED <<moments, jseq>>
        /\ pc = "distribute" /\ pc' = "enqueue" /\ i' = 1
    BY <1>3 DEF StartDistribute, BackfillFrame
  <2>2. \A p \in DOMAIN moments : \A k \in DOMAIN moments[p].jobs : ~(k < 1)
    BY MomentTimes DEF Typed
  <2> QED
    BY <2>1, <2>2 DEF HandedOver
<1>4. CASE Distributed
  <2>1. /\ moments' = moments /\ jseq' = jseq + 1
        /\ pc = "enqueue" /\ pc' = "schedule" /\ i > Len(moments[jseq].jobs)
    BY <1>4 DEF Distributed, BackfillFrame
  <2>2. ASSUME NEW p \in DOMAIN moments, NEW k \in DOMAIN moments[p].jobs
        PROVE  p < jseq + 1 <=> p < jseq \/ (p = jseq /\ k < i)
    <3>1. p \in Nat /\ jseq \in Nat /\ k \in 1..Len(moments[p].jobs) /\ i \in Nat
      BY <2>2, MomentTimes DEF Typed
    <3>2. Len(moments[p].jobs) \in Nat
      BY <2>2, MomentTimes DEF Typed
    <3> QED
      BY <2>1, <3>1, <3>2
  <2> QED
    BY <2>1, <2>2 DEF HandedOver
<1> QED
  BY <1>1, <1>2, <1>3, <1>4

\* Enqueue links a job into the chain that was not in it.
LEMMA EnqueueKeepsWhole ==
  ASSUME Typed, LoadedMoments, WholeInv, Enqueue
  PROVE  WholeInv'
<1>1. PICK at \in 1..(Len(queue) + 1) : Inserted(queue', at, ToEnqueue)
  BY EnqueueInserts
<1>2. /\ ToEnqueue \in Jobs /\ ToEnqueue \notin HandedOver
      /\ HandedOver' = HandedOver \cup {ToEnqueue}
  BY EnqueuedJob, EnqueueHandsOver
<1>3. /\ UNCHANGED <<assigned_node, is_done>>
      /\ assigned_node[ToEnqueue] = NULL
  BY <1>2 DEF Enqueue, BackfillFrame, nodeVars, jobVars, WholeInv, StartedWereHanded
<1>4. queue \in Seq(Jobs) /\ Len(queue) \in Nat
  BY DEF Typed
<1>5. ToEnqueue \notin Queued
  BY <1>2 DEF WholeInv, QueueIsWhole
<1>6. ASSUME NEW p \in DOMAIN queue'
      PROVE  /\ p < at => p \in DOMAIN queue /\ queue'[p] = queue[p]
             /\ p = at => queue'[p] = ToEnqueue
             /\ p > at => p - 1 \in DOMAIN queue /\ queue'[p] = queue[p - 1]
             /\ p \in Nat /\ at \in Nat
  <2>1. p \in 1..(Len(queue) + 1)
    BY <1>1 DEF Inserted
  <2>2. DOMAIN queue = 1..Len(queue)
    BY <1>4
  <2> QED
    BY <1>1, <1>4, <2>1, <2>2 DEF Inserted
<1>7. ASSUME NEW p \in DOMAIN queue', NEW q \in DOMAIN queue', queue'[p] = queue'[q]
      PROVE  p = q
  <2>1. \A r \in DOMAIN queue : queue[r] # ToEnqueue
    BY <1>5 DEF Queued
  <2>2. \A r, s \in DOMAIN queue : queue[r] = queue[s] => r = s
    BY DEF WholeInv, QueueIsWhole
  <2>3. p \in Nat /\ q \in Nat /\ at \in Nat
    BY <1>6
  <2>4. p = at <=> q = at
    BY <1>6, <1>7, <2>1, <2>3
  <2>5. CASE p # at /\ q # at
    <3>1. CASE p < at /\ q < at
      BY <1>6, <1>7, <2>2, <3>1
    <3>2. CASE p < at /\ q > at
      <4>1. p = q - 1
        BY <1>6, <1>7, <2>2, <3>2
      <4> QED
        BY <2>3, <3>2, <4>1
    <3>3. CASE p > at /\ q < at
      <4>1. p - 1 = q
        BY <1>6, <1>7, <2>2, <3>3
      <4> QED
        BY <2>3, <3>3, <4>1
    <3>4. CASE p > at /\ q > at
      <4>1. p - 1 = q - 1
        BY <1>6, <1>7, <2>2, <3>4
      <4> QED
        BY <2>3, <4>1
    <3> QED
      BY <2>3, <2>5, <3>1, <3>2, <3>3, <3>4
  <2> QED
    BY <2>4, <2>5
<1>8. Queued' = Queued \cup {ToEnqueue}
  <2>1. ASSUME NEW p \in DOMAIN queue' PROVE queue'[p] \in Queued \cup {ToEnqueue}
    <3>1. p < at \/ p = at \/ p > at
      BY <1>6
    <3> QED
      BY <1>6, <3>1 DEF Queued
  <2>2. ASSUME NEW r \in DOMAIN queue PROVE queue[r] \in Queued'
    <3>1. r \in 1..Len(queue)
      BY <1>4
    <3>2. CASE r < at
      <4>1. r \in DOMAIN queue' /\ queue'[r] = queue[r]
        BY <1>1, <1>4, <3>1, <3>2 DEF Inserted
      <4> QED
        BY <4>1 DEF Queued
    <3>3. CASE ~(r < at)
      <4> DEFINE s == r + 1
      <4>1. s \in 1..(Len(queue) + 1) /\ ~(s < at) /\ s # at /\ s - 1 = r
        BY <1>4, <3>1, <3>3
      <4> HIDE DEF s
      <4>2. s \in DOMAIN queue' /\ queue'[s] = queue[r]
        BY <1>1, <4>1 DEF Inserted
      <4> QED
        BY <4>2 DEF Queued
    <3> QED
      BY <3>2, <3>3
  <2>3. at \in DOMAIN queue' /\ queue'[at] = ToEnqueue
    BY <1>1 DEF Inserted
  <2> QED
    BY <2>1, <2>2, <2>3 DEF Queued
<1>9. QueueIsWhole'
  BY <1>2, <1>3, <1>7, <1>8 DEF WholeInv, QueueIsWhole
<1>10. StartedWereHanded'
  BY <1>2, <1>3 DEF WholeInv, StartedWereHanded
<1> QED
  BY <1>9, <1>10 DEF WholeInv

\* A job leaves the chain exactly when it starts.
LEMMA AllocateKeepsWhole ==
  ASSUME Typed, WholeInv, NEW n \in Nodes, Allocate(n)
  PROVE  WholeInv'
<1> DEFINE j == queue[i]
<1>1. /\ i \in DOMAIN queue /\ j \in Jobs
      /\ PutJobToNode(j, n)
      /\ \A k \in 1..(Len(queue) - 1) :
           queue'[k] = IF k < i THEN queue[k] ELSE queue[k + 1]
      /\ queue \in Seq(Jobs) /\ queue' \in Seq(Jobs) /\ Len(queue') = Len(queue) - 1
  BY Allocated DEF Typed
<1>2. is_done' = is_done /\ HandedOver' = HandedOver
  BY NothingHandedOver DEF Schedule, Allocate, Visit, BackfillFrame, jobVars
<1>3. j \in HandedOver /\ assigned_node[j] = NULL
  BY <1>1 DEF WholeInv, QueueIsWhole, Queued
<1>4. /\ assigned_node \in [Jobs -> Nodes \cup {NULL}]
      /\ assigned_node' = [assigned_node EXCEPT ![j] = n]
  BY <1>1, <1>3 DEF PutJobToNode, Typed, ClusterTypeOK, NodeTypeOK
<1>5. DOMAIN queue = 1..Len(queue) /\ DOMAIN queue' = 1..(Len(queue) - 1)
      /\ i \in 1..Len(queue) /\ Len(queue) \in Nat
  BY <1>1
<1>6. ASSUME NEW p \in DOMAIN queue'
      PROVE  /\ p < i => p \in DOMAIN queue /\ queue'[p] = queue[p]
             /\ ~(p < i) => p + 1 \in DOMAIN queue /\ queue'[p] = queue[p + 1]
             /\ p \in Nat /\ i \in Nat
  BY <1>1, <1>5
<1>7. \A p, q \in DOMAIN queue : queue[p] = queue[q] => p = q
  BY DEF WholeInv, QueueIsWhole
<1>8. ASSUME NEW p \in DOMAIN queue', NEW q \in DOMAIN queue', queue'[p] = queue'[q]
      PROVE  p = q
  <2>1. p \in Nat /\ q \in Nat /\ i \in Nat
    BY <1>6
  <2>2. CASE p < i /\ q < i
    BY <1>6, <1>7, <1>8, <2>2
  <2>3. CASE p < i /\ ~(q < i)
    <3>1. p = q + 1
      BY <1>6, <1>7, <1>8, <2>3
    <3> QED
      BY <2>1, <2>3, <3>1
  <2>4. CASE ~(p < i) /\ q < i
    <3>1. p + 1 = q
      BY <1>6, <1>7, <1>8, <2>4
    <3> QED
      BY <2>1, <2>4, <3>1
  <2>5. CASE ~(p < i) /\ ~(q < i)
    <3>1. p + 1 = q + 1
      BY <1>6, <1>7, <1>8, <2>5
    <3> QED
      BY <2>1, <3>1
  <2> QED
    BY <2>2, <2>3, <2>4, <2>5
<1>9. Queued' = Queued \ {j}
  <2>1. ASSUME NEW p \in DOMAIN queue' PROVE queue'[p] \in Queued \ {j}
    <3>1. CASE p < i
      BY <1>1, <1>6, <1>7, <3>1 DEF Queued
    <3>2. CASE ~(p < i)
      <4>1. p + 1 \in DOMAIN queue /\ queue'[p] = queue[p + 1] /\ p + 1 # i
        BY <1>6, <3>2
      <4> QED
        BY <1>1, <1>7, <4>1 DEF Queued
    <3> QED
      BY <3>1, <3>2
  <2>2. ASSUME NEW r \in DOMAIN queue, queue[r] # j PROVE queue[r] \in Queued'
    <3>1. r \in 1..Len(queue) /\ r # i
      BY <1>5, <2>2
    <3>2. CASE r < i
      <4>1. r \in DOMAIN queue' /\ queue'[r] = queue[r]
        BY <1>1, <1>5, <3>1, <3>2
      <4> QED
        BY <4>1 DEF Queued
    <3>3. CASE ~(r < i)
      <4> DEFINE s == r - 1
      <4>1. s \in 1..(Len(queue) - 1) /\ ~(s < i) /\ s + 1 = r
        BY <1>5, <3>1, <3>3
      <4> HIDE DEF s
      <4>2. s \in DOMAIN queue' /\ queue'[s] = queue[r]
        BY <1>1, <1>5, <4>1
      <4> QED
        BY <4>2 DEF Queued
    <3> QED
      BY <3>2, <3>3
  <2> QED
    BY <2>1, <2>2 DEF Queued
<1> HIDE DEF j
<1>10. QueueIsWhole'
  <2>1. \A k \in Queued' : k \in HandedOver' /\ assigned_node'[k] = NULL
    <3>1. Queued \subseteq Jobs
      BY <1>1 DEF Queued
    <3> QED
      BY <1>2, <1>4, <1>9, <3>1 DEF WholeInv, QueueIsWhole
  <2>2. ASSUME NEW k \in HandedOver'
        PROVE  k \in Queued' \/ is_done'[k] \/ assigned_node'[k] # NULL
    <3>1. k \in HandedOver /\ k \in Jobs
      BY <1>2, <2>2 DEF HandedOver
    <3>2. k \in Queued \/ is_done[k] \/ assigned_node[k] # NULL
      BY <3>1 DEF WholeInv, QueueIsWhole
    <3> QED
      BY <1>1, <1>2, <1>4, <1>9, <3>1, <3>2, NullNotNode
  <2> QED
    BY <1>8, <2>1, <2>2 DEF QueueIsWhole
<1>11. StartedWereHanded'
  BY <1>1, <1>2, <1>3, <1>4 DEF WholeInv, StartedWereHanded
<1> QED
  BY <1>10, <1>11 DEF WholeInv

\* Before the first job is handed over the chain is empty and the nodes are.
LEMMA WholeAtStart ==
  ASSUME Init, Typed
  PROVE  WholeInv
<1>1. HandedOver = {}
  BY MomentTimes DEF Init, ClusterInit, HandedOver, Typed
<1>2. Queued = {} /\ DOMAIN queue = {}
  BY DEF Init, Queued
<1>3. \A j \in Jobs : assigned_node[j] = NULL
  BY DEF Init, ClusterInit, NodeInit
<1> QED
  BY <1>1, <1>2, <1>3 DEF WholeInv, QueueIsWhole, StartedWereHanded

\* Every step keeps the chain whole: the simulator ends jobs that are on a
\* node or in the chain, and the scheduler links and unlinks one at a time.
LEMMA WholeStep ==
  ASSUME Typed, LoadedMoments, WholeInv, [Next]_vars
  PROVE  WholeInv'
<1>1. CASE SimulatorStep /\ UNCHANGED backfillVars
  <2>1. /\ HandedOver' = HandedOver /\ queue' = queue /\ Queued' = Queued
        /\ HandedOver \subseteq Jobs
    BY <1>1, NothingHandedOver DEF backfillVars, Queued, HandedOver
  <2>2. \A j \in Jobs : /\ assigned_node'[j] \in {assigned_node[j], NULL}
                        /\ assigned_node'[j] # assigned_node[j] => is_done'[j]
                        /\ is_done[j] => is_done'[j]
    BY <1>1, SimulatorMovesNone DEF Typed
  <2>3. QueueIsWhole'
    <3>1. \A j \in Queued : j \in HandedOver /\ assigned_node'[j] = NULL
      BY <2>1, <2>2 DEF WholeInv, QueueIsWhole
    <3>2. \A j \in HandedOver :
            j \in Queued \/ is_done'[j] \/ assigned_node'[j] # NULL
      BY <2>1, <2>2 DEF WholeInv, QueueIsWhole
    <3> QED
      BY <2>1, <3>1, <3>2 DEF WholeInv, QueueIsWhole
  <2>4. StartedWereHanded'
    BY <2>1, <2>2 DEF WholeInv, StartedWereHanded
  <2> QED
    BY <2>3, <2>4 DEF WholeInv
<1>2. CASE /\ UNCHANGED <<queue, nodeVars, jobVars>>
           /\ HandedOver' = HandedOver
  BY <1>2 DEF WholeInv, QueueIsWhole, StartedWereHanded, Queued, nodeVars, jobVars
<1>3. CASE StartDistribute \/ Distributed \/ (NoMomentDue /\ UNCHANGED backfillVars)
  BY <1>2, <1>3, NothingHandedOver DEF StartDistribute, Distributed, NoMomentDue,
       BackfillFrame, backfillVars
<1>4. CASE Enqueue
  BY <1>4, EnqueueKeepsWhole
<1>5. CASE StartWalk \/ NoNodeFits \/ QueueWalked
  BY <1>2, <1>5, NothingHandedOver DEF Schedule, StartWalk, NoNodeFits, QueueWalked,
       Visit, BackfillFrame, backfillVars
<1>6. ASSUME NEW n \in Nodes, Allocate(n)
      PROVE  WholeInv'
  BY <1>6, AllocateKeepsWhole
<1>7. CASE UNCHANGED vars
  <2>1. HandedOver' = HandedOver
    BY <1>7 DEF vars, clusterVars, datasetVars, backfillVars, HandedOver
  <2> QED
    BY <1>2, <1>7, <2>1 DEF vars, clusterVars, backfillVars
<1> QED
  BY <1>1, <1>3, <1>4, <1>5, <1>6, <1>7 DEF Next, Distribute, Schedule

\* The same as an invariant of all runs: the queue is whole, and only jobs
\* that were handed over are on nodes.
LEMMA QueueInvariant == Spec => []WholeInv
<1>1. Init /\ Typed => WholeInv
  BY WholeAtStart
<1>2. Typed /\ LoadedMoments /\ WholeInv /\ [Next]_vars => WholeInv'
  BY WholeStep
<1> QED
  BY <1>1, <1>2, BackfillTypeCorrect, PTL DEF Spec

\* Insertion and removal keep the chain of sched_info whole: no job is in it
\* twice or beside a node, and none that was handed over drops out of it
\* before it starts or ends (schedule_backfill.c).
THEOREM BackfillKeepsQueueWhole == Spec => []QueueIsWhole
<1>1. WholeInv => QueueIsWhole
  BY DEF WholeInv
<1> QED
  BY <1>1, QueueInvariant, PTL

-----------------------------------------------------------------------------
\* A queued job that the walk has passed fits no node.
WalkLeavesNone ==
  pc = "visit" =>
    \A p \in DOMAIN queue : p < i => \A n \in Nodes : ~CheckNodeForJob(queue[p], n)

\* When schedule_backfill returns no queued job fits any node: one walk is
\* enough, for putting a job makes no room for one that was passed over.
THEOREM BackfillConservesWork == Spec => []WorkConserving
<1>1. Init => WalkLeavesNone
  BY DEF Init, ClusterInit, WalkLeavesNone
<1>2. Typed /\ WalkLeavesNone /\ [Next]_vars => WalkLeavesNone'
  <2> SUFFICES ASSUME Typed, WalkLeavesNone, [Next]_vars PROVE WalkLeavesNone'
    OBVIOUS
  <2>1. CASE pc' # "visit"
    BY <2>1 DEF WalkLeavesNone
  <2>2. CASE SimulatorStep \/ Distribute \/ QueueWalked
    <3>1. pc' # "visit"
      BY <2>2, SimulatorFrame DEF Distribute, StartDistribute, Enqueue, Distributed,
           NoMomentDue, QueueWalked, StepStarts, BackfillFrame
    <3> QED
      BY <2>1, <3>1
  <2>3. CASE StartWalk
    <3>1. i' = 1 /\ queue' = queue /\ \A p \in DOMAIN queue : ~(p < 1)
      BY <2>3 DEF StartWalk, Typed
    <3> QED
      BY <3>1 DEF WalkLeavesNone
  <2>4. CASE NoNodeFits
    <3>1. /\ pc = "visit" /\ i' = i + 1
          /\ UNCHANGED <<queue, job, nodeVars>>
          /\ \A n \in Nodes : ~CheckNodeForJob(queue[i], n)
      BY <2>4 DEF NoNodeFits, Visit
    <3>2. \A p \in DOMAIN queue : p < i + 1 => p < i \/ p = i
      BY DEF Typed
    <3>3. ASSUME NEW p \in DOMAIN queue, p < i + 1, NEW n \in Nodes
          PROVE  ~CheckNodeForJob(queue[p], n)
      BY <3>1, <3>2, <3>3 DEF WalkLeavesNone
    <3> QED
      BY <3>1, <3>3 DEF WalkLeavesNone, CheckNodeForJob, HasAvailableThreads, FreeMem,
                        CpuThreads, nodeVars
  <2>5. ASSUME NEW m \in Nodes, Allocate(m)
        PROVE  WalkLeavesNone'
    <3>1. /\ pc = "visit" /\ i' = i /\ job' = job /\ NodeTypeOK
          /\ queue[i] \in Jobs /\ CheckNodeForJob(queue[i], m) /\ PutJobToNode(queue[i], m)
      BY <2>5, Allocated DEF Typed, ClusterTypeOK
    <3>2. ASSUME NEW p \in DOMAIN queue', p < i
          PROVE  p \in DOMAIN queue /\ queue'[p] = queue[p] /\ queue[p] \in Jobs
      <4>1. /\ queue' \in Seq(Jobs) /\ queue \in Seq(Jobs) /\ Len(queue') = Len(queue) - 1
            /\ \A k \in 1..(Len(queue) - 1) :
                 queue'[k] = IF k < i THEN queue[k] ELSE queue[k + 1]
        BY <2>5, Allocated DEF Typed
      <4>2. p \in 1..(Len(queue) - 1) /\ p \in 1..Len(queue)
        BY <3>2, <4>1
      <4> QED
        BY <3>2, <4>1, <4>2
    <3>3. ASSUME NEW p \in DOMAIN queue', p < i, NEW n \in Nodes
          PROVE  ~CheckNodeForJob(queue[p], n)'
      <4>1. ~CheckNodeForJob(queue[p], n)
        BY <3>1, <3>2, <3>3 DEF WalkLeavesNone
      <4>2. queue[p] \in Jobs /\ queue'[p] = queue[p]
        BY <3>2, <3>3
      <4> DEFINE k == queue[p]
      <4>3. CheckNodeForJob(k, n)' => CheckNodeForJob(k, n)
        <5> SUFFICES ASSUME NEW h \in Jobs, CheckNodeForJob(h, n)'
                     PROVE  CheckNodeForJob(h, n)
          BY <4>2 DEF CheckNodeForJob, HasAvailableThreads, FreeMem, CpuThreads
        <5> QED
          BY <3>1, PutMakesNoRoom
      <4> QED
        BY <4>1, <4>3
    <3> QED
      BY <3>1, <3>2, <3>3 DEF WalkLeavesNone
  <2>6. CASE UNCHANGED vars
    BY <2>6 DEF vars, clusterVars, datasetVars, nodeVars, backfillVars, WalkLeavesNone,
                CheckNodeForJob, HasAvailableThreads, FreeMem, CpuThreads
  <2> QED
    BY <2>2, <2>3, <2>4, <2>5, <2>6 DEF Next, Schedule
<1>3. Typed /\ WalkLeavesNone => WorkConserving
  <2> SUFFICES ASSUME Typed, WalkLeavesNone, pc = "visit", i > Len(queue),
                      NEW p \in DOMAIN queue, NEW n \in Nodes
               PROVE  ~CheckNodeForJob(queue[p], n)
    BY DEF WorkConserving, Queued
  <2>1. p < i
    BY DEF Typed
  <2> QED
    BY <2>1 DEF WalkLeavesNone
<1> QED
  BY <1>1, <1>2, <1>3, BackfillTypeCorrect, PTL DEF Spec
-----------------------------------------------------------------------------
\* Folding changes one job, which is on no node, and none of its demands: not
\* the memory, not the threads in all, not the time it can wait.
LEMMA EnqueueFolds ==
  ASSUME Typed, LoadedMoments, WholeInv, Enqueue
  PROVE  /\ UNCHANGED <<nodeVars, jobVars>>
         /\ \A j \in Jobs : assigned_node[j] # NULL => job'[j] = job[j]
         /\ \A j \in Jobs : ThreadsOf(j)' = ThreadsOf(j)
         /\ \A j \in Jobs : job'[j].mem_size = job[j].mem_size
         /\ \A j \in Jobs : job'[j].max_wait_time = job[j].max_wait_time
<1> SUFFICES ASSUME NEW j \in Jobs, j = ToEnqueue
             PROVE  /\ UNCHANGED <<nodeVars, jobVars>>
                    /\ \A k \in Jobs : assigned_node[k] # NULL => job'[k] = job[k]
                    /\ \A k \in Jobs : ThreadsOf(k)' = ThreadsOf(k)
                    /\ \A k \in Jobs : job'[k].mem_size = job[k].mem_size
                    /\ \A k \in Jobs : job'[k].max_wait_time = job[k].max_wait_time
  BY EnqueuedJob
<1>1. /\ job \in [Jobs -> JobType] /\ NodeTypeOK
      /\ job' = [job EXCEPT ![j] = FoldCores(j)]
  BY DEF Enqueue, ToEnqueue, Typed, ClusterTypeOK, NodeTypeOK
<1>2. assigned_node[j] = NULL
  BY <1>1, EnqueueHandsOver DEF WholeInv, StartedWereHanded
<1>3. UNCHANGED <<nodeVars, jobVars>>
  BY DEF Enqueue, BackfillFrame
<1>4. /\ job'[j] \in JobType
      /\ job'[j].mem_size = job[j].mem_size
      /\ job'[j].max_wait_time = job[j].max_wait_time
      /\ job'[j].cpu_count = 0
      /\ job'[j].thread_count = ThreadsOf(j)
  BY <1>1, FoldedFields
<1>5. \A k \in Jobs \ {j} : job'[k] = job[k]
  BY <1>1
<1>6. ThreadsOf(j)' = ThreadsOf(j)
  <2>1. ThreadsOf(j)' = 1 * job'[j].thread_count
    BY <1>4 DEF ThreadsOf, Unit, Want
  <2>2. job'[j].thread_count \in Nat
    BY <1>4 DEF JobType
  <2> QED
    BY <1>4, <2>1, <2>2
<1>7. \A k \in Jobs \ {j} : ThreadsOf(k)' = ThreadsOf(k)
  BY <1>5 DEF ThreadsOf, Unit, Want
<1> QED
  BY <1>1, <1>2, <1>3, <1>4, <1>5, <1>6, <1>7

\* Folding cores into threads changes no job's demand, and no job that is on
\* a node: what cluster_remove_job_from_node gives back is what
\* cluster_put_job_to_node took, though the job was rewritten in between
\* loading and starting (schedule_backfill.c).
THEOREM BackfillFoldsSafely == Spec => FoldKeepsDemand
<1> DEFINE Kept == \A j \in Jobs :
             /\ ThreadsOf(j)' = ThreadsOf(j)
             /\ assigned_node[j] # NULL => job'[j] = job[j]
<1>1. Typed /\ LoadedMoments /\ WholeInv /\ [Next]_vars => [Kept]_vars
  <2> SUFFICES ASSUME Typed, LoadedMoments, WholeInv, Next PROVE Kept
    OBVIOUS
  <2>1. CASE UNCHANGED job
    BY <2>1 DEF ThreadsOf, Unit, Want
  <2>2. CASE Enqueue
    BY <2>2, EnqueueFolds
  <2>3. CASE SimulatorStep
    BY <2>1, <2>3, SimulatorMovesNone DEF Typed, datasetVars
  <2> QED
    BY <2>1, <2>2, <2>3, BackfillActs DEF Next
<1> QED
  BY <1>1, BackfillTypeCorrect, QueueInvariant, PTL DEF Spec, FoldKeepsDemand

-----------------------------------------------------------------------------
\* However jobs come, are folded, put and end, every node's memory balances
\* and no node promises more threads than it has.
THEOREM BackfillKeepsNodesExact == Spec => [](MemoryExact /\ NeverOvercommitted)
<1>1. Init => Accounts
  BY ClusterStartsTyped, ClusterStartsBalanced DEF Init
<1>2. Typed /\ LoadedMoments /\ WholeInv /\ Accounts /\ [Next]_vars => Accounts'
  <2> SUFFICES ASSUME Typed, LoadedMoments, WholeInv, Accounts, [Next]_vars
               PROVE  Accounts'
    OBVIOUS
  <2>1. CASE SimulatorStep
    BY <2>1, SimulatorKeepsAccounts DEF Typed
  <2>2. CASE UNCHANGED <<job, assigned_node, occupation>>
    BY <2>2, AccountsFrame
  <2>3. CASE Enqueue
    <3>1. /\ UNCHANGED <<assigned_node, occupation>>
          /\ [j \in Jobs |-> job[j].mem_size]' = [j \in Jobs |-> job[j].mem_size]
          /\ [j \in Jobs |-> ThreadsOf(j)]' = [j \in Jobs |-> ThreadsOf(j)]
      BY <2>3, EnqueueFolds DEF nodeVars
    <3> QED
      BY <3>1 DEF Accounts, MemoryExact, NeverOvercommitted, FreeMem, CpuThreads, JobsOn
  <2>4. ASSUME NEW n \in Nodes, Allocate(n)
        PROVE  Accounts'
    BY <2>4, Allocated, PutKeepsMemory, PutOvercommitsNone
      DEF Accounts, Typed, ClusterTypeOK
  <2> QED
    BY <2>1, <2>2, <2>3, <2>4, BackfillActs DEF Next, vars, clusterVars, nodeVars,
         datasetVars
<1>3. Accounts => MemoryExact /\ NeverOvercommitted
  BY DEF Accounts
<1> QED
  BY <1>1, <1>2, <1>3, BackfillTypeCorrect, QueueInvariant, PTL DEF Spec

\* The counters that end the loop of simulate.c:30 are exact under backfill
\* too, although it may put a job that is done.
THEOREM BackfillCountsExactly == Spec => []CountsExact
<1>1. Init => CountsExact
  BY ClusterStartsCounted DEF Init
<1>2. Typed /\ CountsExact /\ [Next]_vars => CountsExact'
  <2> SUFFICES ASSUME Typed, CountsExact, [Next]_vars PROVE CountsExact'
    OBVIOUS
  <2>1. CASE SimulatorStep
    BY <2>1, SimulatorKeepsCounts DEF Typed
  <2>2. CASE UNCHANGED <<is_done, is_complete, jobs_done, jobs_complete>>
    BY <2>2 DEF CountsExact
  <2> QED
    BY <2>1, <2>2, BackfillActs DEF Next, vars, clusterVars, jobVars, statVars
<1> QED
  BY <1>1, <1>2, BackfillTypeCorrect, PTL DEF Spec

\* No job that has not started waits for max_wait_time ticks, folded or not.
THEOREM BackfillBoundsWaits == Spec => []WaitBound
<1>1. Init => WaitBound
  BY DEF Init, ClusterInit, NodeInit, WaitBound
<1>2. Typed /\ LoadedMoments /\ WholeInv /\ WaitBound /\ [Next]_vars => WaitBound'
  <2> SUFFICES ASSUME Typed, LoadedMoments, WholeInv, WaitBound, [Next]_vars
               PROVE  WaitBound'
    OBVIOUS
  <2>1. CASE SimulatorStep
    BY <2>1, SimulatorKeepsWaitBound DEF Typed
  <2>2. CASE UNCHANGED <<job, nodeVars, jobVars>>
    BY <2>2 DEF WaitBound, nodeVars, jobVars
  <2>3. CASE Enqueue
    BY <2>3, EnqueueFolds DEF WaitBound, nodeVars, jobVars
  <2>4. ASSUME NEW n \in Nodes, Allocate(n)
        PROVE  WaitBound'
    <3>1. UNCHANGED <<job, jobVars>>
      BY <2>4, Allocated, BackfillActs DEF Schedule
    <3> QED
      BY <2>4, <3>1, Allocated, PutKeepsWaitBound DEF Typed
  <2> QED
    BY <2>1, <2>2, <2>3, <2>4, BackfillActs DEF Next, vars, clusterVars, datasetVars
<1> QED
  BY <1>1, <1>2, BackfillTypeCorrect, QueueInvariant, PTL DEF Spec

\* With a dataset whose moments ascend a job that is not done has waited one
\* tick for every tick since its moment: what _place_by_wait_time sorts by is
\* the age of the jobs.
THEOREM BackfillCountsEveryTick ==
  ASSUME AscendingDatasets PROVE Spec => []WaitIsAge
<1>1. LoadedMoments => Ascending /\ EachJobOnce(moments)
  BY LoadedFacts DEF LoadedMoments, AscendingDatasets, Ascending
<1>2. Init /\ Typed => AgeInv
  BY ClusterStartsYoung DEF Init, Typed
<1>3. /\ Typed /\ Ascending /\ EachJobOnce(moments)
      /\ AgeInv /\ [Next]_vars
      => AgeInv'
  <2> SUFFICES ASSUME Typed, Ascending, EachJobOnce(moments), AgeInv, [Next]_vars
               PROVE  AgeInv'
    OBVIOUS
  <2>1. CASE SimulatorStep
    BY <2>1, SimulatorKeepsAges DEF Typed
  <2>2. CASE Distribute \/ Schedule
    <3>1. /\ UNCHANGED <<is_done, wait_time, moments, everything_done, t>>
          /\ pc \notin {"moment", "job", "nodes", "end"}
          /\ pc' \notin {"job", "nodes", "end"}
          /\ pc' = "moment" => jm' = 1
      BY <2>2, BackfillActs DEF jobVars
    <3> QED
      BY <3>1, SchedulerKeepsAges DEF Typed
  <2>3. CASE UNCHANGED vars
    BY <2>3, AgeFrame DEF vars
  <2> QED
    BY <2>1, <2>2, <2>3 DEF Next
<1>4. AgeInv => WaitIsAge
  BY AgesAreWaits
<1> QED
  BY <1>1, <1>2, <1>3, <1>4, BackfillTypeCorrect, PTL DEF Spec

\* With such a dataset every job is in the queue in the tick of its moment,
\* although the test of simulate.c:40 is met in that tick or never.
THEOREM BackfillReleasesOnTime ==
  ASSUME AscendingDatasets PROVE Spec => []ReleasedOnTime
<1>1. LoadedMoments => Ascending
  BY DEF LoadedMoments, AscendingDatasets, Ascending
<1>2. Init /\ Typed => DueWereTaken
  BY MomentTimes DEF Init, ClusterInit, DueWereTaken, Handing, Typed
<1>3. Typed /\ Ascending /\ DueWereTaken /\ [Next]_vars => DueWereTaken'
  <2> SUFFICES ASSUME Typed, Ascending, DueWereTaken, [Next]_vars
               PROVE  DueWereTaken'
    OBVIOUS
  <2>1. CASE SimulatorStep
    BY <2>1, SimulatorKeepsDue DEF Typed
  <2>2. CASE Distributed \/ NoMomentDue
    <3>1. /\ pc' = "schedule" /\ UNCHANGED <<moments, t>>
          /\ Distributed => pc = "enqueue" /\ jseq' = jseq + 1
          /\ NoMomentDue => ~MomentDue /\ jseq' = jseq
      BY <2>2 DEF Distributed, NoMomentDue, BackfillFrame, datasetVars
    <3>2. Distributed => MomentDue
      BY <3>1 DEF DueWereTaken, Handing
    <3> QED
      BY <2>2, <3>1, <3>2, TakenInTime DEF Typed
  <2>3. CASE StartDistribute \/ Enqueue
    <3>1. /\ UNCHANGED <<moments, t, jseq>> /\ pc' = "enqueue"
          /\ \/ pc = "distribute" /\ MomentDue
             \/ pc = "enqueue"
      BY <2>3 DEF StartDistribute, Enqueue, BackfillFrame
    <3>2. pc \in {"distribute"} \cup Handing /\ MomentDue /\ pc' \in Handing
      BY <3>1 DEF DueWereTaken, Handing
    <3> QED
      BY <3>1, <3>2, SchedulerKeepsDue DEF Typed
  <2>4. CASE Schedule
    <3>1. /\ UNCHANGED <<moments, t, jseq>>
          /\ pc \in {"schedule", "visit"} /\ pc' \in {"visit", "moment"}
      BY <2>4 DEF Schedule, StartWalk, NoNodeFits, Allocate, QueueWalked, Visit,
                  BackfillFrame, StepStarts
    <3>2. pc \notin {"loop", "distribute", "end"} \cup Handing /\ pc' \notin Handing
      BY <3>1 DEF Handing
    <3> QED
      BY <3>1, <3>2, SchedulerKeepsDue DEF Typed
  <2>5. CASE UNCHANGED vars
    BY <2>5 DEF vars, clusterVars, datasetVars, DueWereTaken, MomentDue
  <2> QED
    BY <2>1, <2>2, <2>3, <2>4, <2>5 DEF Next, Distribute
<1>4. Typed /\ DueWereTaken => ReleasedOnTime
  BY DueIsReleased DEF Typed
<1> QED
  BY <1>1, <1>2, <1>3, <1>4, BackfillTypeCorrect, PTL DEF Spec

\* Backfill neither preempts a job nor moves it, and one that it puts although
\* it has expired does not come off its node either (update_job.c).
THEOREM BackfillNeverPreempts == Spec => [][LeavesByEnding]_vars
<1>1. Typed /\ LoadedMoments /\ [Next]_vars => [LeavesByEnding]_vars
  <2> SUFFICES ASSUME Typed, LoadedMoments, Next PROVE LeavesByEnding
    OBVIOUS
  <2>1. CASE SimulatorStep
    BY <2>1, SimulatorMovesNone DEF Typed, LeavesByEnding
  <2>2. CASE UNCHANGED nodeVars
    BY <2>2 DEF nodeVars, LeavesByEnding
  <2>3. CASE \E n \in Nodes : Allocate(n)
    BY <2>3, Allocated, PutTakesNone, BackfillActs DEF Typed, ClusterTypeOK
  <2> QED
    BY <2>1, <2>2, <2>3, BackfillActs DEF Next
<1> QED
  BY <1>1, BackfillTypeCorrect, PTL DEF Spec

\* At the end of every tick exactly the nodes without memory in use count as
\* stalled (simulation_step.c, update_node.c:37), under this scheduler, too.
THEOREM BackfillStallsIdleNodes == Spec => []StalledNodesAreIdle
<1>1. Init => StalledNodesAreIdle
  BY DEF Init, ClusterInit, StalledNodesAreIdle
<1>2. Typed /\ MemoryExact /\ StalledNodesAreIdle /\ [Next]_vars
        => StalledNodesAreIdle'
  <2> SUFFICES ASSUME Typed, MemoryExact, StalledNodesAreIdle, [Next]_vars
               PROVE  StalledNodesAreIdle'
    OBVIOUS
  <2>1. CASE SimulatorStep
    BY <2>1, SimulatorKeepsStall DEF Typed
  <2>2. CASE Distribute \/ Schedule
    BY <2>2, BackfillActs DEF StalledNodesAreIdle
  <2>3. CASE UNCHANGED vars
    BY <2>3 DEF vars, clusterVars, nodeVars, statVars, datasetVars,
                StalledNodesAreIdle, JobsOn
  <2> QED
    BY <2>1, <2>2, <2>3 DEF Next
<1> QED
  BY <1>1, <1>2, BackfillTypeCorrect, BackfillKeepsNodesExact, PTL DEF Spec
=============================================================================
