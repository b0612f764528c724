------------------------- MODULE SchedFifoTheorems -------------------------
(***************************************************************************)
(* The simulator with FIFO, for every cluster and every loaded dataset.    *)
(***************************************************************************)
EXTENDS SchedFifo, ClusterTheorems

\* The dataset stays what was loaded: FIFO changes no job and no moment.
Loaded == \E d \in Datasets : job = d.job /\ moments = d.moments

\* What is known of a loaded dataset.
LEMMA LoadedFacts ==
  ASSUME Loaded
  PROVE  /\ moments \in Seq(MomentType)
         /\ \A p \in DOMAIN moments : moments[p].jobs # <<>>
         /\ \A p \in DOMAIN moments : moments[p].jobs \in Seq(Jobs)
         /\ EachJobOnce(moments)
<1>1. /\ moments \in Seq(MomentType)
      /\ \A p \in DOMAIN moments : moments[p].jobs # <<>>
      /\ EachJobOnce(moments)
  BY DatasetsAssumption DEF Loaded
<1>2. \A p \in DOMAIN moments : moments[p] \in MomentType
  BY <1>1
<1> QED
  BY <1>1, <1>2 DEF MomentType

\* _pick_node returns a node that the check accepts, if there is one.
LEMMA FirstFit ==
  ASSUME NEW j \in Jobs, \E n \in Nodes : CheckNodeForJob(j, n)
  PROVE  PickNode(j) \in Nodes /\ CheckNodeForJob(j, PickNode(j))
<1> DEFINE fitting == {n \in Nodes : CheckNodeForJob(j, n)}
<1>1. fitting \in SUBSET Nat /\ fitting # {}
  BY NodeAssumption DEF Nodes
<1>2. PICK n \in fitting : \A m \in fitting : n <= m
  BY <1>1, LeastNatural
<1>3. \A m \in 1..(n - 1) : ~CheckNodeForJob(j, m)
  BY <1>2, NodeAssumption DEF Nodes
<1>4. \E k \in Nodes : /\ CheckNodeForJob(j, k)
                       /\ \A m \in 1..(k - 1) : ~CheckNodeForJob(j, m)
  BY <1>2, <1>3
<1> QED
  BY <1>4 DEF PickNode

-----------------------------------------------------------------------------
\* distribute_fifo leaves q->c on a queued job, for no moment is empty.
LEMMA DistributeKeepsType ==
  ASSUME TypeOK, Loaded, Distribute
  PROVE  TypeOK'
<1>1. NodeTypeOK'
  BY NodeFrame DEF Distribute, MomentTaken, NoMomentDue, TypeOK, ClusterTypeOK,
                   datasetVars
<1>2. /\ UNCHANGED <<nodeVars, jobVars, statVars, datasetVars, stepVars, t>>
      /\ pc' = "schedule"
      /\ jseq' \in {jseq, jseq + 1}
  BY DEF Distribute, MomentTaken, NoMomentDue
<1>3. ClusterTypeOK'
  <2>1. jseq' \in Nat \ {0}
    BY <1>2 DEF TypeOK, ClusterTypeOK
  <2> QED
    BY <1>1, <1>2, <2>1 DEF TypeOK, ClusterTypeOK, jobVars, statVars, datasetVars,
                            stepVars
<1>4. queue \in Seq(Jobs) /\ cursor \in 0..Len(queue) /\ c \in 0..Len(queue)
  BY DEF TypeOK
<1>5. CASE NoMomentDue /\ UNCHANGED fifoVars
  BY <1>3, <1>4, <1>5 DEF TypeOK, fifoVars
<1>6. CASE MomentTaken
  <2> DEFINE new == moments[jseq].jobs
  <2>1. jseq \in DOMAIN moments
    BY <1>6, LoadedFacts DEF MomentTaken, MomentDue, TypeOK, ClusterTypeOK
  <2>2. new \in Seq(Jobs) /\ new # <<>>
    BY <2>1, LoadedFacts
  <2>3. queue' = queue \o new /\ c' = c
    BY <1>6 DEF Distribute, MomentTaken, NoMomentDue
  <2>4. cursor' = IF cursor = NULL THEN Len(queue) + 1 ELSE cursor
    BY <1>6 DEF Distribute, MomentTaken, NoMomentDue
  <2>5. queue' \in Seq(Jobs) /\ Len(queue') = Len(queue) + Len(new) /\ Len(new) >= 1
    BY <1>4, <2>2, <2>3
  <2>6. cursor' \in 0..Len(queue') /\ c' \in 0..Len(queue')
    BY <1>4, <2>2, <2>3, <2>4, <2>5 DEF NULL
  <2> QED
    BY <1>3, <2>5, <2>6 DEF TypeOK
<1> QED
  BY <1>5, <1>6 DEF Distribute

\* The actions of schedule_fifo touch the queue's pointers and, when they put
\* a job, the nodes; the jobs' ages and the statistics are not theirs.
LEMMA ScheduleFrame ==
  ASSUME TypeOK, Schedule
  PROVE  /\ UNCHANGED <<jobVars, statVars, datasetVars, everything_done, jl,
                        all_done, t, jseq, queue>>
         /\ UNCHANGED nodeVars \/ PutFirstFit
         /\ pc' \in {"skip", "visit", "moment"}
         /\ jm' \in {jm, 1}
BY DEF Schedule, NothingQueued, StartSkipping, SkipAssigned, StoreCursor, PassOver,
       PutFirstFit, QueueWalked, Visit, FifoFrame, StepStarts, TypeOK, ClusterTypeOK

\* The walk goes from one queued job to the next and ends at the null pointer.
LEMMA FollowingInQueue ==
  ASSUME TypeOK, NEW p \in DOMAIN queue
  PROVE  /\ Following(p) \in 0..Len(queue)
         /\ Following(p) # NULL => Following(p) = p + 1
         /\ Following(p) = NULL => p = Len(queue)
BY DEF Following, NULL, TypeOK

\* A job of the queue is put on a node that has room for it, or stays off.
LEMMA PutFirstFitOnNode ==
  ASSUME TypeOK, PutFirstFit
  PROVE  /\ c \in DOMAIN queue
         /\ queue[c] \in Jobs
         /\ PickNode(queue[c]) \in Nodes
         /\ CheckNodeForJob(queue[c], PickNode(queue[c]))
         /\ PutJobToNode(queue[c], PickNode(queue[c]))
         /\ ~is_done[queue[c]]
<1>1. c \in DOMAIN queue /\ queue[c] \in Jobs
  BY DEF PutFirstFit, Visit, TypeOK, NULL
<1> QED
  BY <1>1, FirstFit DEF PutFirstFit

\* schedule_fifo keeps every field in its type.
LEMMA ScheduleKeepsType ==
  ASSUME TypeOK, Schedule
  PROVE  TypeOK'
<1>1. /\ UNCHANGED <<jobVars, statVars, datasetVars, everything_done, jl,
                     all_done, t, jseq, queue>>
      /\ pc' \in {"skip", "visit", "moment"}
      /\ jm' \in {jm, 1}
  BY ScheduleFrame
<1>2. NodeTypeOK'
  <2>1. CASE UNCHANGED nodeVars
    BY <1>1, <2>1, NodeFrame DEF TypeOK, ClusterTypeOK, datasetVars
  <2>2. CASE PutFirstFit
    <3>1. NodeTypeOK /\ job' = job
      BY <1>1 DEF TypeOK, ClusterTypeOK, datasetVars
    <3> QED
      BY <2>2, <3>1, PutFirstFitOnNode, PutKeepsType
  <2> QED
    BY <2>1, <2>2, ScheduleFrame
<1>3. ClusterTypeOK'
  <2>1. jm' \in Nat \ {0}
    BY <1>1 DEF TypeOK, ClusterTypeOK
  <2> QED
    BY <1>1, <1>2, <2>1 DEF TypeOK, ClusterTypeOK, jobVars, statVars, datasetVars
<1>4. cursor' \in 0..Len(queue) /\ c' \in 0..Len(queue)
  <2>1. cursor \in 0..Len(queue) /\ c \in 0..Len(queue)
    BY DEF TypeOK
  <2>2. CASE StartSkipping \/ StoreCursor \/ NothingQueued \/ QueueWalked
    BY <2>1, <2>2 DEF StartSkipping, StoreCursor, NothingQueued, QueueWalked
  <2>3. CASE SkipAssigned \/ PassOver \/ PutFirstFit
    <3>1. c # NULL /\ c' = Following(c) /\ cursor' = cursor
      BY <2>3 DEF SkipAssigned, PassOver, PutFirstFit, Visit
    <3>2. c \in DOMAIN queue
      BY <2>1, <3>1 DEF TypeOK, NULL
    <3> QED
      BY <2>1, <3>1, <3>2, FollowingInQueue
  <2> QED
    BY <2>2, <2>3 DEF Schedule
<1> QED
  BY <1>1, <1>3, <1>4 DEF TypeOK

-----------------------------------------------------------------------------
\* Every field keeps its type, and q->c and the walk stay inside the queue.
THEOREM FifoTypeCorrect == Spec => [](TypeOK /\ Loaded)
<1>1. Init => TypeOK /\ Loaded
  <2>1. Init => ClusterTypeOK /\ Loaded
    BY ClusterStartsTyped DEF Init, ClusterInit, Loaded
  <2> QED
    BY <2>1 DEF Init, TypeOK, NULL
<1>2. TypeOK /\ Loaded /\ [Next]_vars => TypeOK' /\ Loaded'
  <2> SUFFICES ASSUME TypeOK, Loaded, [Next]_vars
               PROVE  TypeOK' /\ Loaded'
    OBVIOUS
  <2>1. CASE SimulatorStep /\ UNCHANGED fifoVars
    <3>1. ClusterTypeOK' /\ UNCHANGED datasetVars
      BY <2>1, SimulatorKeepsType, SimulatorMovesNone DEF TypeOK
    <3> QED
      BY <2>1, <3>1 DEF TypeOK, Loaded, datasetVars, fifoVars
  <2>2. CASE Distribute
    <3>1. UNCHANGED datasetVars
      BY <2>2 DEF Distribute, MomentTaken, NoMomentDue
    <3> QED
      BY <2>2, <3>1, DistributeKeepsType DEF Loaded, datasetVars
  <2>3. CASE Schedule
    BY <2>3, ScheduleKeepsType, ScheduleFrame DEF Loaded, datasetVars
  <2>4. CASE UNCHANGED vars
    <3>1. NodeTypeOK'
      BY <2>4, NodeFrame DEF vars, clusterVars, TypeOK, ClusterTypeOK, datasetVars
    <3> QED
      BY <2>4, <3>1 DEF vars, clusterVars, TypeOK, ClusterTypeOK, Loaded, jobVars,
                        statVars, datasetVars, stepVars, fifoVars
  <2> QED
    BY <2>1, <2>2, <2>3, <2>4 DEF Next
<1> QED
  BY <1>1, <1>2, PTL DEF Spec

\* What one step of FIFO does to jobs and nodes: a job is put on a node only
\* while it is open, and leaves it only by ending, which is for good.
LEMMA FifoStep ==
  ASSUME TypeOK, Loaded, [Next]_vars, NEW j \in Jobs
  PROVE  /\ is_done[j] => is_done'[j]
         /\ is_done'[j] /\ ~is_done[j] => assigned_node'[j] = NULL
         /\ assigned_node[j] # NULL /\ assigned_node'[j] # assigned_node[j]
              => is_done'[j] /\ assigned_node'[j] = NULL
         /\ assigned_node[j] = NULL /\ assigned_node'[j] # NULL => ~is_done[j]
<1>1. CASE SimulatorStep
  BY <1>1, SimulatorMovesNone DEF TypeOK
<1>2. CASE UNCHANGED <<assigned_node, is_done>>
  BY <1>2
<1>3. CASE Schedule
  <2>1. is_done' = is_done
    BY <1>3, ScheduleFrame DEF jobVars
  <2>2. CASE PutFirstFit
    <3> DEFINE i == queue[c]
    <3>1. i \in Jobs /\ ~is_done[i] /\ PutJobToNode(i, PickNode(i))
      BY <2>2, PutFirstFitOnNode
    <3>2. assigned_node \in [Jobs -> Nodes \cup {NULL}]
      BY DEF TypeOK, ClusterTypeOK, NodeTypeOK
    <3>3. \/ assigned_node' = assigned_node
          \/ /\ assigned_node[i] = NULL
             /\ assigned_node' = [assigned_node EXCEPT ![i] = PickNode(i)]
      BY <3>1 DEF PutJobToNode, nodeVars
    <3> HIDE DEF i
    <3> QED
      BY <2>1, <3>1, <3>2, <3>3
  <2>3. CASE UNCHANGED nodeVars
    BY <2>1, <2>3 DEF nodeVars
  <2> QED
    BY <1>3, <2>2, <2>3, ScheduleFrame
<1> QED
  BY <1>1, <1>2, <1>3 DEF Next, Distribute, MomentTaken, NoMomentDue, vars,
                          clusterVars, nodeVars, jobVars

\* A job that is done is on no node, and is never put on one again.
THEOREM FifoMakesNoZombie == Spec => []NoZombie
<1>1. Init => NoZombie
  BY DEF Init, ClusterInit, NodeInit, NoZombie
<1>2. NoZombie /\ TypeOK /\ Loaded /\ [Next]_vars => NoZombie'
  BY FifoStep DEF NoZombie
<1> QED
  BY <1>1, <1>2, FifoTypeCorrect, PTL DEF Spec

\* FIFO neither preempts a job nor moves it, though it puts jobs that are on
\* a node again and again (schedule_fifo.c:38-45, put_job_to_node.c:20).
THEOREM FifoNeverPreempts == Spec => NeverPreempts
<1> DEFINE LeavesDone == \A j \in Jobs :
             assigned_node[j] # NULL /\ assigned_node'[j] # assigned_node[j]
               => is_done'[j]
<1>1. TypeOK /\ Loaded /\ [Next]_vars => [LeavesDone]_vars
  BY FifoStep
<1> QED
  BY <1>1, FifoTypeCorrect, PTL DEF Spec, NeverPreempts

-----------------------------------------------------------------------------
\* The job at position p of the queue still needs a node.
Waiting(p) == ~is_done[queue[p]] /\ assigned_node[queue[p]] = NULL

\* While c moves over the jobs that are on a node it leaves no other behind.
SkipsNone ==
  pc = "skip" => \A p \in DOMAIN queue : Waiting(p) => c # NULL /\ c <= p

\* While the queue is walked, a job the walk has passed fits no node.
WalkLeavesNone ==
  pc = "visit" =>
    \A p \in DOMAIN queue :
      Waiting(p) /\ (c = NULL \/ p < c)
        => \A n \in Nodes : ~CheckNodeForJob(queue[p], n)

\* A queued job never starts to wait again, and newly queued ones are behind.
LEMMA WaitingShrinks ==
  ASSUME TypeOK, Loaded, [Next]_vars, NEW p \in DOMAIN queue
  PROVE  /\ p \in DOMAIN queue'
         /\ queue'[p] = queue[p]
         /\ Waiting(p)' => Waiting(p)
<1>1. queue[p] \in Jobs
  BY DEF TypeOK
<1>2. p \in DOMAIN queue' /\ queue'[p] = queue[p]
  <2>1. CASE UNCHANGED queue
    BY <2>1
  <2>2. CASE MomentTaken /\ queue' = queue \o moments[jseq].jobs
    <3>1. moments[jseq].jobs \in Seq(Jobs)
      BY <2>2, LoadedFacts DEF MomentTaken, MomentDue, TypeOK, ClusterTypeOK
    <3> QED
      BY <2>2, <3>1 DEF TypeOK
  <2> QED
    BY <2>1, <2>2, ScheduleFrame DEF Next, Distribute, vars, fifoVars
<1> QED
  BY <1>1, <1>2, FifoStep DEF Waiting

\* What Distribute does to the cursor and to the jobs behind the old tail.
LEMMA CursorAfterDistribute ==
  ASSUME TypeOK, Loaded, Distribute, NoJobLost
  PROVE  NoJobLost'
<1> SUFFICES ASSUME NEW p \in DOMAIN queue', Waiting(p)'
             PROVE  cursor' # NULL /\ cursor' <= p
  BY DEF NoJobLost, Waiting
<1>1. queue \in Seq(Jobs) /\ cursor \in 0..Len(queue)
  BY DEF TypeOK
<1>2. p \in DOMAIN queue => Waiting(p)
  BY WaitingShrinks DEF Next
<1>3. CASE NoMomentDue /\ UNCHANGED fifoVars
  BY <1>2, <1>3 DEF fifoVars, NoJobLost, Waiting
<1>4. CASE MomentTaken
  <2>1. moments[jseq].jobs \in Seq(Jobs)
    BY <1>4, LoadedFacts DEF MomentTaken, MomentDue, TypeOK, ClusterTypeOK
  <2>2. /\ queue' = queue \o moments[jseq].jobs
        /\ cursor' = IF cursor = NULL THEN Len(queue) + 1 ELSE cursor
    BY <1>4 DEF Distribute, MomentTaken, NoMomentDue
  <2>3. p \in Nat /\ (p \in DOMAIN queue \/ p > Len(queue))
    BY <1>1, <2>1, <2>2
  <2>4. CASE p \in DOMAIN queue
    BY <1>1, <1>2, <2>2, <2>4 DEF NoJobLost, Waiting
  <2>5. CASE p > Len(queue)
    BY <1>1, <2>2, <2>3, <2>5 DEF NULL
  <2> QED
    BY <2>3, <2>4, <2>5
<1> QED
  BY <1>3, <1>4 DEF Distribute

\* The cursor passes no job that still needs a node, and the walk from it
\* leaves none behind that would fit.
LEMMA WalkStep ==
  ASSUME TypeOK, Loaded, NoJobLost, SkipsNone, WalkLeavesNone, [Next]_vars
  PROVE  NoJobLost' /\ SkipsNone' /\ WalkLeavesNone'
<1>1. CASE UNCHANGED fifoVars /\ pc' \notin {"skip", "visit"}
  <2>1. NoJobLost'
    BY <1>1, WaitingShrinks DEF fifoVars, NoJobLost, Waiting
  <2> QED
    BY <1>1, <2>1 DEF SkipsNone, WalkLeavesNone
<1>2. CASE UNCHANGED vars
  BY <1>2 DEF vars, clusterVars, datasetVars, jobVars, nodeVars, fifoVars,
       NoJobLost, SkipsNone, WalkLeavesNone, Waiting, CheckNodeForJob,
       HasAvailableThreads, FreeMem, CpuThreads
<1>3. CASE Distribute
  <2>1. pc' = "schedule"
    BY <1>3 DEF Distribute, MomentTaken, NoMomentDue
  <2> QED
    BY <1>3, <2>1, CursorAfterDistribute DEF SkipsNone, WalkLeavesNone
<1>4. CASE Schedule
  <2>1. queue' = queue /\ job' = job
    BY <1>4, ScheduleFrame DEF datasetVars
  <2>2. \A p \in DOMAIN queue : Waiting(p)' => Waiting(p)
    BY WaitingShrinks
  <2>3. /\ queue \in Seq(Jobs)
        /\ cursor \in 0..Len(queue)
        /\ c \in 0..Len(queue)
        /\ NodeTypeOK
    BY DEF TypeOK, ClusterTypeOK
  <2>4. CASE StartSkipping
    BY <2>1, <2>2, <2>4 DEF StartSkipping, NoJobLost, SkipsNone, WalkLeavesNone,
                            Waiting
  <2>5. CASE SkipAssigned
    <3>1. /\ pc = "skip" /\ pc' = "skip" /\ cursor' = cursor
          /\ c \in DOMAIN queue
          /\ ~Waiting(c)
          /\ c' = Following(c)
      BY <2>3, <2>5 DEF SkipAssigned, Waiting, NULL
    <3>2. NoJobLost'
      BY <2>1, <2>2, <3>1 DEF NoJobLost, Waiting
    <3>3. ASSUME NEW p \in DOMAIN queue, Waiting(p)'
          PROVE  c' # NULL /\ c' <= p
      <4>1. Waiting(p) /\ c <= p /\ p # c
        BY <2>2, <3>1, <3>3 DEF SkipsNone
      <4> QED
        BY <2>3, <3>1, <4>1, FollowingInQueue
    <3> QED
      BY <2>1, <3>1, <3>2, <3>3 DEF SkipsNone, WalkLeavesNone
  <2>6. CASE StoreCursor
    <3>1. pc = "skip" /\ pc' = "visit" /\ cursor' = c /\ c' = c
      BY <2>6 DEF StoreCursor
    <3>2. \A p \in DOMAIN queue : Waiting(p)' => c # NULL /\ c <= p
      BY <2>2, <3>1 DEF SkipsNone
    <3>3. NoJobLost'
      BY <2>1, <3>1, <3>2 DEF NoJobLost, Waiting
    <3>4. WalkLeavesNone'
      BY <2>1, <2>3, <3>1, <3>2 DEF WalkLeavesNone, Waiting
    <3> QED
      BY <3>1, <3>3, <3>4 DEF SkipsNone
  <2>7. CASE PassOver \/ PutFirstFit
    <3>1. /\ pc = "visit" /\ pc' = "visit" /\ cursor' = cursor
          /\ c \in DOMAIN queue
          /\ c' = Following(c)
      BY <2>3, <2>7 DEF PassOver, PutFirstFit, Visit, NULL
    <3>2. NoJobLost'
      BY <2>1, <2>2, <3>1 DEF NoJobLost, Waiting
    <3>3. \A i \in Jobs, n \in Nodes :
            CheckNodeForJob(i, n)' => CheckNodeForJob(i, n)
      <4>1. CASE PassOver
        BY <2>1, <4>1 DEF PassOver, nodeVars, CheckNodeForJob, HasAvailableThreads,
                          FreeMem, CpuThreads
      <4>2. CASE PutFirstFit
        BY <2>1, <2>3, <4>2, PutFirstFitOnNode, PutMakesNoRoom
      <4> QED
        BY <2>7, <4>1, <4>2
    <3>4. ASSUME NEW p \in DOMAIN queue, p = c, Waiting(p)', NEW n \in Nodes
          PROVE  ~CheckNodeForJob(queue[p], n)
      <4>1. CASE PassOver
        <5>1. ~is_done[queue[p]]
          BY <2>2, <3>4 DEF Waiting
        <5> QED
          BY <3>4, <4>1, <5>1 DEF PassOver
      <4>2. CASE PutFirstFit
        <5>1. queue[p] \in Jobs /\ PickNode(queue[p]) \in Nodes
          BY <3>4, <4>2, PutFirstFitOnNode
        <5>2. assigned_node'[queue[p]] # NULL
          BY <2>3, <3>4, <4>2, <5>1, NullNotNode
            DEF PutFirstFit, PutJobToNode, nodeVars, NodeTypeOK
        <5> QED
          BY <2>1, <3>4, <5>2 DEF Waiting
      <4> QED
        BY <2>7, <4>1, <4>2
    <3>5. ASSUME NEW p \in DOMAIN queue, Waiting(p)', c' = NULL \/ p < c',
                 NEW n \in Nodes
          PROVE  ~CheckNodeForJob(queue[p], n)'
      <4>1. Waiting(p) /\ queue[p] \in Jobs
        BY <2>2, <2>3, <3>5
      <4>2. p < c \/ p = c
        BY <2>3, <3>1, <3>5, FollowingInQueue
      <4>3. ~CheckNodeForJob(queue[p], n)
        BY <3>1, <3>4, <3>5, <4>1, <4>2 DEF WalkLeavesNone
      <4> QED
        BY <2>1, <3>3, <4>1, <4>3
    <3> QED
      BY <2>1, <3>1, <3>2, <3>5 DEF SkipsNone, WalkLeavesNone
  <2>8. CASE NothingQueued \/ QueueWalked
    BY <1>1, <2>1, <2>8 DEF NothingQueued, QueueWalked, StepStarts, fifoVars
  <2> QED
    BY <1>4, <2>4, <2>5, <2>6, <2>7, <2>8 DEF Schedule
<1>5. CASE SimulatorStep /\ UNCHANGED fifoVars
  <2>1. pc' \notin {"skip", "visit"}
    BY <1>5, SimulatorFrame
  <2> QED
    BY <1>1, <1>5, <2>1
<1> QED
  BY <1>2, <1>3, <1>4, <1>5 DEF Next

\* The same as an invariant of all runs.
LEMMA WalkInvariant == Spec => [](NoJobLost /\ SkipsNone /\ WalkLeavesNone)
<1>1. Init => NoJobLost /\ SkipsNone /\ WalkLeavesNone
  BY DEF Init, ClusterInit, NoJobLost, SkipsNone, WalkLeavesNone
<1>2. /\ NoJobLost /\ SkipsNone /\ WalkLeavesNone
      /\ TypeOK /\ Loaded /\ [Next]_vars
      => (NoJobLost /\ SkipsNone /\ WalkLeavesNone)'
  BY WalkStep
<1> QED
  BY <1>1, <1>2, FifoTypeCorrect, PTL DEF Spec

\* No job that needs a node is ever behind q->c, however many jobs have left
\* their nodes since the cursor went over them (schedule_fifo.c:24-30).
THEOREM FifoLosesNoJob == Spec => []NoJobLost
BY WalkInvariant, PTL

\* When schedule_fifo returns, no job of the queue fits any node: one walk is
\* enough because putting a job makes no room for another.
THEOREM FifoConservesWork == Spec => []WorkConserving
<1>1. WalkLeavesNone => WorkConserving
  BY DEF WalkLeavesNone, WorkConserving, Waiting
<1> QED
  BY <1>1, WalkInvariant, PTL

-----------------------------------------------------------------------------
\* Linking a moment's jobs to the tail keeps the queue a list without a job
\* twice: the jobs of a moment are in no moment before it.
LEMMA QueueGrows ==
  ASSUME TypeOK, Loaded, QueueIsDistributed, MomentTaken,
         queue' = queue \o moments[jseq].jobs
  PROVE  QueueIsDistributed'
<1> DEFINE new == moments[jseq].jobs
<1> DEFINE len == Len(queue)
<1>1. jseq \in DOMAIN moments /\ jseq' = jseq + 1 /\ moments' = moments
  BY LoadedFacts DEF MomentTaken, MomentDue, datasetVars, TypeOK, ClusterTypeOK
<1>2. queue \in Seq(Jobs) /\ new \in Seq(Jobs)
  BY <1>1, LoadedFacts DEF TypeOK
<1>3. /\ DOMAIN queue' = 1..(len + Len(new))
      /\ \A q \in DOMAIN queue : q \in DOMAIN queue' /\ queue'[q] = queue[q]
      /\ \A k \in DOMAIN new : len + k \in DOMAIN queue' /\ queue'[len + k] = new[k]
      /\ \A q \in DOMAIN queue' :
           q \in DOMAIN queue \/ \E k \in DOMAIN new : q = len + k
  <2>1. len \in Nat /\ Len(new) \in Nat
    BY <1>2
  <2>2. DOMAIN queue' = 1..(len + Len(new))
    BY <1>2
  <2>3. /\ \A q \in DOMAIN queue : q \in DOMAIN queue' /\ queue'[q] = queue[q]
        /\ \A k \in DOMAIN new : len + k \in DOMAIN queue' /\ queue'[len + k] = new[k]
    <3>1. \A i \in 1..(len + Len(new)) :
            queue'[i] = IF i <= len THEN queue[i] ELSE new[i - len]
      BY <1>2, ConcatProperties
    <3>2. DOMAIN queue = 1..len /\ DOMAIN new = 1..Len(new)
      BY <1>2
    <3>3. ASSUME NEW q \in DOMAIN queue
          PROVE  q \in DOMAIN queue' /\ queue'[q] = queue[q]
      BY <2>1, <2>2, <3>1, <3>2, <3>3
    <3>4. ASSUME NEW k \in DOMAIN new
          PROVE  len + k \in DOMAIN queue' /\ queue'[len + k] = new[k]
      <4> DEFINE i == len + k
      <4>1. i \in 1..(len + Len(new)) /\ ~(i <= len) /\ i - len = k
        BY <2>1, <3>2, <3>4
      <4> HIDE DEF i
      <4>2. i \in DOMAIN queue' /\ queue'[i] = new[k]
        BY <2>2, <3>1, <4>1
      <4> QED
        BY <4>2 DEF i
    <3> QED
      BY <3>3, <3>4
  <2>4. ASSUME NEW q \in DOMAIN queue', q \notin DOMAIN queue
        PROVE  q - len \in DOMAIN new /\ q = len + (q - len)
    BY <1>2, <2>1, <2>2, <2>4
  <2> QED
    BY <2>2, <2>3, <2>4
<1>4. ASSUME NEW q \in DOMAIN queue, NEW k \in DOMAIN new
      PROVE  queue[q] # new[k]
  <2>1. (\E r \in DOMAIN queue : queue[r] = moments[jseq].jobs[k]) => jseq < jseq
    BY <1>1 DEF QueueIsDistributed
  <2>2. jseq \in Nat
    BY DEF TypeOK, ClusterTypeOK
  <2> QED
    BY <2>1, <2>2
<1>5. ASSUME NEW p \in DOMAIN queue', NEW q \in DOMAIN queue',
             queue'[p] = queue'[q]
      PROVE  p = q
  <2>1. CASE p \in DOMAIN queue /\ q \in DOMAIN queue
    BY <1>3, <1>5, <2>1 DEF QueueIsDistributed
  <2>2. CASE p \in DOMAIN queue /\ \E k \in DOMAIN new : q = len + k
    BY <1>3, <1>4, <1>5, <2>2
  <2>3. CASE q \in DOMAIN queue /\ \E k \in DOMAIN new : p = len + k
    BY <1>3, <1>4, <1>5, <2>3
  <2>4. ASSUME NEW k \in DOMAIN new, p = len + k, NEW h \in DOMAIN new, q = len + h
        PROVE  p = q
    <3>1. new[k] = new[h]
      BY <1>3, <1>5, <2>4
    <3> QED
      BY <1>1, <2>4, <3>1, OnePlace, LoadedFacts DEF TypeOK
  <2> QED
    BY <1>3, <2>1, <2>2, <2>3, <2>4
<1>6. ASSUME NEW p \in DOMAIN moments, NEW i \in DOMAIN moments[p].jobs
      PROVE  (\E q \in DOMAIN queue' : queue'[q] = moments[p].jobs[i]) <=> p < jseq + 1
  <2> DEFINE j == moments[p].jobs[i]
  <2>1. (\E q \in DOMAIN queue : queue[q] = j) <=> p < jseq
    BY DEF QueueIsDistributed
  <2>2. (\E k \in DOMAIN new : new[k] = j) <=> p = jseq
    BY <1>1, OnePlace, LoadedFacts DEF TypeOK
  <2>3. (\E q \in DOMAIN queue' : queue'[q] = j)
          <=> (\E q \in DOMAIN queue : queue[q] = j) \/ (\E k \in DOMAIN new : new[k] = j)
    <3> HIDE DEF j, new, len
    <3>1. ASSUME NEW q \in DOMAIN queue', queue'[q] = j
          PROVE  \/ \E r \in DOMAIN queue : queue[r] = j
                 \/ \E k \in DOMAIN new : new[k] = j
      <4>1. CASE q \in DOMAIN queue
        BY <1>3, <3>1, <4>1
      <4>2. ASSUME NEW k \in DOMAIN new, q = len + k
            PROVE  new[k] = j
        BY <1>3, <3>1, <4>2
      <4> QED
        BY <1>3, <4>1, <4>2
    <3>2. ASSUME NEW r \in DOMAIN queue, queue[r] = j
          PROVE  r \in DOMAIN queue' /\ queue'[r] = j
      BY <1>3, <3>2
    <3>3. ASSUME NEW k \in DOMAIN new, new[k] = j
          PROVE  len + k \in DOMAIN queue' /\ queue'[len + k] = j
      BY <1>3, <3>3
    <3> QED
      BY <3>1, <3>2, <3>3
  <2>4. p \in Nat /\ jseq \in Nat
    <3>1. moments \in Seq(MomentType)
      BY LoadedFacts
    <3>2. jseq \in Nat
      BY DEF TypeOK, ClusterTypeOK
    <3> QED
      BY <3>1, <3>2
  <2> HIDE DEF j
  <2> QED
    BY <2>1, <2>2, <2>3, <2>4 DEF j
<1> QED
  BY <1>1, <1>5, <1>6 DEF QueueIsDistributed

\* The queue always holds exactly the jobs handed over so far, each once:
\* linking the moments' chains makes neither a cycle nor a gap
\* (schedule_fifo.c:60-86).
THEOREM FifoQueueIsDistributed == Spec => []QueueIsDistributed
<1>1. Init /\ Loaded => QueueIsDistributed
  <2> SUFFICES ASSUME Init, Loaded,
                      NEW p \in DOMAIN moments, NEW i \in DOMAIN moments[p].jobs
               PROVE  ~(p < jseq)
    BY DEF Init, QueueIsDistributed
  <2> QED
    BY LoadedFacts DEF Init, ClusterInit
<1>2. QueueIsDistributed /\ TypeOK /\ Loaded /\ [Next]_vars => QueueIsDistributed'
  <2> SUFFICES ASSUME QueueIsDistributed, TypeOK, Loaded, [Next]_vars
               PROVE  QueueIsDistributed'
    OBVIOUS
  <2>1. CASE UNCHANGED <<queue, moments, jseq>>
    BY <2>1 DEF QueueIsDistributed
  <2>2. CASE Distribute
    <3>1. CASE MomentTaken /\ queue' = queue \o moments[jseq].jobs
      BY <3>1, QueueGrows
    <3>2. CASE NoMomentDue /\ UNCHANGED fifoVars
      BY <2>1, <3>2 DEF NoMomentDue, fifoVars, datasetVars
    <3> QED
      BY <2>2, <3>1, <3>2 DEF Distribute
  <2>3. CASE Schedule
    BY <2>1, <2>3, ScheduleFrame DEF datasetVars
  <2>4. CASE SimulatorStep /\ UNCHANGED fifoVars
    <3>1. jseq' = jseq
      BY <2>4, SimulatorFrame
    <3> QED
      BY <2>1, <2>4, <3>1, SimulatorMovesNone DEF fifoVars, datasetVars, TypeOK
  <2> QED
    BY <2>1, <2>2, <2>3, <2>4 DEF Next, vars, clusterVars, datasetVars, fifoVars
<1> QED
  BY <1>1, <1>2, FifoTypeCorrect, PTL DEF Spec

-----------------------------------------------------------------------------
\* What distribute_fifo and schedule_fifo leave to the rest of the tick: they
\* count and end no job, and the updates of the tick start after them.
LEMMA SchedulerFrame ==
  ASSUME TypeOK, Distribute \/ Schedule
  PROVE  /\ UNCHANGED <<jobVars, statVars, datasetVars, everything_done, t>>
         /\ UNCHANGED nodeVars \/ PutFirstFit
         /\ pc \in {"distribute", "schedule", "skip", "visit"}
         /\ pc' \in {"schedule", "skip", "visit", "moment"}
         /\ pc' = "moment" => jm' = 1
<1>1. CASE Distribute
  BY <1>1 DEF Distribute, MomentTaken, NoMomentDue, stepVars
<1>2. CASE Schedule
  <2>1. /\ pc \in {"schedule", "skip", "visit"}
        /\ pc' = "moment" => jm' = 1
    BY <1>2 DEF Schedule, NothingQueued, StartSkipping, SkipAssigned, StoreCursor,
         PassOver, PutFirstFit, QueueWalked, Visit, FifoFrame, StepStarts
  <2> QED
    BY <1>2, <2>1, ScheduleFrame
<1> QED
  BY <1>1, <1>2

\* FIFO puts a job only where the check accepts it, so the accounts stay in
\* balance whatever it puts and whatever the tick ends.
LEMMA FifoKeepsAccounts ==
  ASSUME TypeOK, Accounts, [Next]_vars
  PROVE  Accounts'
<1>1. CASE SimulatorStep
  BY <1>1, SimulatorKeepsAccounts DEF TypeOK
<1>2. CASE UNCHANGED <<job, assigned_node, occupation>>
  BY <1>2, AccountsFrame
<1>3. CASE (Distribute \/ Schedule) /\ PutFirstFit
  <2>1. NodeTypeOK /\ job' = job
    BY <1>3, SchedulerFrame DEF TypeOK, ClusterTypeOK, datasetVars
  <2>2. MemoryExact'
    BY <1>3, <2>1, PutFirstFitOnNode, PutKeepsMemory DEF Accounts
  <2>3. NeverOvercommitted'
    BY <1>3, <2>1, PutFirstFitOnNode, PutOvercommitsNone DEF Accounts
  <2> QED
    BY <2>2, <2>3 DEF Accounts
<1> QED
  BY <1>1, <1>2, <1>3, SchedulerFrame DEF Next, vars, clusterVars, nodeVars, datasetVars

\* However jobs come, are put and end, every node's memory balances and no
\* node promises more threads than it has.
THEOREM FifoKeepsNodesExact == Spec => [](MemoryExact /\ NeverOvercommitted)
<1>1. Init => Accounts
  BY ClusterStartsTyped, ClusterStartsBalanced DEF Init
<1>2. TypeOK /\ Accounts /\ [Next]_vars => Accounts'
  BY FifoKeepsAccounts
<1>3. Accounts => MemoryExact /\ NeverOvercommitted
  BY DEF Accounts
<1> QED
  BY <1>1, <1>2, <1>3, FifoTypeCorrect, PTL DEF Spec

\* The counters that end the loop of simulate.c:30 are the numbers of jobs
\* that are done and complete, in every state.
THEOREM FifoCountsExactly == Spec => []CountsExact
<1>1. Init => CountsExact
  BY ClusterStartsCounted DEF Init
<1>2. TypeOK /\ CountsExact /\ [Next]_vars => CountsExact'
  <2> SUFFICES ASSUME TypeOK, CountsExact, [Next]_vars PROVE CountsExact'
    OBVIOUS
  <2>1. CASE SimulatorStep
    BY <2>1, SimulatorKeepsCounts DEF TypeOK
  <2>2. CASE UNCHANGED <<is_done, is_complete, jobs_done, jobs_complete>>
    BY <2>2 DEF CountsExact
  <2> QED
    BY <2>1, <2>2, SchedulerFrame DEF Next, vars, clusterVars, jobVars, statVars
<1> QED
  BY <1>1, <1>2, FifoTypeCorrect, PTL DEF Spec

\* No job that has not started waits for max_wait_time ticks, also when FIFO
\* puts it while its bound is near: the delay starts below the limit.
THEOREM FifoBoundsWaits == Spec => []WaitBound
<1>1. Init => WaitBound
  BY DEF Init, ClusterInit, NodeInit, WaitBound
<1>2. TypeOK /\ WaitBound /\ [Next]_vars => WaitBound'
  <2> SUFFICES ASSUME TypeOK, WaitBound, [Next]_vars PROVE WaitBound'
    OBVIOUS
  <2>1. CASE SimulatorStep
    BY <2>1, SimulatorKeepsWaitBound DEF TypeOK
  <2>2. CASE UNCHANGED <<job, nodeVars, jobVars>>
    BY <2>2 DEF WaitBound, nodeVars, jobVars
  <2>3. CASE (Distribute \/ Schedule) /\ PutFirstFit
    <3>1. UNCHANGED <<job, jobVars>>
      BY <2>3, SchedulerFrame DEF datasetVars
    <3> QED
      BY <2>3, <3>1, PutFirstFitOnNode, PutKeepsWaitBound DEF TypeOK
  <2> QED
    BY <2>1, <2>2, <2>3, SchedulerFrame DEF Next, vars, clusterVars, datasetVars
<1> QED
  BY <1>1, <1>2, FifoTypeCorrect, PTL DEF Spec

\* At the end of every tick exactly the nodes without memory in use count as
\* stalled (simulation_step.c, update_node.c:37).
THEOREM FifoStallsIdleNodes == Spec => []StalledNodesAreIdle
<1>1. Init => StalledNodesAreIdle
  BY DEF Init, ClusterInit, StalledNodesAreIdle
<1>2. TypeOK /\ MemoryExact /\ StalledNodesAreIdle /\ [Next]_vars
        => StalledNodesAreIdle'
  <2> SUFFICES ASSUME TypeOK, MemoryExact, StalledNodesAreIdle, [Next]_vars
               PROVE  StalledNodesAreIdle'
    OBVIOUS
  <2>1. CASE SimulatorStep
    BY <2>1, SimulatorKeepsStall DEF TypeOK
  <2>2. CASE Distribute \/ Schedule
    BY <2>2, SchedulerFrame DEF StalledNodesAreIdle
  <2>3. CASE UNCHANGED vars
    BY <2>3 DEF vars, clusterVars, nodeVars, statVars, datasetVars,
                StalledNodesAreIdle, JobsOn
  <2> QED
    BY <2>1, <2>2, <2>3 DEF Next
<1> QED
  BY <1>1, <1>2, FifoTypeCorrect, FifoKeepsNodesExact, PTL DEF Spec

\* The loop of simulate.c:30 ends only when every job was counted.
EndsCounted == pc = "end" => jobs_done >= JobCount

LEMMA FifoEndsCounted == Spec => []EndsCounted
<1>1. Init => EndsCounted
  BY DEF Init, ClusterInit, EndsCounted
<1>2. TypeOK /\ EndsCounted /\ [Next]_vars => EndsCounted'
  <2> SUFFICES ASSUME TypeOK, EndsCounted, [Next]_vars PROVE EndsCounted'
    OBVIOUS
  <2>1. CASE LoopTest
    <3>1. jobs_done' = jobs_done /\ (pc' = "end" => ~(jobs_done < JobCount))
      BY <2>1 DEF LoopTest, statVars
    <3>2. jobs_done \in Nat /\ JobCount \in Nat
      BY NodeAssumption DEF TypeOK, ClusterTypeOK
    <3> QED
      BY <3>1, <3>2 DEF EndsCounted
  <2>2. CASE UNCHANGED <<pc, jobs_done>>
    BY <2>2 DEF EndsCounted
  <2>3. CASE pc' # "end"
    BY <2>3 DEF EndsCounted
  <2>4. CASE SimulatorStep
    <3>1. ASSUME NEW j \in Jobs, UpdateJob(j)
          PROVE  pc' # "end"
      BY <3>1, UpdateOutcomes DEF TypeOK
    <3> QED
      BY <2>1, <2>2, <2>3, <2>4, <3>1 DEF SimulatorStep, SkipMoment, StopMoments,
           EnterMoment, LeaveMoment, UpdateNodes, Terminated, clusterVars, statVars
  <2>5. CASE Distribute \/ Schedule
    <3>1. pc' # "end"
      BY <2>5, SchedulerFrame
    <3> QED
      BY <2>3, <3>1
  <2>6. CASE UNCHANGED vars
    BY <2>2, <2>6 DEF vars, clusterVars, statVars
  <2> QED
    BY <2>4, <2>5, <2>6 DEF Next
<1> QED
  BY <1>1, <1>2, FifoTypeCorrect, PTL DEF Spec

\* Every cluster with a node has a sample to divide by when a simulation of at
\* least one tick ends: all jobs are done then, none is on a node, and so every
\* node is stalled (simulate.c:152).
THEOREM FifoStallAverageDefined == Spec => []StallAverageDefined
<1>1. TypeOK /\ EndsCounted /\ CountsExact /\ NoZombie /\ StalledNodesAreIdle
        => StallAverageDefined
  <2> SUFFICES ASSUME TypeOK, EndsCounted, CountsExact, NoZombie, StalledNodesAreIdle,
                      pc = "end", t # 0, Nodes # {}
               PROVE  average_stall_time_sc
                        + Cardinality({n \in Nodes : node_stall_time[n] # 0}) # 0
    BY DEF StallAverageDefined
  <2> DEFINE done    == {j \in Jobs : is_done[j]}
             stalled == {n \in Nodes : node_stall_time[n] # 0}
  <2>1. done = Jobs
    <3>1. IsFiniteSet(Jobs) /\ Cardinality(Jobs) = JobCount /\ JobCount \in Nat
      BY NodeAssumption, FS_Interval DEF Jobs
    <3>2. done \subseteq Jobs /\ Cardinality(done) >= JobCount
      BY DEF EndsCounted, CountsExact
    <3>3. Cardinality(done) \in Nat /\ Cardinality(done) <= JobCount
      <4> HIDE DEF done
      <4> QED
        BY <3>1, <3>2, FS_Subset, FS_CardinalityType
    <3> HIDE DEF done
    <3> QED
      BY <3>1, <3>2, <3>3, FS_Subset
  <2>2. stalled = Nodes
    <3>1. \A j \in Jobs : assigned_node[j] = NULL
      BY <2>1 DEF NoZombie
    <3>2. \A n \in Nodes : JobsOn(n) = {}
      BY <3>1, NullNotNode DEF JobsOn
    <3> QED
      BY <3>2 DEF StalledNodesAreIdle
  <2>3. IsFiniteSet(Nodes) /\ Cardinality(Nodes) \in Nat /\ Cardinality(Nodes) # 0
    <3>1. IsFiniteSet(Nodes)
      BY NodeAssumption, FS_Interval DEF Nodes
    <3> QED
      BY <3>1, FS_EmptySet, FS_CardinalityType
  <2>4. average_stall_time_sc \in Nat
    BY DEF TypeOK, ClusterTypeOK
  <2> HIDE DEF stalled
  <2>5. average_stall_time_sc + Cardinality(stalled) # 0
    BY <2>2, <2>3, <2>4
  <2> QED
    BY <2>5 DEF stalled
<1> QED
  BY <1>1, FifoTypeCorrect, FifoEndsCounted, FifoCountsExactly, FifoMakesNoZombie,
     FifoStallsIdleNodes, PTL

-----------------------------------------------------------------------------
\* The moment of a tick is handed over before its jobs are scheduled.
LEMMA FifoTakesDue == ASSUME AscendingDatasets PROVE Spec => []DueWereTaken
<1>1. Loaded => Ascending
  BY DEF Loaded, AscendingDatasets, Ascending
<1>2. Init /\ TypeOK => DueWereTaken
  BY MomentTimes DEF Init, ClusterInit, DueWereTaken, Handing, TypeOK
<1>3. TypeOK /\ Ascending /\ DueWereTaken /\ [Next]_vars => DueWereTaken'
  <2> SUFFICES ASSUME TypeOK, Ascending, DueWereTaken, [Next]_vars
               PROVE  DueWereTaken'
    OBVIOUS
  <2>1. CASE SimulatorStep
    BY <2>1, SimulatorKeepsDue DEF TypeOK
  <2>2. CASE Distribute
    <3>1. pc' = "schedule" /\ UNCHANGED <<moments, t>>
      BY <2>2 DEF Distribute, MomentTaken, NoMomentDue, datasetVars
    <3>2. \/ MomentDue /\ jseq' = jseq + 1
          \/ ~MomentDue /\ jseq' = jseq
      BY <2>2 DEF Distribute, MomentTaken, NoMomentDue
    <3> QED
      BY <3>1, <3>2, TakenInTime DEF TypeOK
  <2>3. CASE Schedule
    <3>1. /\ UNCHANGED <<moments, t, jseq>>
          /\ pc \notin {"loop", "distribute", "end"} \cup Handing /\ pc' \notin Handing
      BY <2>3, ScheduleFrame DEF datasetVars, Schedule, NothingQueued, StartSkipping,
           SkipAssigned, StoreCursor, PassOver, PutFirstFit, QueueWalked, Visit,
           StepStarts, Handing
    <3> QED
      BY <3>1, SchedulerKeepsDue DEF TypeOK
  <2>4. CASE UNCHANGED vars
    BY <2>4 DEF vars, clusterVars, datasetVars, DueWereTaken, MomentDue
  <2> QED
    BY <2>1, <2>2, <2>3, <2>4 DEF Next
<1> QED
  BY <1>1, <1>2, <1>3, FifoTypeCorrect, PTL DEF Spec

\* With such a dataset every job is handed over in the tick of its moment,
\* although the test of simulate.c:40 is met in that tick or never.
THEOREM FifoReleasesOnTime ==
  ASSUME AscendingDatasets PROVE Spec => []ReleasedOnTime
<1>1. TypeOK /\ DueWereTaken => ReleasedOnTime
  BY DueIsReleased DEF TypeOK
<1> QED
  BY <1>1, FifoTakesDue, FifoTypeCorrect, PTL

\* With such a dataset a job that is not done has waited one tick for every
\* tick since its moment: neither the break of simulation_step.c:21 nor the
\* memo of simulation_step.c:19 passes over a job that is alive.
THEOREM FifoCountsEveryTick ==
  ASSUME AscendingDatasets PROVE Spec => []WaitIsAge
<1>1. Loaded => Ascending /\ EachJobOnce(moments)
  BY LoadedFacts DEF Loaded, AscendingDatasets, Ascending
<1>2. Init /\ TypeOK => AgeInv
  BY ClusterStartsYoung DEF Init, TypeOK
<1>3. /\ TypeOK /\ Ascending /\ EachJobOnce(moments)
      /\ AgeInv /\ [Next]_vars
      => AgeInv'
  <2> SUFFICES ASSUME TypeOK, Ascending, EachJobOnce(moments), AgeInv, [Next]_vars
               PROVE  AgeInv'
    OBVIOUS
  <2>1. CASE SimulatorStep
    BY <2>1, SimulatorKeepsAges DEF TypeOK
  <2>2. CASE Distribute \/ Schedule
    <3>1. UNCHANGED <<is_done, wait_time, moments, everything_done, t>>
      BY <2>2, SchedulerFrame DEF jobVars, datasetVars
    <3> QED
      BY <2>2, <3>1, SchedulerFrame, SchedulerKeepsAges DEF TypeOK
  <2>3. CASE UNCHANGED vars
    BY <2>3, AgeFrame DEF vars
  <2> QED
    BY <2>1, <2>2, <2>3 DEF Next
<1>4. AgeInv => WaitIsAge
  BY AgesAreWaits
<1> QED
  BY <1>1, <1>2, <1>3, <1>4, FifoTypeCorrect, PTL DEF Spec

-----------------------------------------------------------------------------
\* The contract adds up as this module does.
LEMMA ContractAdds ==
  ASSUME NEW f, NEW S PROVE Contract!SumOver(f, S) = SumOver(f, S)
<1>1. Contract!UnitsOf(f, S) = UnitsOf(f, S)
  BY DEF Contract!UnitsOf, UnitsOf
<1>2. Contract!Cardinality(UnitsOf(f, S)) = Cardinality(UnitsOf(f, S))
  BY Zenon DEF Contract!Cardinality, Cardinality
<1> QED
  BY <1>1, <1>2 DEF Contract!SumOver, SumOver

\* What the accounts mean for a user: a job that the check accepts fits, in
\* the contract's sense, next to the jobs that are on the node.
LEMMA CheckedFits ==
  ASSUME NodeTypeOK, Accounts, NEW j \in Jobs, NEW n \in Nodes,
         assigned_node[j] = NULL, CheckNodeForJob(j, n)
  PROVE  Contract!Fits(j, n)
<1> DEFINE mem     == [i \in Jobs |-> job[i].mem_size]
           after   == JobsOn(n) \cup {j}
           memory  == [i \in Jobs |-> Demand[i].mem]
           threads == [i \in Jobs |-> Demand[i].threads]
<1>1. /\ memory = mem
      /\ threads = Held
      /\ Contract!Guests(n) = JobsOn(n)
  BY DEF Demand, Held, JobsOn, Contract!Guests
<1>2. /\ JobsOn(n) \in SUBSET Jobs /\ IsFiniteSet(JobsOn(n)) /\ j \notin JobsOn(n)
      /\ \A i \in JobsOn(n) \cup {j} : mem[i] \in Nat /\ Held[i] \in Nat
  BY HeldType, JobFields, NullNotNode DEF JobsOn
<1>3. SumOver(mem, after) <= NodeSpec[n].mem_size
  <2>1. SumOver(mem, after) = SumOver(mem, JobsOn(n)) + mem[j]
    BY <1>2, SumAdd
  <2>2. SumOver(mem, JobsOn(n)) \in Nat
    BY <1>2, SumNat
  <2>3. mem[j] \in Nat /\ mem[j] <= FreeMem(n) /\ FreeMem(n) \in Nat
    BY <1>2, OccupationFields DEF CheckNodeForJob
  <2>4. FreeMem(n) + SumOver(mem, JobsOn(n)) = NodeSpec[n].mem_size
    BY DEF Accounts, MemoryExact
  <2> HIDE DEF mem, after
  <2> QED
    BY <2>1, <2>2, <2>3, <2>4
<1>4. SumOver(Held, after) <= NodeSpec[n].cpu_count * NodeSpec[n].thread_count
  <2>1. SumOver(Held, after) = SumOver(Held, JobsOn(n)) + Held[j]
    BY <1>2, SumAdd
  <2>2. SumOver(ThreadsAfterPut(j, n), Cores(n)) + Held[j]
          = SumOver(CpuThreads(n), Cores(n))
    BY HeldType, CheckedPutInBounds, PutTakesThreads
  <2>3. SumOver(ThreadsAfterPut(j, n), Cores(n)) \in Nat
    BY CheckedPutInBounds, ThreadsAfterPutType, CoreSets, SumNat
  <2>4. SumOver(CpuThreads(n), Cores(n)) + SumOver(Held, JobsOn(n))
          <= NodeSpec[n].cpu_count * NodeSpec[n].thread_count
    BY DEF Accounts, NeverOvercommitted, Held
  <2>5. NodeSpec[n].cpu_count * NodeSpec[n].thread_count \in Nat
    <3>1. NodeSpec[n].cpu_count \in Nat /\ NodeSpec[n].thread_count \in Nat
      BY NodeFields
    <3> QED
      BY <3>1, SMT
  <2>6. /\ SumOver(Held, JobsOn(n)) \in Nat /\ Held[j] \in Nat
        /\ SumOver(CpuThreads(n), Cores(n)) \in Nat
    BY <1>2, HeldType
  <2> DEFINE cap == NodeSpec[n].cpu_count * NodeSpec[n].thread_count
  <2> HIDE DEF cap, after
  <2> QED
    BY <2>1, <2>2, <2>3, <2>4, <2>5, <2>6 DEF cap
<1>5. /\ Contract!SumOver(memory, after) = SumOver(mem, after)
      /\ Contract!SumOver(threads, after) = SumOver(Held, after)
  BY <1>1, ContractAdds
<1>6. Demand[j].features \subseteq Capacity[n].features
  BY DEF CheckNodeForJob, Demand, Capacity
<1>7. /\ Capacity[n].mem = NodeSpec[n].mem_size
      /\ Capacity[n].threads = NodeSpec[n].cpu_count * NodeSpec[n].thread_count
  BY DEF Capacity
<1> QED
  BY <1>1, <1>3, <1>4, <1>5, <1>6, <1>7 DEF Contract!Fits

\* A step of FIFO is a step of the contract or one it does not see: it places
\* an open job that fits, or ends an open one, and ends none twice.
LEMMA FifoStepRefines ==
  ASSUME TypeOK, Accounts, CountsExact, [Next]_vars
  PROVE  [Contract!Next]_<<Capacity, Demand, assigned_node, Outcome>>
<1>1. /\ assigned_node \in [Jobs -> Nodes \cup {NULL}]
      /\ is_done \in [Jobs -> BOOLEAN] /\ is_complete \in [Jobs -> BOOLEAN]
      /\ NodeTypeOK /\ ClusterTypeOK
  BY DEF TypeOK, ClusterTypeOK, NodeTypeOK
<1>2. \A j \in Jobs : ~is_done[j] => Outcome[j] = "open" /\ ~is_complete[j]
  BY DEF CountsExact, Outcome
<1>3. CASE UNCHANGED <<job, assigned_node, is_done, is_complete>>
  BY <1>3 DEF Capacity, Demand, Outcome, ThreadsOf, Unit, Want
<1>4. job' = job => UNCHANGED <<Capacity, Demand>>
  BY DEF Capacity, Demand, ThreadsOf, Unit, Want
<1>5. CASE (Distribute \/ Schedule) /\ PutFirstFit
  <2> DEFINE j == queue[c]
             n == PickNode(queue[c])
  <2>1. /\ j \in Jobs /\ n \in Nodes /\ ~is_done[j]
        /\ CheckNodeForJob(j, n) /\ PutJobToNode(j, n)
    BY <1>5, PutFirstFitOnNode
  <2>2. UNCHANGED <<job, is_done, is_complete>>
    BY <1>5, SchedulerFrame DEF jobVars, datasetVars
  <2> HIDE DEF j, n
  <2>3. CASE assigned_node[j] # NULL
    BY <1>3, <2>1, <2>2, <2>3 DEF PutJobToNode, nodeVars
  <2>4. CASE assigned_node[j] = NULL
    <3>1. Contract!Fits(j, n)
      BY <1>1, <2>1, <2>4, CheckedFits
    <3>2. assigned_node' = [assigned_node EXCEPT ![j] = n]
      BY <2>1, <2>4 DEF PutJobToNode
    <3>3. UNCHANGED <<Capacity, Demand, Outcome>>
      BY <1>4, <2>2 DEF Outcome
    <3>4. Contract!Place(j, n)
      BY <1>2, <2>1, <2>4, <3>1, <3>2, <3>3 DEF Contract!Place
    <3> QED
      BY <2>1, <3>4 DEF Contract!Next
  <2> QED
    BY <2>3, <2>4
<1>6. ASSUME NEW j \in Jobs, UpdateJob(j)
      PROVE  [Contract!Next]_<<Capacity, Demand, assigned_node, Outcome>>
  <2>1. job' = job
    BY <1>1, <1>6, UpdateOutcomes DEF datasetVars
  <2>2. CASE StaysDone(j) \/ Ages(j)
    BY <1>3, <2>1, <2>2 DEF StaysDone, Ages, nodeVars, jobVars
  <2>3. CASE Ends(j)
    <3>1. ~is_done[j] /\ Outcome[j] = "open" /\ ~is_complete[j]
      BY <1>2, <2>3 DEF Ends
    <3>2. assigned_node' = [assigned_node EXCEPT ![j] = NULL]
      BY <1>1, <2>3 DEF Ends, RemoveJobFromNode
    <3>3. is_done' = [is_done EXCEPT ![j] = TRUE]
      BY <2>3 DEF Ends
    <3>4. CASE is_complete' = is_complete
      <4>1. Outcome' = [Outcome EXCEPT ![j] = "expired"]
        BY <1>1, <3>1, <3>3, <3>4 DEF Outcome
      <4>2. Contract!End(j, "expired")
        BY <1>4, <2>1, <3>1, <3>2, <4>1 DEF Contract!End
      <4> QED
        BY <4>2 DEF Contract!Next, Contract!Ends
    <3>5. CASE /\ assigned_node[j] # NULL
               /\ is_complete' = [is_complete EXCEPT ![j] = TRUE]
      <4>1. Outcome' = [Outcome EXCEPT ![j] = "complete"]
        BY <1>1, <3>1, <3>3, <3>5 DEF Outcome
      <4>2. Contract!End(j, "complete")
        BY <1>4, <2>1, <3>1, <3>2, <3>5, <4>1 DEF Contract!End
      <4> QED
        BY <4>2 DEF Contract!Next, Contract!Ends
    <3> QED
      BY <2>3, <3>4, <3>5 DEF Ends
  <2> QED
    BY <1>1, <1>6, <2>2, <2>3, UpdateOutcomes
<1> QED
  BY <1>3, <1>5, <1>6, SchedulerFrame
    DEF Next, SimulatorStep, LoopTest, SkipMoment, StopMoments, EnterMoment,
        LeaveMoment, UpdateNodes, Terminated, vars, clusterVars, nodeVars, jobVars,
        datasetVars

\* FIFO keeps the contract: a job is put once, on a node that has room for it
\* next to what is there, and it ends once.  (That every job ends is liveness,
\* the part of ImplementsContract that stays with the model checker.)
THEOREM FifoKeepsContract == Spec => Contract!Safe
<1>1. Init => Contract!Init
  <2> SUFFICES ASSUME Init PROVE Contract!Init
    OBVIOUS
  <2>1. assigned_node = [j \in Jobs |-> NULL]
    BY DEF Init, ClusterInit, NodeInit
  <2>2. Outcome = [j \in Jobs |-> "open"]
    BY DEF Init, ClusterInit, Outcome
  <2> QED
    BY <2>1, <2>2 DEF Contract!Init
<1>2. TypeOK /\ MemoryExact /\ NeverOvercommitted /\ CountsExact /\ [Next]_vars
        => [Contract!Next]_<<Capacity, Demand, assigned_node, Outcome>>
  BY FifoStepRefines DEF Accounts
<1>3. Spec => [][Contract!Next]_<<Capacity, Demand, assigned_node, Outcome>>
  BY <1>2, FifoTypeCorrect, FifoKeepsNodesExact, FifoCountsExactly, PTL DEF Spec
<1> QED
  BY <1>1, <1>3, PTL DEF Spec, Contract!Safe, Contract!vars
=============================================================================
