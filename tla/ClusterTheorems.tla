-------------------------- MODULE ClusterTheorems --------------------------
(***************************************************************************)
(* What a step of the simulator preserves, whatever the scheduler does     *)
(* between two of them.  Scheduler modules cite these lemmas for the       *)
(* SimulatorStep disjunct of their next-state relation.                    *)
(***************************************************************************)
EXTENDS Cluster, NodeTheorems

\* What the steps of the scheduler and of the loop leave alone.
LEMMA NodeFrame ==
  ASSUME NodeTypeOK, UNCHANGED <<job, nodeVars>>
  PROVE  NodeTypeOK'
BY DEF NodeTypeOK, nodeVars, OccupationType

\* The simulator starts with everything free and nothing done.
LEMMA ClusterStartsTyped ==
  ASSUME ClusterInit
  PROVE  ClusterTypeOK
<1>1. PICK d \in Datasets : job = d.job /\ moments = d.moments
  BY DEF ClusterInit
<1>2. job \in [Jobs -> JobType] /\ moments \in Seq(MomentType)
  BY <1>1, DatasetsAssumption
<1>3. \A n \in Nodes : EmptyOccupation[n] \in OccupationType(n)
  BY NodeFields DEF EmptyOccupation, OccupationType
<1>4. NodeTypeOK
  BY <1>2, <1>3 DEF ClusterInit, NodeInit, NodeTypeOK, EmptyOccupation
<1> QED
  BY <1>2, <1>4 DEF ClusterInit, ClusterTypeOK

\* cluster_update_job keeps every field in its type: wait_time and exec_time
\* only grow, time_before_start is only counted down while it is not 0.
LEMMA UpdateKeepsType ==
  ASSUME ClusterTypeOK, NEW j \in Jobs, UpdateJob(j)
  PROVE  ClusterTypeOK'
<1>1. /\ UNCHANGED <<job, moments, everything_done, jm, t, jseq, pc,
                     node_stall_time, average_stall_time_sc>>
      /\ all_done' \in BOOLEAN
      /\ jl' \in Nat \ {0}
  <2>1. PICK done \in BOOLEAN : Updating(j, done)
    BY DEF UpdateJob, AlreadyDone, KeepWaiting, Expire, CountDown, Run, Complete
  <2>2. all_done' \in BOOLEAN
    BY <2>1, Zenon DEF Updating
  <2>3. jl' \in Nat \ {0}
    BY <2>1 DEF Updating, ClusterTypeOK
  <2> QED
    BY <2>1, <2>2, <2>3 DEF Updating, datasetVars
<1>2. /\ wait_time' \in [Jobs -> Nat]
      /\ is_done' \in [Jobs -> BOOLEAN]
      /\ is_complete' \in [Jobs -> BOOLEAN]
      /\ jobs_done' \in Nat
      /\ jobs_complete' \in Nat
  <2>1. wait_time' = wait_time \/ Older(j)
    BY DEF UpdateJob, AlreadyDone, KeepWaiting, Expire, CountDown, Run, Complete,
           Execute, jobVars
  <2>2. UNCHANGED <<is_done, jobs_done>> \/ Finish(j)
    BY DEF UpdateJob, AlreadyDone, KeepWaiting, Expire, CountDown, Run, Complete,
           Unfinished, jobVars
  <2>3. \/ UNCHANGED <<is_complete, jobs_complete>>
        \/ /\ is_complete' = [is_complete EXCEPT ![j] = TRUE]
           /\ jobs_complete' = jobs_complete + 1
    BY DEF UpdateJob, AlreadyDone, KeepWaiting, Expire, CountDown, Run, Complete,
           Unfinished, jobVars
  <2>4. /\ wait_time \in [Jobs -> Nat]
        /\ is_done \in [Jobs -> BOOLEAN]
        /\ is_complete \in [Jobs -> BOOLEAN]
        /\ jobs_done \in Nat
        /\ jobs_complete \in Nat
    BY DEF ClusterTypeOK
  <2>5. wait_time' \in [Jobs -> Nat]
    BY <2>1, <2>4 DEF Older
  <2>6. is_done' \in [Jobs -> BOOLEAN]
    BY <2>2, <2>4 DEF Finish
  <2>7. is_complete' \in [Jobs -> BOOLEAN]
    BY <2>3, <2>4
  <2>8. jobs_done' \in Nat /\ jobs_complete' \in Nat
    BY <2>2, <2>3, <2>4 DEF Finish
  <2> QED
    BY <2>5, <2>6, <2>7, <2>8
<1>3. exec_time' \in [Jobs -> Nat]
  <2>1. \A n \in Nodes : NodeSpec[n].exec_rate \in Nat
    BY NodeFields
  <2>2. assigned_node[j] \in Nodes \cup {NULL} /\ exec_time \in [Jobs -> Nat]
    BY DEF ClusterTypeOK, NodeTypeOK
  <2>3. CASE UNCHANGED exec_time
    BY <2>2, <2>3
  <2>4. CASE Execute(j)
    BY <2>1, <2>2, <2>4 DEF Execute
  <2> QED
    BY <2>3, <2>4 DEF UpdateJob, AlreadyDone, KeepWaiting, Expire, CountDown,
                      Run, Complete, jobVars
<1>4. NodeTypeOK'
  <2>1. CASE UNCHANGED nodeVars
    BY <1>1, <2>1, NodeFrame DEF ClusterTypeOK
  <2>2. CASE Finish(j)
    <3>1. time_before_start' \in [Jobs -> Nat]
      BY <2>2 DEF Finish, ClusterTypeOK, NodeTypeOK
    <3> QED
      BY <1>1, <2>2, <3>1, RemoveKeepsType DEF Finish, ClusterTypeOK
  <2>3. CASE CountDown(j)
    <3>1. time_before_start' \in [Jobs -> Nat]
      BY <2>3 DEF CountDown, ClusterTypeOK, NodeTypeOK
    <3> QED
      BY <1>1, <2>3, <3>1 DEF CountDown, ClusterTypeOK, NodeTypeOK, OccupationType
  <2> QED
    BY <2>1, <2>2, <2>3 DEF UpdateJob, AlreadyDone, KeepWaiting, Expire, Run,
                            Complete
<1> QED
  BY <1>1, <1>2, <1>3, <1>4 DEF ClusterTypeOK

\* So does the rest of a tick.
LEMMA SimulatorKeepsType ==
  ASSUME ClusterTypeOK, SimulatorStep
  PROVE  ClusterTypeOK'
<1>1. CASE LoopTest \/ StopMoments \/ Terminated
  <2>1. UNCHANGED <<nodeVars, jobVars, statVars, datasetVars, stepVars, t, jseq>>
    BY <1>1 DEF LoopTest, StopMoments, Terminated, clusterVars
  <2>2. NodeTypeOK'
    BY <2>1, NodeFrame DEF ClusterTypeOK, datasetVars
  <2>3. pc' \in {"distribute", "nodes", "end"}
    BY <1>1 DEF LoopTest, StopMoments, Terminated, clusterVars
  <2> QED
    BY <2>1, <2>2, <2>3 DEF ClusterTypeOK, jobVars, statVars, datasetVars, stepVars
<1>2. CASE SkipMoment \/ EnterMoment \/ LeaveMoment
  <2>1. UNCHANGED <<nodeVars, jobVars, statVars, datasetVars, t, jseq>>
    BY <1>2 DEF SkipMoment, EnterMoment, LeaveMoment
  <2>2. NodeTypeOK'
    BY <2>1, NodeFrame DEF ClusterTypeOK, datasetVars
  <2>3. pc' \in {"moment", "job"}
    BY <1>2 DEF SkipMoment, EnterMoment, LeaveMoment
  <2>4. /\ jm \in Nat \ {0} /\ jl \in Nat \ {0}
        /\ all_done \in BOOLEAN
        /\ everything_done \in [DOMAIN moments -> BOOLEAN]
    BY DEF ClusterTypeOK
  <2>5. jm' \in Nat \ {0} /\ jl' \in Nat \ {0}
    BY <1>2, <2>4 DEF SkipMoment, EnterMoment, LeaveMoment
  <2>6. all_done' \in BOOLEAN
    BY <1>2, <2>4 DEF SkipMoment, EnterMoment, LeaveMoment
  <2>7. everything_done' \in [DOMAIN moments -> BOOLEAN]
    BY <1>2, <2>4 DEF SkipMoment, EnterMoment, LeaveMoment
  <2> QED
    BY <2>1, <2>2, <2>3, <2>5, <2>6, <2>7 DEF ClusterTypeOK, jobVars, statVars, datasetVars
<1>3. CASE \E j \in Jobs : UpdateJob(j)
  BY <1>3, UpdateKeepsType
<1>4. CASE UpdateNodes
  <2>1. NodeTypeOK'
    BY <1>4, NodeFrame DEF UpdateNodes, ClusterTypeOK, datasetVars
  <2>2. node_stall_time' \in [Nodes -> Nat]
    BY <1>4 DEF UpdateNodes, ClusterTypeOK
  <2>3. average_stall_time_sc' \in Nat
    <3> DEFINE ended == {n \in Nodes : ~IsNodeFree(n) /\ node_stall_time[n] # 0}
    <3>1. 1 \in Int /\ NodeCount \in Int
      BY NodeAssumption
    <3>2. IsFiniteSet(ended)
      BY <3>1, FS_Interval, FS_Subset DEF Nodes
    <3>3. Cardinality(ended) \in Nat
      BY <3>2, FS_CardinalityType
    <3> QED
      BY <1>4, <3>3 DEF UpdateNodes, ClusterTypeOK
  <2> QED
    BY <1>4, <2>1, <2>2, <2>3 DEF UpdateNodes, ClusterTypeOK, jobVars,
                                  datasetVars, stepVars
<1> QED
  BY <1>1, <1>2, <1>3, <1>4 DEF SimulatorStep

-----------------------------------------------------------------------------
\* The only job a step of the simulator takes off a node is one it ends, and
\* it puts none on a node.
LEMMA SimulatorMovesNone ==
  ASSUME ClusterTypeOK, SimulatorStep
  PROVE  /\ UNCHANGED datasetVars
         /\ \A j \in Jobs : assigned_node'[j] \in {assigned_node[j], NULL}
         /\ \A j \in Jobs : assigned_node'[j] # assigned_node[j] => is_done'[j]
         /\ \A j \in Jobs : is_done[j] => is_done'[j]
         /\ \A j \in Jobs : is_done'[j] /\ ~is_done[j] => assigned_node'[j] = NULL
<1>1. CASE UNCHANGED <<nodeVars, jobVars, datasetVars>>
  BY <1>1 DEF nodeVars, jobVars
<1>2. ASSUME NEW j \in Jobs, UpdateJob(j)
      PROVE  /\ UNCHANGED datasetVars
             /\ \A i \in Jobs : assigned_node'[i] \in {assigned_node[i], NULL}
             /\ \A i \in Jobs : assigned_node'[i] # assigned_node[i] => is_done'[i]
             /\ \A i \in Jobs : is_done[i] => is_done'[i]
             /\ \A i \in Jobs : is_done'[i] /\ ~is_done[i] => assigned_node'[i] = NULL
  <2>1. UNCHANGED datasetVars
    BY <1>2 DEF UpdateJob, AlreadyDone, KeepWaiting, Expire, CountDown, Run,
                Complete, Execute, Updating
  <2>2. assigned_node \in [Jobs -> Nodes \cup {NULL}] /\ is_done \in [Jobs -> BOOLEAN]
    BY DEF ClusterTypeOK, NodeTypeOK
  <2>3. CASE UNCHANGED <<assigned_node, is_done>>
    BY <2>1, <2>3
  <2>4. CASE Finish(j)
    <3>1. is_done' = [is_done EXCEPT ![j] = TRUE]
      BY <2>4 DEF Finish
    <3>2. assigned_node' = [assigned_node EXCEPT ![j] = NULL]
      BY <2>2, <2>4 DEF Finish, RemoveJobFromNode
    <3> QED
      BY <2>1, <2>2, <3>1, <3>2
  <2> QED
    BY <1>2, <2>3, <2>4 DEF UpdateJob, AlreadyDone, KeepWaiting, Expire,
         CountDown, Run, Complete, Unfinished, nodeVars, jobVars
<1> QED
  BY <1>1, <1>2 DEF SimulatorStep, LoopTest, SkipMoment, StopMoments, EnterMoment,
       LeaveMoment, UpdateNodes, Terminated, clusterVars

-----------------------------------------------------------------------------
\* The three outcomes of one call of cluster_update_job: nothing for a job that
\* is done, a tick of age, or a tick of age and the end of the job.
Ages(j) ==
  /\ ~is_done[j]
  /\ wait_time' = [wait_time EXCEPT ![j] = @ + 1]
  /\ UNCHANGED <<is_done, is_complete, jobs_done, jobs_complete,
                 assigned_node, occupation>>
  /\ all_done' = FALSE

Ends(j) ==
  /\ ~is_done[j]
  /\ wait_time' = [wait_time EXCEPT ![j] = @ + 1]
  /\ is_done' = [is_done EXCEPT ![j] = TRUE]
  /\ jobs_done' = jobs_done + 1
  /\ RemoveJobFromNode(j)
  /\ UNCHANGED time_before_start
  /\ \/ UNCHANGED <<is_complete, jobs_complete>>
     \/ /\ assigned_node[j] # NULL
        /\ is_complete' = [is_complete EXCEPT ![j] = TRUE]
        /\ jobs_complete' = jobs_complete + 1
  /\ all_done' = all_done

StaysDone(j) ==
  /\ is_done[j]
  /\ UNCHANGED <<nodeVars, jobVars, jobs_done, jobs_complete, all_done>>

LEMMA UpdateOutcomes ==
  ASSUME ClusterTypeOK, NEW j \in Jobs, UpdateJob(j)
  PROVE  /\ pc = "job" /\ pc' = "job"
         /\ jl <= Len(moments[jm].jobs) /\ jl' = jl + 1
         /\ j = moments[jm].jobs[jl]
         /\ UNCHANGED <<datasetVars, everything_done, jm, t, jseq,
                        node_stall_time, average_stall_time_sc>>
         /\ StaysDone(j) \/ Ages(j) \/ Ends(j)
<1>1. PICK done \in BOOLEAN : Updating(j, done)
  BY DEF UpdateJob, AlreadyDone, KeepWaiting, Expire, CountDown, Run, Complete
<1>2. /\ pc = "job" /\ pc' = "job"
      /\ jl <= Len(moments[jm].jobs) /\ jl' = jl + 1
      /\ j = moments[jm].jobs[jl]
      /\ UNCHANGED <<datasetVars, everything_done, jm, t, jseq,
                     node_stall_time, average_stall_time_sc>>
  BY <1>1 DEF Updating, CurrentJob
<1>3. all_done \in BOOLEAN
  BY DEF ClusterTypeOK
<1>4. CASE AlreadyDone(j)
  <2>1. all_done' = all_done
    BY <1>3, <1>4, Zenon DEF AlreadyDone, Updating
  <2> QED
    BY <1>2, <1>4, <2>1 DEF AlreadyDone, StaysDone
<1>5. CASE KeepWaiting(j) \/ CountDown(j) \/ Run(j)
  <2>1. Updating(j, FALSE) /\ Older(j) /\ Unfinished
    BY <1>5 DEF KeepWaiting, CountDown, Run, Execute
  <2>2. all_done' = FALSE
    BY <1>3, <2>1, Zenon DEF Updating
  <2>3. UNCHANGED <<assigned_node, occupation>>
    BY <1>5 DEF KeepWaiting, CountDown, Run, nodeVars
  <2> QED
    BY <1>2, <2>1, <2>2, <2>3 DEF Older, Unfinished, Ages
<1>6. CASE Expire(j) \/ Complete(j)
  <2>1. Updating(j, TRUE) /\ Older(j) /\ Finish(j)
    BY <1>6 DEF Expire, Complete, Execute
  <2>2. all_done' = all_done
    BY <1>3, <2>1, Zenon DEF Updating
  <2>3. \/ UNCHANGED <<is_complete, jobs_complete>>
        \/ /\ assigned_node[j] # NULL
           /\ is_complete' = [is_complete EXCEPT ![j] = TRUE]
           /\ jobs_complete' = jobs_complete + 1
    BY <1>6 DEF Expire, Complete, Execute
  <2> QED
    BY <1>2, <2>1, <2>2, <2>3 DEF Older, Finish, Ends
<1> QED
  BY <1>2, <1>4, <1>5, <1>6 DEF UpdateJob

-----------------------------------------------------------------------------
\* The accounts of every node: memory balances, threads are not overcommitted.
Accounts == MemoryExact /\ NeverOvercommitted

\* What leaves the nodes alone leaves their accounts alone.
LEMMA AccountsFrame ==
  ASSUME Accounts, UNCHANGED <<job, assigned_node, occupation>>
  PROVE  Accounts'
BY DEF Accounts, MemoryExact, NeverOvercommitted, FreeMem, CpuThreads, JobsOn,
       ThreadsOf, Unit, Want

\* The simulator starts with every account in balance.
LEMMA ClusterStartsBalanced ==
  ASSUME ClusterTypeOK, ClusterInit
  PROVE  Accounts
<1>1. NodeInit
  BY DEF ClusterInit
<1>2. ASSUME NEW n \in Nodes
      PROVE  FreeMem(n) + SumOver([j \in Jobs |-> job[j].mem_size], JobsOn(n))
               = NodeSpec[n].mem_size
  <2>1. FreeMem(n) = NodeSpec[n].mem_size
    BY <1>1 DEF NodeInit, EmptyOccupation, FreeMem
  <2>2. JobsOn(n) = {}
    BY <1>1, NullNotNode DEF NodeInit, JobsOn
  <2>3. SumOver([j \in Jobs |-> job[j].mem_size], JobsOn(n)) = 0
    BY <2>2, SumEmpty
  <2> QED
    BY <2>1, <2>3, NodeFields
<1> QED
  BY <1>1, <1>2, StartsUncommitted DEF Accounts, MemoryExact

\* A tick of the simulator, whatever jobs end in it, keeps the accounts.
LEMMA SimulatorKeepsAccounts ==
  ASSUME ClusterTypeOK, Accounts, SimulatorStep
  PROVE  Accounts'
<1>1. CASE UNCHANGED <<job, assigned_node, occupation>>
  BY <1>1, AccountsFrame
<1>2. ASSUME NEW j \in Jobs, UpdateJob(j)
      PROVE  Accounts'
  <2>1. job' = job
    BY <1>2, UpdateOutcomes DEF datasetVars
  <2>2. CASE StaysDone(j) \/ Ages(j)
    BY <2>1, <2>2, AccountsFrame DEF StaysDone, Ages, nodeVars
  <2>3. CASE Ends(j)
    <3>1. RemoveJobFromNode(j) /\ time_before_start' \in [Jobs -> Nat] /\ NodeTypeOK
      BY <2>3 DEF Ends, ClusterTypeOK, NodeTypeOK
    <3> QED
      BY <2>1, <3>1, RemoveKeepsMemory, RemoveOvercommitsNone DEF Accounts
  <2> QED
    BY <1>2, <2>2, <2>3, UpdateOutcomes
<1> QED
  BY <1>1, <1>2 DEF SimulatorStep, LoopTest, SkipMoment, StopMoments, EnterMoment,
       LeaveMoment, UpdateNodes, Terminated, clusterVars, nodeVars, datasetVars

-----------------------------------------------------------------------------
\* At the start no job is done, and none is counted.
LEMMA ClusterStartsCounted ==
  ASSUME ClusterInit
  PROVE  CountsExact
<1>1. {j \in Jobs : is_done[j]} = {} /\ {j \in Jobs : is_complete[j]} = {}
  BY DEF ClusterInit
<1> QED
  BY <1>1, FS_EmptySet DEF ClusterInit, CountsExact

\* Every job is counted once when it ends: the statistics of a tick follow
\* is_done and is_complete.
LEMMA SimulatorKeepsCounts ==
  ASSUME ClusterTypeOK, CountsExact, SimulatorStep
  PROVE  CountsExact'
<1>1. CASE UNCHANGED <<is_done, is_complete, jobs_done, jobs_complete>>
  BY <1>1 DEF CountsExact
<1>2. ASSUME NEW j \in Jobs, UpdateJob(j)
      PROVE  CountsExact'
  <2>1. CASE StaysDone(j) \/ Ages(j)
    BY <1>1, <2>1 DEF StaysDone, Ages, jobVars
  <2>2. CASE Ends(j)
    <3>1. /\ is_done \in [Jobs -> BOOLEAN] /\ is_complete \in [Jobs -> BOOLEAN]
          /\ ~is_done[j] /\ ~is_complete[j]
      BY <2>2 DEF Ends, ClusterTypeOK, CountsExact
    <3>2. /\ is_done' = [is_done EXCEPT ![j] = TRUE]
          /\ jobs_done' = jobs_done + 1
      BY <2>2 DEF Ends
    <3>3. \A S \in SUBSET Jobs : IsFiniteSet(S)
      BY JobsFinite
    <3>4. jobs_done' = Cardinality({i \in Jobs : is_done'[i]})
      <4>1. {i \in Jobs : is_done'[i]} = {i \in Jobs : is_done[i]} \cup {j}
        BY <3>1, <3>2
      <4>2. IsFiniteSet({i \in Jobs : is_done[i]}) /\ j \notin {i \in Jobs : is_done[i]}
        BY <3>1, <3>3
      <4>3. Cardinality({i \in Jobs : is_done[i]} \cup {j})
              = Cardinality({i \in Jobs : is_done[i]}) + 1
        BY <4>2, FS_AddElement
      <4> QED
        BY <3>2, <4>1, <4>3 DEF CountsExact
    <3>5. jobs_complete' = Cardinality({i \in Jobs : is_complete'[i]})
      <4>1. CASE UNCHANGED <<is_complete, jobs_complete>>
        BY <4>1 DEF CountsExact
      <4>2. CASE /\ is_complete' = [is_complete EXCEPT ![j] = TRUE]
                 /\ jobs_complete' = jobs_complete + 1
        <5>1. {i \in Jobs : is_complete'[i]} = {i \in Jobs : is_complete[i]} \cup {j}
          BY <3>1, <4>2
        <5>2. IsFiniteSet({i \in Jobs : is_complete[i]})
              /\ j \notin {i \in Jobs : is_complete[i]}
          BY <3>1, <3>3
        <5>3. Cardinality({i \in Jobs : is_complete[i]} \cup {j})
                = Cardinality({i \in Jobs : is_complete[i]}) + 1
          BY <5>2, FS_AddElement
        <5> QED
          BY <4>2, <5>1, <5>3 DEF CountsExact
      <4> QED
        BY <2>2, <4>1, <4>2 DEF Ends
    <3>6. \A i \in Jobs : is_complete'[i] => is_done'[i]
      BY <2>2, <3>1, <3>2 DEF Ends, CountsExact
    <3> QED
      BY <3>4, <3>5, <3>6 DEF CountsExact
  <2> QED
    BY <1>2, <2>1, <2>2, UpdateOutcomes
<1> QED
  BY <1>1, <1>2 DEF SimulatorStep, LoopTest, SkipMoment, StopMoments, EnterMoment,
       LeaveMoment, UpdateNodes, Terminated, clusterVars, jobVars, statVars

\* A tick lets no job that has not started wait for max_wait_time ticks: a
\* countdown that is not ended by == has not reached the limit either, for it
\* met every value on the way (update_job.c:34).
LEMMA SimulatorKeepsWaitBound ==
  ASSUME ClusterTypeOK, WaitBound, SimulatorStep
  PROVE  WaitBound'
<1>1. CASE UNCHANGED <<job, nodeVars, jobVars>>
  BY <1>1 DEF WaitBound, nodeVars, jobVars
<1>2. ASSUME NEW j \in Jobs, UpdateJob(j)
      PROVE  WaitBound'
  <2>1. job' = job
    BY <1>2, UpdateOutcomes DEF datasetVars
  <2>2. /\ wait_time \in [Jobs -> Nat]
        /\ is_done \in [Jobs -> BOOLEAN]
        /\ assigned_node \in [Jobs -> Nodes \cup {NULL}]
        /\ time_before_start \in [Jobs -> Nat]
        /\ job[j].max_wait_time \in Nat
    <3>1. job[j] \in JobType
      BY DEF ClusterTypeOK, NodeTypeOK
    <3> QED
      BY <3>1 DEF ClusterTypeOK, NodeTypeOK, JobType
  <2>3. CASE AlreadyDone(j)
    BY <1>1, <2>1, <2>3 DEF AlreadyDone
  <2>4. CASE KeepWaiting(j)
    <3>1. /\ wait_time' = [wait_time EXCEPT ![j] = @ + 1]
          /\ wait_time'[j] < job[j].max_wait_time
          /\ UNCHANGED <<nodeVars, is_done>>
      BY <2>4 DEF KeepWaiting, Older, Unfinished
    <3> QED
      BY <2>1, <2>2, <3>1 DEF WaitBound, nodeVars
  <2>5. CASE Expire(j) \/ Complete(j)
    <3>1. /\ wait_time' = [wait_time EXCEPT ![j] = @ + 1]
          /\ is_done' = [is_done EXCEPT ![j] = TRUE]
          /\ time_before_start' = time_before_start
          /\ RemoveJobFromNode(j)
      BY <2>5 DEF Expire, Complete, Execute, Older, Finish
    <3>2. assigned_node' = [assigned_node EXCEPT ![j] = NULL]
      BY <2>2, <3>1 DEF RemoveJobFromNode
    <3> QED
      BY <2>1, <2>2, <3>1, <3>2 DEF WaitBound
  <2>6. CASE CountDown(j)
    <3>1. /\ wait_time' = [wait_time EXCEPT ![j] = @ + 1]
          /\ time_before_start' = [time_before_start EXCEPT ![j] = @ - 1]
          /\ assigned_node[j] # NULL /\ time_before_start[j] # 0
          /\ wait_time[j] + 1 # job[j].max_wait_time
          /\ ~is_done[j]
          /\ UNCHANGED <<assigned_node, is_done>>
      BY <2>6 DEF CountDown, Older, WaitedTooLong, Unfinished
    <3>2. job[j].max_wait_time # 0 => wait_time'[j] < job[j].max_wait_time
      <4>1. wait_time[j] # 0 /\ job[j].max_wait_time # 0
              => wait_time[j] < job[j].max_wait_time
        BY <3>1 DEF WaitBound
      <4>2. wait_time[j] \in Nat /\ wait_time'[j] = wait_time[j] + 1
        BY <2>2, <3>1
      <4> QED
        BY <2>2, <3>1, <4>1, <4>2
    <3> QED
      BY <2>1, <2>2, <3>1, <3>2 DEF WaitBound
  <2>7. CASE Run(j)
    <3>1. /\ wait_time' = [wait_time EXCEPT ![j] = @ + 1]
          /\ assigned_node[j] # NULL /\ time_before_start[j] = 0
          /\ UNCHANGED <<assigned_node, time_before_start, is_done>>
      BY <2>7 DEF Run, Execute, Older, Unfinished, nodeVars
    <3> QED
      BY <2>1, <2>2, <3>1 DEF WaitBound
  <2> QED
    BY <1>2, <2>3, <2>4, <2>5, <2>6, <2>7 DEF UpdateJob
<1> QED
  BY <1>1, <1>2 DEF SimulatorStep, LoopTest, SkipMoment, StopMoments, EnterMoment,
       LeaveMoment, UpdateNodes, Terminated, clusterVars, datasetVars

\* Putting a job makes it wait no longer, and what it waits for now, its start,
\* is bound by the limit that it has not reached yet.
LEMMA PutKeepsWaitBound ==
  ASSUME ClusterTypeOK, WaitBound, UNCHANGED <<job, jobVars>>,
         NEW k \in Jobs, NEW n \in Nodes, PutJobToNode(k, n)
  PROVE  WaitBound'
<1>1. CASE assigned_node[k] # NULL
  BY <1>1 DEF PutJobToNode, WaitBound, nodeVars, jobVars
<1>2. CASE assigned_node[k] = NULL
  <2>1. /\ assigned_node' = [assigned_node EXCEPT ![k] = n]
        /\ \E d \in StartDelays(n) :
             time_before_start' = [time_before_start EXCEPT ![k] = @ + d]
        /\ assigned_node \in [Jobs -> Nodes \cup {NULL}]
        /\ time_before_start \in [Jobs -> Nat]
    BY <1>2 DEF PutJobToNode, ClusterTypeOK, NodeTypeOK
  <2>2. \A j \in Jobs \ {k} : /\ assigned_node'[j] = assigned_node[j]
                              /\ time_before_start'[j] = time_before_start[j]
    BY <2>1
  <2> QED
    BY <1>2, <2>2 DEF WaitBound, jobVars
<1> QED
  BY <1>1, <1>2

-----------------------------------------------------------------------------
\* A node has all its memory exactly when no job on it has any.
LEMMA FreeMeansIdle ==
  ASSUME NodeTypeOK, MemoryExact, NEW n \in Nodes
  PROVE  IsNodeFree(n) <=> \A j \in JobsOn(n) : job[j].mem_size = 0
<1> DEFINE mem == [j \in Jobs |-> job[j].mem_size]
<1>1. FreeMem(n) + SumOver(mem, JobsOn(n)) = NodeSpec[n].mem_size
  BY DEF MemoryExact
<1>2. JobsOn(n) \in SUBSET Jobs /\ IsFiniteSet(JobsOn(n))
  BY JobsFinite DEF JobsOn
<1>3. \A j \in JobsOn(n) : mem[j] \in Nat /\ mem[j] = job[j].mem_size
  BY <1>2, JobFields
<1>4. SumOver(mem, JobsOn(n)) = 0 <=> \A j \in JobsOn(n) : mem[j] = 0
  BY <1>2, <1>3, SumZero
<1>5. SumOver(mem, JobsOn(n)) \in Nat /\ FreeMem(n) \in Nat
  BY <1>2, <1>3, SumNat, OccupationFields
<1> QED
  <2> HIDE DEF mem
  <2>1. IsNodeFree(n) <=> SumOver(mem, JobsOn(n)) = 0
    BY <1>1, <1>5, NodeFields DEF IsNodeFree
  <2> QED
    BY <1>3, <1>4, <2>1

\* The stall time at the end of a tick is about the jobs of that very tick,
\* for cluster_update_node comes after the last job of the tick has ended.
LEMMA SimulatorKeepsStall ==
  ASSUME ClusterTypeOK, MemoryExact, StalledNodesAreIdle, SimulatorStep
  PROVE  StalledNodesAreIdle'
<1>1. CASE UpdateNodes
  <2>1. UNCHANGED <<job, assigned_node>>
    BY <1>1 DEF UpdateNodes, nodeVars, datasetVars
  <2>2. ASSUME NEW n \in Nodes
        PROVE  node_stall_time'[n] # 0 <=> \A j \in JobsOn(n) : job[j].mem_size = 0
    <3>1. IsNodeFree(n) <=> \A j \in JobsOn(n) : job[j].mem_size = 0
      BY FreeMeansIdle DEF ClusterTypeOK
    <3>2. node_stall_time'[n] = IF IsNodeFree(n) THEN node_stall_time[n] + 1 ELSE 0
      BY <1>1 DEF UpdateNodes
    <3>3. node_stall_time[n] \in Nat
      BY DEF ClusterTypeOK
    <3> QED
      BY <3>1, <3>2, <3>3
  <2> QED
    BY <2>1, <2>2 DEF StalledNodesAreIdle, JobsOn
<1>2. CASE LoopTest \/ Terminated
  <2>1. pc \in {"loop", "end"} /\ UNCHANGED <<t, node_stall_time, job, assigned_node>>
    BY <1>2 DEF LoopTest, Terminated, clusterVars, nodeVars, statVars, datasetVars
  <2> QED
    BY <2>1 DEF StalledNodesAreIdle, JobsOn
<1>3. CASE pc' \notin {"loop", "end"}
  BY <1>3 DEF StalledNodesAreIdle
<1>4. ASSUME NEW j \in Jobs, UpdateJob(j)
      PROVE  pc' \notin {"loop", "end"}
  BY <1>4, UpdateOutcomes
<1> QED
  BY <1>1, <1>2, <1>3, <1>4 DEF SimulatorStep, SkipMoment, StopMoments, EnterMoment,
       LeaveMoment, ClusterTypeOK

-----------------------------------------------------------------------------
\* The order that cluster_job_sequence_from_dataset leaves behind when the
\* earliest line is the first.
Ascending == \A p, q \in DOMAIN moments : p < q => moments[p].time < moments[q].time

\* Datasets as cluster_job_sequence_from_dataset makes them of a file whose
\* first line is the earliest (ToolchainTheorems): the moments ascend.  Of
\* other files ReleasedOnTime and WaitIsAge are false.
AscendingDatasets ==
  \A d \in Datasets : \A p, q \in DOMAIN d.moments :
    p < q => d.moments[p].time < d.moments[q].time

\* Every moment of a tick before this one, and after distribute of this one,
\* has been handed over; while distribute is at it, the moment of this tick is
\* the next one.
Handing == {"enqueue", "place"}

DueWereTaken ==
  /\ \A p \in DOMAIN moments :
       \/ moments[p].time < t
       \/ moments[p].time = t /\ pc \notin {"loop", "distribute", "end"} \cup Handing
       => p < jseq
  /\ pc \in Handing => MomentDue

\* The times of moments are clock readings.
LEMMA MomentTimes ==
  ASSUME ClusterTypeOK, NEW p \in DOMAIN moments
  PROVE  /\ p \in 1..Len(moments)
         /\ moments[p].time \in Nat
         /\ moments[p].jobs \in Seq(Jobs)
         /\ t \in Nat /\ jm \in Nat \ {0} /\ jl \in Nat \ {0} /\ jseq \in Nat \ {0}
         /\ Len(moments) \in Nat
<1>1. moments \in Seq(MomentType)
  BY DEF ClusterTypeOK
<1>2. moments[p] \in MomentType
  BY <1>1
<1> QED
  BY <1>1, <1>2 DEF ClusterTypeOK, MomentType

\* A job has one place in the moments.
LEMMA OnePlace ==
  ASSUME ClusterTypeOK, EachJobOnce(moments),
         NEW p \in DOMAIN moments, NEW i \in DOMAIN moments[p].jobs,
         NEW q \in DOMAIN moments, NEW k \in DOMAIN moments[q].jobs,
         moments[p].jobs[i] = moments[q].jobs[k]
  PROVE  p = q /\ i = k
<1> DEFINE j == moments[p].jobs[i]
<1>1. j \in Jobs
  BY MomentTimes
<1>2. EachJobOnce(moments)
  OBVIOUS
<1>3. moments[p].jobs[i] = j /\ moments[q].jobs[k] = j
  OBVIOUS
<1> HIDE DEF j
<1>4. \E r \in DOMAIN moments : \E h \in DOMAIN moments[r].jobs :
        /\ moments[r].jobs[h] = j
        /\ \A s \in DOMAIN moments : \A l \in DOMAIN moments[s].jobs :
             moments[s].jobs[l] = j => s = r /\ l = h
  BY <1>1, <1>2 DEF EachJobOnce
<1>5. PICK r \in DOMAIN moments : \E h \in DOMAIN moments[r].jobs :
        \A s \in DOMAIN moments : \A l \in DOMAIN moments[s].jobs :
          moments[s].jobs[l] = j => s = r /\ l = h
  BY <1>4
<1>6. PICK h \in DOMAIN moments[r].jobs :
        \A s \in DOMAIN moments : \A l \in DOMAIN moments[s].jobs :
          moments[s].jobs[l] = j => s = r /\ l = h
  BY <1>5
<1> QED
  BY <1>3, <1>6

\* No scheduler takes a job from its node or moves it: it ends there.
LeavesByEnding ==
  \A j \in Jobs :
    assigned_node[j] # NULL /\ assigned_node'[j] # assigned_node[j] => is_done'[j]

\* Putting a job that is on a node does nothing (put_job_to_node.c:20).
LEMMA PutTakesNone ==
  ASSUME NodeTypeOK, NEW j \in Jobs, NEW n \in Nodes, PutJobToNode(j, n)
  PROVE  LeavesByEnding
BY DEF PutJobToNode, nodeVars, LeavesByEnding, NodeTypeOK

\* Between two calls of the scheduler the simulator hands nothing over and is
\* at none of the scheduler's places.
LEMMA SimulatorFrame ==
  ASSUME SimulatorStep
  PROVE  /\ jseq' = jseq
         /\ pc \in {"loop", "moment", "job", "nodes", "end"}
         /\ pc' \in {"loop", "distribute", "moment", "job", "nodes", "end"}
BY DEF SimulatorStep, LoopTest, SkipMoment, StopMoments, EnterMoment, LeaveMoment,
       UpdateNodes, Terminated, clusterVars, UpdateJob, AlreadyDone, KeepWaiting,
       Expire, CountDown, Run, Complete, Updating

\* The clock moves only after the moment of its tick was taken.
LEMMA SimulatorKeepsDue ==
  ASSUME ClusterTypeOK, DueWereTaken, SimulatorStep
  PROVE  DueWereTaken'
<1>1. CASE UpdateNodes
  <2>1. pc = "nodes" /\ pc' = "loop" /\ t' = t + 1 /\ UNCHANGED <<moments, jseq>>
    BY <1>1 DEF UpdateNodes, datasetVars
  <2>2. ASSUME NEW p \in DOMAIN moments, moments[p].time < t + 1
        PROVE  p < jseq
    <3>1. moments[p].time < t \/ moments[p].time = t
      BY <2>2, MomentTimes
    <3> QED
      BY <2>1, <3>1 DEF DueWereTaken, Handing
  <2> QED
    BY <2>1, <2>2 DEF DueWereTaken, Handing
<1>2. CASE ~UpdateNodes
  <2>1. UNCHANGED <<moments, t, jseq>>
    BY <1>2, UpdateOutcomes DEF SimulatorStep, LoopTest, SkipMoment, StopMoments,
         EnterMoment, LeaveMoment, Terminated, clusterVars, datasetVars
  <2>2. \/ pc \notin {"loop", "distribute", "end"}
        \/ pc' \in {"loop", "distribute", "end"}
    BY <1>2, UpdateOutcomes DEF SimulatorStep, LoopTest, SkipMoment, StopMoments,
         EnterMoment, LeaveMoment, Terminated, clusterVars
  <2>3. pc \notin Handing /\ pc' \notin Handing
    BY SimulatorFrame DEF Handing
  <2> QED
    BY <2>1, <2>2, <2>3 DEF DueWereTaken
<1> QED
  BY <1>1, <1>2

\* The moment of a tick is the next one: an earlier one would have been taken.
LEMMA TakenInTime ==
  ASSUME ClusterTypeOK, Ascending, DueWereTaken, UNCHANGED <<moments, t>>,
         pc' = "schedule",
         \/ MomentDue /\ jseq' = jseq + 1
         \/ ~MomentDue /\ jseq' = jseq
  PROVE  DueWereTaken'
<1> SUFFICES ASSUME NEW p \in DOMAIN moments, moments[p].time <= t
             PROVE  p < jseq'
  BY MomentTimes DEF DueWereTaken, Handing
<1>1. p < jseq \/ moments[p].time = t
  BY MomentTimes DEF DueWereTaken
<1>2. jseq' \in {jseq, jseq + 1}
  OBVIOUS
<1>3. CASE p < jseq
  BY <1>2, <1>3, MomentTimes
<1>4. CASE ~(p < jseq) /\ moments[p].time = t
  <2>1. jseq \in DOMAIN moments
    <3>1. jseq \in 1..Len(moments)
      BY <1>4, MomentTimes
    <3> QED
      BY <3>1 DEF ClusterTypeOK
  <2>2. moments[jseq].time \in Nat /\ ~(moments[jseq].time < t)
    BY <2>1, MomentTimes DEF DueWereTaken
  <2>3. p = jseq
    BY <1>4, <2>1, <2>2, MomentTimes DEF Ascending
  <2>4. MomentDue
    BY <1>4, <2>3, MomentTimes DEF MomentDue
  <2> QED
    BY <2>3, <2>4, MomentTimes
<1> QED
  BY <1>1, <1>3, <1>4

\* The rest of the scheduler's steps stay before distribute's end or behind it.
LEMMA SchedulerKeepsDue ==
  ASSUME ClusterTypeOK, DueWereTaken, UNCHANGED <<moments, t, jseq>>,
         \/ pc \in {"distribute"} \cup Handing /\ MomentDue /\ pc' \in Handing
         \/ pc \notin {"loop", "distribute", "end"} \cup Handing /\ pc' \notin Handing
  PROVE  DueWereTaken'
BY DEF DueWereTaken, MomentDue, Handing

\* When the scheduler runs, that is what README.md:7 promises.
LEMMA DueIsReleased ==
  ASSUME ClusterTypeOK, DueWereTaken
  PROVE  ReleasedOnTime
BY MomentTimes DEF DueWereTaken, ReleasedOnTime, Handing

-----------------------------------------------------------------------------
\* The ticks a job of moment p has waited for when the clock shows now.
Age(p, now) == IF now > moments[p].time THEN now - moments[p].time - 1 ELSE 0

\* The update of this tick is past the i-th job of moment p.
Updated(p, i) ==
  \/ pc = "nodes"
  \/ pc \in {"moment", "job"} /\ p < jm
  \/ pc = "job" /\ p = jm /\ i < jl

AgeIs(p, i, now) ==
  ~is_done[moments[p].jobs[i]] => wait_time[moments[p].jobs[i]] = Age(p, now)

\* During a tick the jobs that were updated are one tick older.
AgeExact ==
  pc # "end" =>
    \A p \in DOMAIN moments : \A i \in DOMAIN moments[p].jobs :
      AgeIs(p, i, IF Updated(p, i) THEN t + 1 ELSE t)

\* A moment that is skipped has only jobs that are done.
MemoIsTrue ==
  \A p \in DOMAIN moments : everything_done[p] =>
    \A i \in DOMAIN moments[p].jobs : is_done[moments[p].jobs[i]]

\* The moment being updated has started, and all_done speaks of its jobs so far.
MomentUnderWay ==
  pc = "job" =>
    /\ jm \in DOMAIN moments
    /\ Started(jm)
    /\ all_done => \A i \in DOMAIN moments[jm].jobs :
                     i < jl => is_done[moments[jm].jobs[i]]

AgeInv == AgeExact /\ MemoIsTrue /\ MomentUnderWay

\* Both halves of a tick read the same age for a moment that has not started.
LEMMA AgeOfTheUnstarted ==
  ASSUME ClusterTypeOK, NEW p \in DOMAIN moments, ~Started(p)
  PROVE  Age(p, t + 1) = 0 /\ Age(p, t) = 0
BY MomentTimes DEF Age, Started

\* Entering and leaving moments changes no job and skips none that is alive.
LEMMA MomentsKeepAges ==
  ASSUME ClusterTypeOK, Ascending, AgeInv,
         SkipMoment \/ StopMoments \/ EnterMoment \/ LeaveMoment
  PROVE  AgeInv'
<1>1. /\ UNCHANGED <<is_done, wait_time, moments, t>>
      /\ pc \in {"moment", "job"} /\ pc' \in {"moment", "job", "nodes"}
  BY DEF SkipMoment, StopMoments, EnterMoment, LeaveMoment, jobVars, datasetVars
<1>2. MemoIsTrue'
  <2>1. CASE UNCHANGED everything_done
    BY <1>1, <2>1 DEF AgeInv, MemoIsTrue
  <2>2. CASE LeaveMoment
    <3>1. /\ pc = "job" /\ jl > Len(moments[jm].jobs)
          /\ everything_done' = [everything_done EXCEPT ![jm] = all_done]
          /\ everything_done \in [DOMAIN moments -> BOOLEAN]
      BY <2>2 DEF LeaveMoment, ClusterTypeOK
    <3>2. jm \in DOMAIN moments
      BY <3>1 DEF AgeInv, MomentUnderWay
    <3>3. \A i \in DOMAIN moments[jm].jobs : i < jl
      BY <3>1, <3>2, MomentTimes
    <3>4. all_done => \A i \in DOMAIN moments[jm].jobs : is_done[moments[jm].jobs[i]]
      BY <3>1, <3>3 DEF AgeInv, MomentUnderWay
    <3> QED
      BY <1>1, <3>1, <3>4 DEF AgeInv, MemoIsTrue
  <2> QED
    BY <2>1, <2>2 DEF SkipMoment, StopMoments, EnterMoment, stepVars
<1>3. MomentUnderWay'
  <2>1. CASE EnterMoment
    <3>1. /\ jm \in Nat \ {0} /\ jm <= Len(moments) /\ moments \in Seq(MomentType)
          /\ Started(jm) /\ jl' = 1 /\ jm' = jm
      BY <2>1 DEF EnterMoment, ClusterTypeOK
    <3>2. jm \in DOMAIN moments
      BY <3>1
    <3>3. \A i \in DOMAIN moments[jm].jobs : ~(i < 1)
      BY <3>2, MomentTimes
    <3> QED
      BY <1>1, <3>1, <3>2, <3>3 DEF MomentUnderWay, Started
  <2>2. CASE pc' # "job"
    BY <2>2 DEF MomentUnderWay
  <2> QED
    BY <2>1, <2>2 DEF SkipMoment, StopMoments, LeaveMoment
<1>4. AgeExact'
  <2> SUFFICES ASSUME NEW p \in DOMAIN moments, NEW i \in DOMAIN moments[p].jobs
               PROVE  AgeIs(p, i, IF Updated(p, i)' THEN t + 1 ELSE t)
    BY <1>1 DEF AgeExact, AgeIs, Age
  <2>1. AgeIs(p, i, IF Updated(p, i) THEN t + 1 ELSE t)
    BY <1>1 DEF AgeInv, AgeExact
  <2>2. /\ p \in Nat /\ i \in Nat \ {0} /\ i <= Len(moments[p].jobs)
        /\ jm \in Nat \ {0} /\ jl \in Nat \ {0}
    BY MomentTimes
  <2>3. CASE SkipMoment
    <3>1. /\ pc = "moment" /\ pc' = "moment" /\ jm' = jm + 1 /\ everything_done[jm]
      BY <2>3 DEF SkipMoment
    <3>2. CASE p = jm
      BY <3>1, <3>2 DEF AgeInv, MemoIsTrue, AgeIs
    <3>3. CASE p # jm
      BY <2>1, <2>2, <3>1, <3>3 DEF Updated
    <3> QED
      BY <3>2, <3>3
  <2>4. CASE StopMoments
    <3>1. /\ pc = "moment" /\ pc' = "nodes"
          /\ jm > Len(moments) \/ (jm <= Len(moments) /\ ~Started(jm))
      BY <2>4 DEF StopMoments
    <3>2. CASE p < jm
      BY <2>1, <3>1, <3>2 DEF Updated
    <3>3. CASE ~(p < jm)
      <4>1. p \in 1..Len(moments) /\ jm <= Len(moments) /\ ~Started(jm)
        BY <2>2, <3>1, <3>3, MomentTimes
      <4>2. jm \in DOMAIN moments
        BY <2>2, <4>1 DEF ClusterTypeOK
      <4>3. ~Started(p)
        <5>1. p = jm \/ moments[jm].time < moments[p].time
          BY <2>2, <3>3, <4>2 DEF Ascending
        <5> QED
          BY <4>1, <4>2, <5>1, MomentTimes DEF Started
      <4>4. Age(p, t + 1) = Age(p, t)
        BY <4>3, AgeOfTheUnstarted
      <4> QED
        BY <2>1, <4>4 DEF AgeIs
    <3> QED
      BY <3>2, <3>3
  <2>5. CASE EnterMoment
    <3>1. pc = "moment" /\ pc' = "job" /\ jm' = jm /\ jl' = 1
      BY <2>5 DEF EnterMoment
    <3>2. Updated(p, i)' <=> Updated(p, i)
      BY <2>2, <3>1 DEF Updated
    <3> QED
      BY <2>1, <3>2
  <2>6. CASE LeaveMoment
    <3>1. pc = "job" /\ pc' = "moment" /\ jm' = jm + 1 /\ jl > Len(moments[jm].jobs)
      BY <2>6 DEF LeaveMoment
    <3>2. p = jm => i < jl
      BY <2>2, <3>1, MomentTimes
    <3>3. Updated(p, i)' <=> Updated(p, i)
      BY <2>2, <3>1, <3>2 DEF Updated
    <3> QED
      BY <2>1, <3>3
  <2> QED
    BY <2>3, <2>4, <2>5, <2>6
<1> QED
  BY <1>2, <1>3, <1>4 DEF AgeInv

\* One call of cluster_update_job makes its job one tick older, and no other.
LEMMA UpdateKeepsAges ==
  ASSUME ClusterTypeOK, EachJobOnce(moments), AgeInv, NEW j \in Jobs, UpdateJob(j)
  PROVE  AgeInv'
<1>1. /\ pc = "job" /\ pc' = "job"
      /\ jl <= Len(moments[jm].jobs) /\ jl' = jl + 1
      /\ j = moments[jm].jobs[jl]
      /\ UNCHANGED <<moments, everything_done, jm, t>>
      /\ StaysDone(j) \/ Ages(j) \/ Ends(j)
  BY UpdateOutcomes DEF datasetVars
<1>2. /\ jm \in DOMAIN moments /\ Started(jm)
      /\ all_done => \A i \in DOMAIN moments[jm].jobs :
                       i < jl => is_done[moments[jm].jobs[i]]
  BY <1>1 DEF AgeInv, MomentUnderWay
<1>3. jl \in DOMAIN moments[jm].jobs
  BY <1>1, <1>2, MomentTimes
<1>4. ASSUME NEW p \in DOMAIN moments, NEW i \in DOMAIN moments[p].jobs,
             moments[p].jobs[i] = j
      PROVE  p = jm /\ i = jl
  BY <1>1, <1>2, <1>3, <1>4 DEF EachJobOnce
<1>5. /\ is_done \in [Jobs -> BOOLEAN] /\ wait_time \in [Jobs -> Nat]
      /\ all_done \in BOOLEAN
  BY DEF ClusterTypeOK
<1>6. /\ \A k \in Jobs : is_done[k] => is_done'[k]
      /\ \A k \in Jobs \ {j} : is_done'[k] = is_done[k] /\ wait_time'[k] = wait_time[k]
      /\ ~is_done'[j] => wait_time'[j] = wait_time[j] + 1 /\ ~is_done[j]
      /\ all_done' => all_done /\ is_done'[j]
  BY <1>1, <1>5 DEF StaysDone, Ages, Ends, jobVars
<1>7. \A p \in DOMAIN moments : \A i \in DOMAIN moments[p].jobs : moments[p].jobs[i] \in Jobs
  BY MomentTimes
<1>8. MemoIsTrue'
  BY <1>1, <1>6, <1>7 DEF AgeInv, MemoIsTrue
<1>9. MomentUnderWay'
  <2>1. ASSUME all_done', NEW i \in DOMAIN moments[jm].jobs, i < jl + 1
        PROVE  is_done'[moments[jm].jobs[i]]
    <3>1. i < jl \/ i = jl
      BY <1>2, <2>1, MomentTimes
    <3> QED
      BY <1>1, <1>2, <1>6, <1>7, <2>1, <3>1
  <2> QED
    BY <1>1, <1>2, <2>1 DEF MomentUnderWay, Started
<1>10. AgeExact'
  <2> SUFFICES ASSUME NEW p \in DOMAIN moments, NEW i \in DOMAIN moments[p].jobs,
                      ~is_done'[moments[p].jobs[i]]
               PROVE  wait_time'[moments[p].jobs[i]]
                        = Age(p, IF Updated(p, i)' THEN t + 1 ELSE t)
    BY <1>1 DEF AgeExact, AgeIs, Age
  <2>1. AgeIs(p, i, IF Updated(p, i) THEN t + 1 ELSE t)
    BY <1>1 DEF AgeInv, AgeExact
  <2>2. /\ p \in Nat /\ i \in Nat \ {0} /\ jm \in Nat \ {0} /\ jl \in Nat \ {0}
        /\ moments[p].time \in Nat /\ t \in Nat
    BY MomentTimes
  <2>3. CASE moments[p].jobs[i] = j
    <3>1. p = jm /\ i = jl
      BY <1>4, <2>3
    <3>2. ~Updated(p, i) /\ Updated(p, i)'
      BY <1>1, <2>2, <3>1 DEF Updated
    <3>3. wait_time[j] = Age(p, t) /\ wait_time'[j] = wait_time[j] + 1
      BY <1>6, <2>1, <2>3, <3>2 DEF AgeIs
    <3>4. Age(p, t + 1) = Age(p, t) + 1
      BY <1>2, <2>2, <3>1 DEF Age, Started
    <3> QED
      BY <2>3, <3>2, <3>3, <3>4
  <2>4. CASE moments[p].jobs[i] # j
    <3>1. ~(p = jm /\ i = jl)
      BY <1>1, <2>4
    <3>2. Updated(p, i)' <=> Updated(p, i)
      BY <1>1, <2>2, <3>1 DEF Updated
    <3> QED
      BY <1>6, <1>7, <2>1, <2>4, <3>2 DEF AgeIs
  <2> QED
    BY <2>3, <2>4
<1> QED
  BY <1>8, <1>9, <1>10 DEF AgeInv

\* So a whole tick makes every job that is alive and has started one older.
LEMMA SimulatorKeepsAges ==
  ASSUME ClusterTypeOK, Ascending, EachJobOnce(moments), AgeInv, SimulatorStep
  PROVE  AgeInv'
<1>1. CASE LoopTest \/ Terminated
  <2>1. /\ UNCHANGED <<is_done, wait_time, moments, everything_done, t>>
        /\ pc \in {"loop", "end"} /\ pc' \in {"distribute", "end"}
        /\ pc = "end" => pc' = "end"
    BY <1>1 DEF LoopTest, Terminated, clusterVars, jobVars, datasetVars, stepVars
  <2> QED
    BY <2>1 DEF AgeInv, AgeExact, AgeIs, Age, MemoIsTrue, MomentUnderWay, Updated
<1>2. CASE UpdateNodes
  <2>1. /\ UNCHANGED <<is_done, wait_time, moments, everything_done>>
        /\ pc = "nodes" /\ pc' = "loop" /\ t' = t + 1
    BY <1>2 DEF UpdateNodes, jobVars, datasetVars, stepVars
  <2> QED
    BY <2>1 DEF AgeInv, AgeExact, AgeIs, Age, MemoIsTrue, MomentUnderWay, Updated
<1> QED
  BY <1>1, <1>2, MomentsKeepAges, UpdateKeepsAges DEF SimulatorStep

\* The scheduler makes no job older: it runs before the updates of its tick.
LEMMA SchedulerKeepsAges ==
  ASSUME ClusterTypeOK, AgeInv,
         UNCHANGED <<is_done, wait_time, moments, everything_done, t>>,
         pc \notin {"moment", "job", "nodes", "end"},
         pc' \notin {"job", "nodes", "end"},
         pc' = "moment" => jm' = 1
  PROVE  AgeInv'
<1>1. \A p \in DOMAIN moments : \A i \in DOMAIN moments[p].jobs :
        ~Updated(p, i) /\ ~Updated(p, i)'
  BY MomentTimes DEF Updated
<1>2. AgeExact'
  BY <1>1 DEF AgeInv, AgeExact, AgeIs, Age
<1> QED
  BY <1>2 DEF AgeInv, MemoIsTrue, MomentUnderWay

\* A step that changes nothing.
LEMMA AgeFrame ==
  ASSUME AgeInv, UNCHANGED clusterVars
  PROVE  AgeInv'
BY DEF clusterVars, jobVars, datasetVars, stepVars, AgeInv, AgeExact, AgeIs, Age,
       Updated, MemoIsTrue, MomentUnderWay, Started

\* Nobody has waited when the simulation starts.
LEMMA ClusterStartsYoung ==
  ASSUME ClusterInit, ClusterTypeOK
  PROVE  AgeInv
<1>1. ASSUME NEW p \in DOMAIN moments, NEW i \in DOMAIN moments[p].jobs
      PROVE  AgeIs(p, i, IF Updated(p, i) THEN t + 1 ELSE t)
  <2>1. moments[p].jobs[i] \in Jobs /\ moments[p].time \in Nat
    BY <1>1, MomentTimes
  <2> QED
    BY <2>1 DEF ClusterInit, AgeIs, Age, Updated
<1> QED
  BY <1>1 DEF AgeInv, AgeExact, MemoIsTrue, MomentUnderWay, ClusterInit

LEMMA AgesAreWaits ==
  ASSUME AgeInv
  PROVE  WaitIsAge
BY DEF AgeInv, AgeExact, AgeIs, Age, Updated, WaitIsAge
=============================================================================
