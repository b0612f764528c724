------------------------------ MODULE Cluster ------------------------------
(***************************************************************************)
(* The simulator: the loop of cluster_simulate, one tick a turn, which     *)
(* hands a due moment to the scheduler, lets it schedule, updates every    *)
(* started moment's jobs (cluster_simulation_step, cluster_update_job) and *)
(* then every node (cluster_update_node).                                  *)
(*                                                                         *)
(* The program is one thread.  pc says where the loop is, and each action  *)
(* is one turn of one of its loops.  A scheduler module extends this one:  *)
(* it gives the actions for pc = "distribute" and "schedule" and ends them *)
(* with StepStarts.  The running averages (float) are left out; the sample *)
(* count of the stall time, which decides a division, is kept.  No         *)
(* scheduler reserves, so _update_reservations finds an empty list.        *)
(***************************************************************************)
EXTENDS Node, Sequences

CONSTANT Datasets   \* loaded job datasets: [job, moments]

\* What cluster_job_sequence_from_dataset leaves behind (module JobSequence).
MomentType == [time : Nat, jobs : Seq(Jobs)]

EachJobOnce(ms) ==
  \A j \in Jobs : \E p \in DOMAIN ms : \E i \in DOMAIN ms[p].jobs :
    /\ ms[p].jobs[i] = j
    /\ \A q \in DOMAIN ms : \A k \in DOMAIN ms[q].jobs :
         ms[q].jobs[k] = j => q = p /\ k = i

ASSUME DatasetsAssumption ==
  \A d \in Datasets :
    /\ d.job \in [Jobs -> JobType]
    /\ d.moments \in Seq(MomentType)
    /\ \A p \in DOMAIN d.moments : d.moments[p].jobs # <<>>
    /\ EachJobOnce(d.moments)

VARIABLES
  moments,               \* cluster_t.job_sequence
  everything_done,       \* job_moment_list_t.is_everything_done, by moment
  wait_time,             \* job_t.wait_time
  exec_time,             \* job_t.exec_time
  is_done,               \* job_t.is_done
  is_complete,           \* job_t.is_complete
  jobs_done,             \* statistics_t.jobs_done
  jobs_complete,         \* statistics_t.jobs_complete
  node_stall_time,       \* node_load_stats_t.node_stall_time
  average_stall_time_sc, \* statistics_t.average_stall_time_sc
  t,                     \* the clock of cluster_simulate
  jseq,                  \* the next moment to distribute
  jm, jl,                \* the moment and job being updated
  all_done,              \* is_everything_done, the local of simulation_step
  pc                     \* where the program is

jobVars     == <<wait_time, exec_time, is_done, is_complete>>
statVars    == <<jobs_done, jobs_complete, node_stall_time, average_stall_time_sc>>
datasetVars == <<job, moments>>
stepVars    == <<everything_done, jm, jl, all_done>>
clusterVars ==
  <<nodeVars, jobVars, statVars, datasetVars, stepVars, t, jseq, pc>>

ClusterInit ==
  /\ \E d \in Datasets : job = d.job /\ moments = d.moments
  /\ NodeInit
  /\ everything_done = [p \in DOMAIN moments |-> FALSE]
  /\ wait_time   = [j \in Jobs |-> 0]
  /\ exec_time   = [j \in Jobs |-> 0]
  /\ is_done     = [j \in Jobs |-> FALSE]
  /\ is_complete = [j \in Jobs |-> FALSE]
  /\ jobs_done = 0
  /\ jobs_complete = 0
  /\ node_stall_time = [n \in Nodes |-> 0]
  /\ average_stall_time_sc = 0
  /\ t = 0
  /\ jseq = 1
  /\ jm = 1
  /\ jl = 1
  /\ all_done = TRUE
  /\ pc = "loop"

-----------------------------------------------------------------------------
(***************************************************************************)
(* cluster_simulate                                                        *)
(***************************************************************************)
LoopTest ==
  /\ pc = "loop"
  /\ pc' = IF jobs_done < JobCount THEN "distribute" ELSE "end"
  /\ UNCHANGED <<nodeVars, jobVars, statVars, datasetVars, stepVars, t, jseq>>

\* Mutant: handed over a tick late.
MomentDueLate == jseq <= Len(moments) /\ t = moments[jseq].time + 1

\* A moment is handed over only in the tick that equals its time.
MomentDue == jseq <= Len(moments) /\ t = moments[jseq].time

\* For the scheduler: the due moment is handed over, or none is due.
MomentTaken ==
  /\ pc = "distribute"
  /\ MomentDue
  /\ jseq' = jseq + 1
  /\ pc' = "schedule"
  /\ UNCHANGED <<nodeVars, jobVars, statVars, datasetVars, stepVars, t>>

NoMomentDue ==
  /\ pc = "distribute"
  /\ ~MomentDue
  /\ pc' = "schedule"
  /\ UNCHANGED <<nodeVars, jobVars, statVars, datasetVars, stepVars, t, jseq>>

\* For the scheduler: schedule() returns and cluster_simulation_step starts.
StepStarts == pc' = "moment" /\ jm' = 1

\* After _finalize_statistics the results are printed and the program ends.
Terminated == pc = "end" /\ UNCHANGED clusterVars

-----------------------------------------------------------------------------
(***************************************************************************)
(* cluster_simulation_step: the loop over the moments                      *)
(***************************************************************************)

\* The jobs of a moment wait and run from the tick after it.
Started(p) == moments[p].time < t

SkipMoment ==
  /\ pc = "moment"
  /\ jm <= Len(moments)
  /\ everything_done[jm]
  /\ jm' = jm + 1
  /\ UNCHANGED <<nodeVars, jobVars, statVars, datasetVars, everything_done,
                 jl, all_done, t, jseq, pc>>

\* A moment of this tick or a later one ends the loop: its jobs do not wait yet.
StopMoments ==
  /\ pc = "moment"
  /\ \/ jm > Len(moments)
     \/ /\ jm <= Len(moments)
        /\ ~everything_done[jm]
        /\ ~Started(jm)
  /\ pc' = "nodes"
  /\ UNCHANGED <<nodeVars, jobVars, statVars, datasetVars, stepVars, t, jseq>>

EnterMoment ==
  /\ pc = "moment"
  /\ jm <= Len(moments)
  /\ ~everything_done[jm]
  /\ Started(jm)
  /\ all_done' = TRUE
  /\ jl' = 1
  /\ pc' = "job"
  /\ UNCHANGED <<nodeVars, jobVars, statVars, datasetVars, everything_done,
                 jm, t, jseq>>

LeaveMoment ==
  /\ pc = "job"
  /\ jl > Len(moments[jm].jobs)
  /\ everything_done' = [everything_done EXCEPT ![jm] = all_done]
  /\ jm' = jm + 1
  /\ pc' = "moment"
  /\ UNCHANGED <<nodeVars, jobVars, statVars, datasetVars, jl, all_done, t, jseq>>

-----------------------------------------------------------------------------
(***************************************************************************)
(* cluster_update_job, one action per way through it                       *)
(***************************************************************************)
CurrentJob == moments[jm].jobs[jl]

\* Mutant: = for &=, the last job of the moment decides.
UpdatingLast(j, done) ==
  /\ pc = "job"
  /\ jl <= Len(moments[jm].jobs)
  /\ j = CurrentJob
  /\ jl' = jl + 1
  /\ all_done' = done
  /\ UNCHANGED <<datasetVars, everything_done, jm, t, jseq, pc, node_stall_time,
                 average_stall_time_sc>>

\* The next job of the moment is j; done says what cluster_update_job returns.
Updating(j, done) ==
  /\ pc = "job"
  /\ jl <= Len(moments[jm].jobs)
  /\ j = CurrentJob
  /\ jl' = jl + 1
  /\ all_done' = (all_done /\ done)
  /\ UNCHANGED <<datasetVars, everything_done, jm, t, jseq, pc, node_stall_time,
                 average_stall_time_sc>>

AlreadyDone(j) ==
  /\ is_done[j]
  /\ Updating(j, TRUE)
  /\ UNCHANGED <<nodeVars, jobVars, jobs_done, jobs_complete>>

\* Mutant: a done job is updated once more.
OlderAlways(j) == wait_time' = [wait_time EXCEPT ![j] = @ + 1]

\* Every job that is not done grows older, running or not.
Older(j) ==
  /\ ~is_done[j]
  /\ wait_time' = [wait_time EXCEPT ![j] = @ + 1]

\* Mutant: the job stays on its node.
FinishInPlace(j) ==
  /\ is_done' = [is_done EXCEPT ![j] = TRUE]
  /\ jobs_done' = jobs_done + 1
  /\ UNCHANGED nodeVars

Finish(j) ==
  /\ is_done' = [is_done EXCEPT ![j] = TRUE]
  /\ jobs_done' = jobs_done + 1
  /\ RemoveJobFromNode(j)
  /\ UNCHANGED time_before_start

Unfinished == UNCHANGED <<is_done, is_complete, jobs_done, jobs_complete>>

KeepWaiting(j) ==
  /\ Older(j)
  /\ assigned_node[j] = NULL
  /\ wait_time'[j] < job[j].max_wait_time
  /\ Updating(j, FALSE)
  /\ Unfinished
  /\ UNCHANGED <<nodeVars, exec_time>>

\* Mutant: the tick under way is not counted.
WaitedBefore(j) ==
  IF assigned_node[j] = NULL
    THEN wait_time[j] >= job[j].max_wait_time
    ELSE time_before_start[j] # 0 /\ wait_time[j] = job[j].max_wait_time

\* A job on no node expires at max_wait_time or after it; one whose start is
\* still delayed only in the very tick that reaches it.
WaitedTooLong(j) ==
  IF assigned_node[j] = NULL
    THEN wait_time[j] + 1 >= job[j].max_wait_time
    ELSE time_before_start[j] # 0 /\ wait_time[j] + 1 = job[j].max_wait_time

Expire(j) ==
  /\ Older(j)
  /\ WaitedTooLong(j)
  /\ Updating(j, TRUE)
  /\ Finish(j)
  /\ UNCHANGED <<exec_time, is_complete, jobs_complete>>

CountDown(j) ==
  /\ Older(j)
  /\ assigned_node[j] # NULL
  /\ time_before_start[j] # 0
  /\ ~WaitedTooLong(j)
  /\ time_before_start' = [time_before_start EXCEPT ![j] = @ - 1]
  /\ Updating(j, FALSE)
  /\ Unfinished
  /\ UNCHANGED <<assigned_node, occupation, overrun, exec_time>>

\* exec_rate is the integer part of the node's rate: (quantum_t) truncates.
Execute(j) ==
  /\ Older(j)
  /\ assigned_node[j] # NULL
  /\ time_before_start[j] = 0
  /\ exec_time' = [exec_time EXCEPT ![j] = @ + NodeSpec[assigned_node[j]].exec_rate]

Run(j) ==
  /\ Execute(j)
  /\ exec_time'[j] < job[j].estimated_time
  /\ Updating(j, FALSE)
  /\ Unfinished
  /\ UNCHANGED nodeVars

Complete(j) ==
  /\ Execute(j)
  /\ exec_time'[j] >= job[j].estimated_time
  /\ Updating(j, TRUE)
  /\ is_complete' = [is_complete EXCEPT ![j] = TRUE]
  /\ jobs_complete' = jobs_complete + 1
  /\ Finish(j)

UpdateJob(j) ==
  \/ AlreadyDone(j) \/ KeepWaiting(j) \/ Expire(j)
  \/ CountDown(j) \/ Run(j) \/ Complete(j)

-----------------------------------------------------------------------------
(***************************************************************************)
(* cluster_update_node for every node, and the end of the tick             *)
(***************************************************************************)

\* Mutant: some memory is enough.
HasFreeMemory(n) == FreeMem(n) # 0

\* _is_node_free looks at memory only.
IsNodeFree(n) == FreeMem(n) = NodeSpec[n].mem_size

UpdateNodes ==
  /\ pc = "nodes"
  /\ node_stall_time' = [n \in Nodes |-> IF IsNodeFree(n)
                                           THEN node_stall_time[n] + 1
                                           ELSE 0]
  /\ average_stall_time_sc' = average_stall_time_sc
       + Cardinality({n \in Nodes : ~IsNodeFree(n) /\ node_stall_time[n] # 0})
  /\ t' = t + 1
  /\ pc' = "loop"
  /\ UNCHANGED <<nodeVars, jobVars, jobs_done, jobs_complete, datasetVars,
                 stepVars, jseq>>

\* What the simulator does between two calls of the scheduler.
SimulatorStep ==
  \/ LoopTest
  \/ SkipMoment \/ StopMoments \/ EnterMoment \/ LeaveMoment
  \/ \E j \in Jobs : UpdateJob(j)
  \/ UpdateNodes
  \/ Terminated

ClusterTypeOK ==
  /\ NodeTypeOK
  /\ moments \in Seq(MomentType)
  /\ everything_done \in [DOMAIN moments -> BOOLEAN]
  /\ wait_time \in [Jobs -> Nat]
  /\ exec_time \in [Jobs -> Nat]
  /\ is_done \in [Jobs -> BOOLEAN]
  /\ is_complete \in [Jobs -> BOOLEAN]
  /\ jobs_done \in Nat
  /\ jobs_complete \in Nat
  /\ node_stall_time \in [Nodes -> Nat]
  /\ average_stall_time_sc \in Nat
  /\ t \in Nat
  /\ jseq \in Nat \ {0}
  /\ jm \in Nat \ {0}
  /\ jl \in Nat \ {0}
  /\ all_done \in BOOLEAN
  /\ pc \in {"loop", "distribute", "enqueue", "place", "schedule", "skip",
             "visit", "moment", "job", "nodes", "end"}

-----------------------------------------------------------------------------
(***************************************************************************)
(* What the simulator promises under every scheduler.                      *)
(***************************************************************************)

\* A job that is done holds no node: update_job.c:57 takes it off, and no
\* scheduler may put it back, for update_job.c:13 would never remove it again.
NoZombie == \A j \in Jobs : is_done[j] => assigned_node[j] = NULL

\* The statistics count every job once: the loop of simulate.c:30 stops
\* exactly when all jobs are done, and none is complete without being done.
CountsExact ==
  /\ jobs_done = Cardinality({j \in Jobs : is_done[j]})
  /\ jobs_complete = Cardinality({j \in Jobs : is_complete[j]})
  /\ \A j \in Jobs : is_complete[j] => is_done[j]

\* README.md:11, max_wait_time: a job that has not started never waits that
\* long, though update_job.c:34 tests a delayed start with == and not >=.  A
\* limit of 0 is never met there: it binds only a job that is on no node.
WaitBound ==
  \A j \in Jobs :
    /\ ~is_done[j]
    /\ \/ assigned_node[j] = NULL
       \/ time_before_start[j] # 0 /\ job[j].max_wait_time # 0
    /\ wait_time[j] # 0
    => wait_time[j] < job[j].max_wait_time

\* At the top of the loop a job that is not done has waited one tick for each
\* tick since its moment: the break of simulation_step.c:21 and the memo of
\* simulation_step.c:19 skip no job that had to be updated.
WaitIsAge ==
  pc = "loop" =>
    \A p \in DOMAIN moments : \A i \in DOMAIN moments[p].jobs :
      LET j == moments[p].jobs[i]
      IN  ~is_done[j] =>
            wait_time[j] = IF t > moments[p].time THEN t - moments[p].time - 1 ELSE 0

\* README.md:7, moment: when the scheduler runs in a tick, the jobs of every
\* moment up to that tick have been distributed (simulate.c:40).
ReleasedOnTime ==
  pc = "schedule" =>
    \A p \in DOMAIN moments : moments[p].time <= t => p < jseq

\* At the end of a tick a node that counts as stalled holds no job, but for
\* jobs without memory, which update_node.c:37 does not see, and a node that
\* does not is in use: the stall time is about the jobs of this very tick.
StalledNodesAreIdle ==
  pc \in {"loop", "end"} /\ t # 0 =>
    \A n \in Nodes :
      node_stall_time[n] # 0 <=> \A j \in JobsOn(n) : job[j].mem_size = 0

\* simulate.c:152 divides by the samples of the stall time, those taken and the
\* nodes that are stalled when the loop ends.  A cluster that is busy from the
\* first tick on takes no sample: what saves the division is that the last tick
\* takes the last jobs off their nodes before it updates them.  A dataset
\* without jobs ends before any tick (t = 0), and divides 0 by 0.
StallAverageDefined ==
  pc = "end" /\ t # 0 /\ Nodes # {} =>
    average_stall_time_sc + Cardinality({n \in Nodes : node_stall_time[n] # 0}) # 0
=============================================================================
