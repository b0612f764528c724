---------------------------- MODULE MCSchedFifo ----------------------------
(***************************************************************************)
(* Instances of the simulator with FIFO: three jobs competing for two      *)
(* nodes, over every mix of a few job shapes and of their moments.  The    *)
(* datasets are what the job sequencer makes of the lines.                 *)
(***************************************************************************)
EXTENDS SchedFifo, MomentList

JobOf(features, mem, cpus, threads, estimated, wait) ==
  [required_features |-> features, mem_size |-> mem, cpu_count |-> cpus,
   thread_count |-> threads, estimated_time |-> estimated,
   max_exec_time |-> estimated, max_wait_time |-> wait, priority |-> 0]

Load(jobs, times) ==
  [job     |-> jobs,
   moments |-> FoldLeft(LAMBDA ms, j : AddJobMoment(ms, j, times[j]), <<>>,
                        [j \in Jobs |-> j])]

\* A slow node of two cores with a fixed response time, and one of one core
\* with a feature, twice the rate and a bus whose delay is 1 or 2.
TwoNodes ==
  <<[features |-> {}, mem_size |-> 3, cpu_count |-> 2, thread_count |-> 2,
     exec_rate |-> 1, response_time |-> 1,
     response_time_variance |-> 0, delay_min |-> 0, delay_max |-> 0],
    [features |-> {"tpu"}, mem_size |-> 2, cpu_count |-> 1, thread_count |-> 2,
     exec_rate |-> 2, response_time |-> 0,
     response_time_variance |-> 0, delay_min |-> 1, delay_max |-> 3]>>

\* A big job and a small one; one that only the second node takes; one that
\* no node ever takes; and one that cannot wait.
Big     == JobOf({}, 2, 1, 2, 2, 5)
Small   == JobOf({}, 1, 0, 1, 1, 3)
Special == JobOf({"tpu"}, 1, 1, 2, 3, 4)
Misfit  == JobOf({}, 9, 0, 1, 1, 2)
Hasty   == JobOf({}, 1, 0, 2, 2, 1)
Split   == JobOf({}, 1, 2, 1, 2, 3)
Wide    == JobOf({}, 1, 0, 3, 1, 4)

\* A limit of 0 for the wait, and no memory.
AtOnce     == JobOf({}, 1, 1, 2, 2, 0)
Weightless == JobOf({}, 0, 1, 1, 2, 3)

\* Times in the order of the lines, or with the earliest line first.
Sorted == {times \in [Jobs -> 0..2] : \A j \in Jobs : times[1] <= times[j]}

SortedDatasets ==
  {Load(jobs, times) : jobs \in [Jobs -> {Big, Small, Special, Misfit, Hasty}],
                       times \in Sorted}

MultiCoreDatasets ==
  {Load(jobs, times) : jobs \in [Jobs -> {Big, Split, Wide, AtOnce, Weightless}],
                       times \in {<<0, 0, 1>>, <<0, 2, 1>>, <<1, 1, 1>>}}

FifoDatasets == SortedDatasets \cup MultiCoreDatasets

\* The first line is not the earliest one.
UnsortedDatasets == {Load(<<Small, Small, Small>>, <<2, 0, 3>>)}
=============================================================================
