-------------------------- MODULE MCSchedBackfill --------------------------
(***************************************************************************)
(* Instances of the simulator with backfill: jobs of different priorities  *)
(* and moments on one node of two cores and one of a single core.          *)
(***************************************************************************)
EXTENDS SchedBackfill, MomentList

JobOf(mem, cpus, threads, estimated, wait, prio) ==
  [required_features |-> {}, mem_size |-> mem, cpu_count |-> cpus,
   thread_count |-> threads, estimated_time |-> estimated,
   max_exec_time |-> estimated, max_wait_time |-> wait, priority |-> prio]

Load(jobs, times) ==
  [job     |-> jobs,
   moments |-> FoldLeft(LAMBDA ms, j : AddJobMoment(ms, j, times[j]), <<>>,
                        [j \in Jobs |-> j])]

NodeOf(mem, cores, threads, rate, response) ==
  [features |-> {}, mem_size |-> mem, cpu_count |-> cores,
   thread_count |-> threads, exec_rate |-> rate, response_time |-> response,
   response_time_variance |-> 0,
   delay_min |-> 0, delay_max |-> 0]

TwoNodes == <<NodeOf(2, 2, 2, 1, 1), NodeOf(2, 1, 2, 2, 0)>>
OneNode  == <<NodeOf(2, 1, 2, 1, 0)>>

Big   == JobOf(2, 1, 2, 2, 4, 1)
Small == JobOf(1, 0, 1, 1, 2, 2)
Split == JobOf(1, 2, 1, 2, 3, 0)
Huge  == JobOf(9, 0, 1, 1, 3, 0)

Datasets4 ==
  {Load(jobs, times) :
     jobs  \in [Jobs -> {Big, Small, Split, Huge}],
     times \in {<<0, 0, 0, 0>>, <<0, 1, 1, 0>>, <<0, 0, 1, 2>>, <<1, 2, 2, 3>>}}

\* The second job expires while the first one holds the only node, and a third
\* one keeps the simulation going.
ExpiringDatasets ==
  {Load(<<Big, [Big EXCEPT !.max_wait_time = 1], Big>>, <<0, 0, 5>>)}
=============================================================================
