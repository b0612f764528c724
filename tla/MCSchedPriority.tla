-------------------------- MODULE MCSchedPriority --------------------------
(***************************************************************************)
(* Instances of the simulator with the priority scheduler.  The third node *)
(* is the fastest, is inserted before the first one and so never seen.     *)
(***************************************************************************)
EXTENDS SchedPriority, MomentList

JobOf(mem, threads, estimated, wait, prio) ==
  [required_features |-> {}, mem_size |-> mem, cpu_count |-> 0,
   thread_count |-> threads, estimated_time |-> estimated,
   max_exec_time |-> estimated, max_wait_time |-> wait, priority |-> prio]

Load(jobs, times) ==
  [job     |-> jobs,
   moments |-> FoldLeft(LAMBDA ms, j : AddJobMoment(ms, j, times[j]), <<>>,
                        [j \in Jobs |-> j])]

NodeOf(mem, threads, rate, response) ==
  [features |-> {}, mem_size |-> mem, cpu_count |-> 1,
   thread_count |-> threads, exec_rate |-> rate, response_time |-> response,
   response_time_variance |-> 1, delay_min |-> 0, delay_max |-> 0]

ThreeNodes == <<NodeOf(2, 2, 1, 0), NodeOf(1, 2, 1, 1), NodeOf(2, 2, 2, 0)>>
OneNode    == <<NodeOf(2, 2, 1, 0)>>

Shapes ==
  {JobOf(2, 1, 3, 5, 2), JobOf(2, 1, 2, 4, 0), JobOf(1, 1, 2, 3, 1),
   JobOf(1, 2, 3, 2, 3)}

\* One job in every moment, as far apart or as close as the times say.
SingleJobs ==
  {Load(jobs, times) : jobs \in [Jobs -> Shapes],
                       times \in {<<0, 1, 2, 3, 4>>, <<0, 2, 3, 4, 8>>}}

\* A job that holds the node and one that waits, then a moment of two jobs
\* behind the one that waits.
Big(prio) == JobOf(2, 1, 9, 20, prio)

SharedMoment ==
  {Load(<<Big(0), Big(p), Big(q), Big(r)>>, <<0, 1, 2, 2>>) :
     p \in 0..2, q \in 0..2, r \in 0..2}
=============================================================================
