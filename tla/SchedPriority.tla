--------------------------- MODULE SchedPriority ---------------------------
(***************************************************************************)
(* The simulator with the priority scheduler (schedule_priority.c).        *)
(*                                                                         *)
(* Its queue is a chain of pointers, sched_info, whose cells are changed   *)
(* one by one, not always to what a queue needs; so the chain is kept here *)
(* as pointers.  The urgent queue is filled only with jobs that can wait   *)
(* for less than min_time_to_free, and that comes out as 0 in every tick   *)
(* (TimeToFreeIsKnown is violated).  So the loop over it,                  *)
(* _preempt_with_job and _place_job_by_wait_time are never reached and     *)
(* have no action; a job that had to go there would stop the model, and    *)
(* every run of it checks deadlock.                                        *)
(*                                                                         *)
(* init_priority returns no value; the behaviours are those in which its   *)
(* caller happens to read 0 and the simulation starts.                     *)
(***************************************************************************)
EXTENDS Cluster, SequencesExt

\* init_priority reads n[0] whatever the number of nodes is.
ASSUME PriorityAssumption == NodeCount # 0

VARIABLES
  sched_info,        \* job_list_t.sched_info, a job or NULL
  by_priority,       \* priority_queues_t.by_priority, a job or NULL
  min_time_to_free,  \* priority_queues_t.min_time_to_free
  node_by_speed,     \* priority_queues_t.node_by_speed, the nodes from that cell on
  i,                 \* the place of the local jlist of distribute_priority
  plist,             \* the local plist of _place_job_by_priority
  rest, prev_rest    \* the locals of schedule_priority

chainVars    == <<sched_info, by_priority>>
priorityVars ==
  <<chainVars, min_time_to_free, node_by_speed, i, plist, rest, prev_rest>>
vars         == <<clusterVars, priorityVars>>

-----------------------------------------------------------------------------
(***************************************************************************)
(* init_priority: the nodes in order of their speed                        *)
(***************************************************************************)
MaxResponseTime(n) ==
  NodeSpec[n].response_time + NodeSpec[n].response_time_variance
    + NodeSpec[n].delay_max

InsertBeforeFirst(l, places, n) ==
  InsertAt(l, IF places = {} THEN Len(l) + 1 ELSE Min(places), n)

\* _place_node_by_response_time: somewhere behind position p, whatever the
\* speed of the nodes it passes.
PlaceByResponseTime(l, p, n) ==
  InsertBeforeFirst(
    l, {q \in (p + 1)..Len(l) : MaxResponseTime(n) <= MaxResponseTime(l[q])}, n)

Rate(n) == NodeSpec[n].exec_rate

PlaceBySpeed(l, n) ==
  LET notFaster == {p \in DOMAIN l : Rate(n) >= Rate(l[p])}
      at        == Min(notFaster)
  IN  IF notFaster = {} THEN Append(l, n)
      ELSE IF /\ Rate(n) = Rate(l[at])
              /\ at = 1 => MaxResponseTime(n) > MaxResponseTime(l[1])
        THEN PlaceByResponseTime(l, at, n)
        ELSE InsertAt(l, at, n)

\* The whole list when node n has been placed.
NodesUpTo[n \in 1..NodeCount] ==
  IF n = 1 THEN <<1>> ELSE PlaceBySpeed(NodesUpTo[n - 1], n)

\* node_by_speed stays at the cell of the first node: what is inserted before
\* it is never seen by the scheduler.
NodeBySpeed ==
  LET all   == NodesUpTo[NodeCount]
      first == CHOOSE p \in DOMAIN all : all[p] = 1
  IN  SubSeq(all, first, Len(all))

\* What cluster_add_job_moment leaves: the jobs of a moment form a chain.
MomentChain(j) ==
  LET nexts == {q \in Jobs : \E p \in DOMAIN moments :
                  \E k \in 1..(Len(moments[p].jobs) - 1) :
                    moments[p].jobs[k] = j /\ moments[p].jobs[k + 1] = q}
  IN  IF nexts = {} THEN NULL ELSE CHOOSE q \in nexts : TRUE

Init ==
  /\ ClusterInit
  /\ sched_info = [j \in Jobs |-> MomentChain(j)]
  /\ by_priority = NULL
  /\ min_time_to_free = 0
  /\ node_by_speed = NodeBySpeed
  /\ i = 1
  /\ plist = NULL
  /\ rest = NULL
  /\ prev_rest = NULL

-----------------------------------------------------------------------------
(***************************************************************************)
(* distribute_priority, a turn of its loop for each job of the moment      *)
(***************************************************************************)
Priority(j) == job[j].priority
ToPlace     == moments[jseq].jobs[i]

DistributeFrame ==
  UNCHANGED <<nodeVars, jobVars, statVars, datasetVars, stepVars, t,
              min_time_to_free, node_by_speed, rest, prev_rest>>

StartDistribute ==
  /\ pc = "distribute"
  /\ MomentDue
  /\ IF by_priority = NULL
       THEN /\ by_priority' = moments[jseq].jobs[1]
            /\ sched_info' = [sched_info EXCEPT ![by_priority'] = NULL]
            /\ i' = 2
       ELSE i' = 1 /\ UNCHANGED chainVars
  /\ pc' = "enqueue"
  /\ DistributeFrame /\ UNCHANGED <<jseq, plist>>

\* _put_job_to_respective_queue for a job that is not urgent.
Enqueuing ==
  /\ pc = "enqueue"
  /\ i <= Len(moments[jseq].jobs)
  /\ job[ToPlace].max_wait_time >= min_time_to_free
  /\ DistributeFrame /\ UNCHANGED jseq

PlaceInFront ==
  /\ Enqueuing
  /\ Priority(ToPlace) <= Priority(by_priority)
  /\ sched_info' = [sched_info EXCEPT ![ToPlace] = by_priority]
  /\ by_priority' = ToPlace
  /\ i' = i + 1
  /\ UNCHANGED <<plist, pc>>

\* Mutant: behind the only job, whatever the priority of the two.
PlaceBehindAlways ==
  /\ Enqueuing
  /\ sched_info[by_priority] = NULL
  /\ sched_info' = [sched_info EXCEPT ![by_priority] = ToPlace]
  /\ i' = i + 1
  /\ UNCHANGED <<by_priority, plist, pc>>

\* Behind the only job of the queue; sched_info of the placed one is left.
PlaceBehindOnly ==
  /\ Enqueuing
  /\ Priority(ToPlace) > Priority(by_priority)
  /\ sched_info[by_priority] = NULL
  /\ sched_info' = [sched_info EXCEPT ![by_priority] = ToPlace]
  /\ i' = i + 1
  /\ UNCHANGED <<by_priority, plist, pc>>

StartPlacing ==
  /\ Enqueuing
  /\ Priority(ToPlace) > Priority(by_priority)
  /\ sched_info[by_priority] # NULL
  /\ plist' = by_priority
  /\ pc' = "place"
  /\ UNCHANGED <<chainVars, i>>

\* The loop of _place_job_by_priority; it ends only where the chain does, or
\* at a job that is not more important.
Placing == pc = "place" /\ DistributeFrame /\ UNCHANGED <<by_priority, jseq>>

nlist == sched_info[plist]

PlaceBefore ==
  /\ Placing
  /\ Priority(ToPlace) <= Priority(nlist)
  /\ sched_info' = [sched_info EXCEPT ![plist] = ToPlace, ![ToPlace] = nlist]
  /\ i' = i + 1
  /\ pc' = "enqueue"
  /\ UNCHANGED plist

PlaceLast ==
  /\ Placing
  /\ Priority(ToPlace) > Priority(nlist)
  /\ sched_info[nlist] = NULL
  /\ sched_info' = [sched_info EXCEPT ![nlist] = ToPlace, ![ToPlace] = NULL]
  /\ i' = i + 1
  /\ pc' = "enqueue"
  /\ UNCHANGED plist

PlaceFurther ==
  /\ Placing
  /\ Priority(ToPlace) > Priority(nlist)
  /\ sched_info[nlist] # NULL
  /\ plist' = nlist
  /\ UNCHANGED <<sched_info, i, pc>>

Distributed ==
  /\ pc = "enqueue"
  /\ i > Len(moments[jseq].jobs)
  /\ jseq' = jseq + 1
  /\ pc' = "schedule"
  /\ DistributeFrame /\ UNCHANGED <<chainVars, i, plist>>

Distribute ==
  \/ StartDistribute \/ Distributed
  \/ PlaceInFront \/ PlaceBehindOnly \/ StartPlacing
  \/ PlaceBefore \/ PlaceLast \/ PlaceFurther
  \/ NoMomentDue /\ UNCHANGED priorityVars

-----------------------------------------------------------------------------
(***************************************************************************)
(* schedule_priority: the second of its loops                              *)
(***************************************************************************)
ScheduleFrame ==
  UNCHANGED <<jobVars, statVars, datasetVars, everything_done, jl, all_done,
              t, jseq, node_by_speed, i, plist>>

StartWalk ==
  /\ pc = "schedule"
  /\ rest' = by_priority
  /\ prev_rest' = NULL
  /\ pc' = "visit"
  /\ ScheduleFrame /\ UNCHANGED <<nodeVars, jm, chainVars, min_time_to_free>>

\* _pick_node takes the first of the listed nodes that fits.
Fitting(j) == {p \in DOMAIN node_by_speed : CheckNodeForJob(j, node_by_speed[p])}

Visit ==
  /\ pc = "visit"
  /\ rest # NULL
  /\ ScheduleFrame /\ UNCHANGED <<jm, min_time_to_free, pc>>

\* prev_rest is not what comes before rest: PassOver moves it along.
Unlink ==
  LET linked == IF prev_rest = NULL THEN sched_info
                ELSE [sched_info EXCEPT ![prev_rest] = sched_info[rest]]
  IN  /\ by_priority' = IF prev_rest = NULL THEN sched_info[rest] ELSE by_priority
      /\ sched_info' = [linked EXCEPT ![rest] = NULL]
      /\ rest' = IF prev_rest = NULL THEN by_priority' ELSE sched_info'[prev_rest]
      /\ UNCHANGED prev_rest

\* Mutant: the walk ends with the first job it puts.
PlaceOne ==
  /\ Visit
  /\ Fitting(rest) # {}
  /\ PutJobToNode(rest, node_by_speed[Min(Fitting(rest))])
  /\ by_priority' = IF prev_rest = NULL THEN sched_info[rest] ELSE by_priority
  /\ sched_info' = [sched_info EXCEPT ![rest] = NULL]
  /\ rest' = NULL
  /\ UNCHANGED prev_rest

Place ==
  /\ Visit
  /\ Fitting(rest) # {}
  /\ PutJobToNode(rest, node_by_speed[Min(Fitting(rest))])
  /\ Unlink

\* Mutant: the pointer stays on a job that fits nowhere.
StayOnMisfit ==
  /\ Visit
  /\ Fitting(rest) = {}
  /\ UNCHANGED <<nodeVars, chainVars, rest, prev_rest>>

\* A job that fits nowhere and is not urgent is passed over; prev_rest gets
\* the new value of rest, not the old one.
PassOver ==
  /\ Visit
  /\ Fitting(rest) = {}
  /\ (job[rest].max_wait_time - wait_time[rest]) % SizeModulus >= min_time_to_free
  /\ rest' = sched_info[rest]
  /\ prev_rest' = sched_info[rest]
  /\ UNCHANGED <<nodeVars, chainVars>>

TimesLeft ==
  {(time_before_start[j] + job[j].estimated_time - exec_time[j]) % SizeModulus :
     j \in UNION {JobsOn(node_by_speed[p]) : p \in DOMAIN node_by_speed}}

\* _get_min_time_to_free looks for a time below the 0 it starts from.
GetMinTimeToFree == Min({0} \cup TimesLeft)

QueueWalked ==
  /\ pc = "visit"
  /\ rest = NULL
  /\ min_time_to_free' = GetMinTimeToFree
  /\ StepStarts
  /\ ScheduleFrame /\ UNCHANGED <<nodeVars, chainVars, rest, prev_rest>>

Schedule == StartWalk \/ Place \/ PassOver \/ QueueWalked

Next ==
  \/ SimulatorStep /\ UNCHANGED priorityVars
  \/ Distribute
  \/ Schedule

Spec == Init /\ [][Next]_vars

\* One thread, which is never blocked: as long as it can take a step it does.
FairSpec == Spec /\ WF_vars(Next)

-----------------------------------------------------------------------------
\* The job that is k links down from by_priority.
Link[k \in 0..JobCount] ==
  IF k = 0 THEN by_priority
  ELSE IF Link[k - 1] = NULL THEN NULL ELSE sched_info[Link[k - 1]]

Queued == {Link[k] : k \in 0..JobCount} \ {NULL}

\* schedule_algorithms.h:35, by_priority: "jobs laid out in order of priority".
\* However jobs come, expire and are put, the chain that distribute_priority
\* leaves comes to an end, and no job in it stands before a more important one.
QueueInOrder ==
  pc \notin {"enqueue", "place"} =>
    /\ Link[JobCount] = NULL
    /\ \A j \in Queued :
         sched_info[j] # NULL => Priority(j) <= Priority(sched_info[j])

\* schedule_algorithms.h:37, min_time_to_free: "the time within which something
\* becomes free".  Where a tick's scheduling ends and jobs are on the nodes, it
\* is the least time that one of them has left; waiting for longer than that is
\* what makes a job urgent (schedule_priority.c:96, 479).
TimeToFreeIsKnown ==
  pc = "moment" /\ jm = 1 /\ TimesLeft # {} => min_time_to_free = Min(TimesLeft)

\* When schedule_priority returns, the first job of the queue fits no node
\* that the scheduler knows of: the most important job is never left waiting
\* beside one, though prev_rest goes wrong on those behind it.
HeadIsServed ==
  pc = "visit" /\ rest = NULL /\ by_priority # NULL => Fitting(by_priority) = {}

\* simulate.c:30 ends although jobs drop out of the queue: they expire.
Terminates == <>(pc = "end")
=============================================================================
