----------------------- MODULE SchedPriorityTheorems -----------------------
(***************************************************************************)
(* The simulator with the priority scheduler, for every cluster and every  *)
(* loaded dataset, the ones included whose moments hold more than one job  *)
(* and close the chain to a circle.                                        *)
(***************************************************************************)
EXTENDS SchedPriority, ClusterTheorems

\* How far the list of nodes can be built by the recursion of NodesUpTo.
IsListUpTo(f, n) ==
  /\ DOMAIN f = 1..n
  /\ \A k \in 1..n : f[k] = IF k = 1 THEN <<1>> ELSE PlaceBySpeed(f[k - 1], k)

\* Every prefix of the recursion exists: the least one missing would be one
\* step behind one that is there.
LEMMA ListsExist ==
  ASSUME NEW n \in Nat \ {0}
  PROVE  \E f : IsListUpTo(f, n)
<1> DEFINE missing == {m \in Nat \ {0} : ~\E f : IsListUpTo(f, m)}
<1> SUFFICES ASSUME missing # {} PROVE FALSE
  OBVIOUS
<1>1. PICK m \in missing : \A k \in missing : m <= k
  <2>1. missing \in SUBSET Nat
    OBVIOUS
  <2> QED
    BY <2>1, LeastNatural
<1>2. m \in Nat \ {0} /\ ~\E f : IsListUpTo(f, m)
  BY <1>1
<1>3. CASE m = 1
  <2>1. IsListUpTo([k \in 1..1 |-> <<1>>], 1)
    BY DEF IsListUpTo
  <2> QED
    BY <1>2, <1>3, <2>1
<1>4. CASE m # 1
  <2>1. m - 1 \in Nat \ {0} /\ m - 1 \notin missing
    BY <1>1, <1>2, <1>4
  <2>2. PICK f : IsListUpTo(f, m - 1)
    BY <2>1
  <2> DEFINE g == [k \in 1..m |-> IF k = m THEN PlaceBySpeed(f[m - 1], m) ELSE f[k]]
  <2>3. \A k \in 1..m : k # m => k \in 1..(m - 1)
    BY <1>2
  <2>4. \A k \in 1..m : k # 1 => k - 1 \in 1..m /\ k - 1 # m
    BY <1>2
  <2>5. ASSUME NEW k \in 1..m
        PROVE  g[k] = IF k = 1 THEN <<1>> ELSE PlaceBySpeed(g[k - 1], k)
    <3>1. CASE k = m
      <4>1. g[k] = PlaceBySpeed(f[m - 1], m) /\ k # 1 /\ g[k - 1] = f[m - 1]
        BY <1>4, <2>4, <3>1
      <4> QED
        BY <3>1, <4>1
    <3>2. CASE k # m
      <4>1. g[k] = f[k] /\ k \in 1..(m - 1)
        BY <2>3, <3>2
      <4>2. k # 1 => g[k - 1] = f[k - 1]
        BY <2>4
      <4> HIDE DEF g
      <4> QED
        BY <2>2, <4>1, <4>2 DEF IsListUpTo
    <3> QED
      BY <3>1, <3>2
  <2>6. IsListUpTo(g, m)
    BY <2>5 DEF IsListUpTo
  <2> QED
    BY <1>2, <2>6
<1> QED
  BY <1>3, <1>4

\* So NodesUpTo is what its equation says.
LEMMA NodesUpToIs == IsListUpTo(NodesUpTo, NodeCount)
<1> DEFINE Body(f) == [n \in 1..NodeCount |->
                         IF n = 1 THEN <<1>> ELSE PlaceBySpeed(f[n - 1], n)]
<1>1. PICK f : IsListUpTo(f, NodeCount)
  BY ListsExist, NodeAssumption, PriorityAssumption
<1> DEFINE g == [n \in 1..NodeCount |-> f[n]]
<1>2. g = Body(g)
  <2>1. \A n \in 1..NodeCount : n # 1 => n - 1 \in 1..NodeCount
    BY NodeAssumption
  <2> QED
    BY <1>1, <2>1 DEF IsListUpTo
<1>3. NodesUpTo = Body(NodesUpTo)
  BY <1>2 DEF NodesUpTo
<1> QED
  BY <1>3 DEF IsListUpTo

\* A list of nodes that has the first one.
HasFirst(l) == l \in Seq(Nodes) /\ \E p \in DOMAIN l : l[p] = 1

LEMMA InsertedNode ==
  ASSUME NEW l, HasFirst(l), NEW at \in 1..(Len(l) + 1), NEW n \in Nodes
  PROVE  HasFirst(InsertAt(l, at, n))
<1>1. l \in Seq(Nodes) /\ Len(l) \in Nat
  BY DEF HasFirst
<1> DEFINE S == Nodes
<1>0. l \in Seq(S) /\ at \in 1..(Len(l) + 1) /\ n \in S
  BY <1>1
<1> HIDE DEF S
<1>2. /\ InsertAt(l, at, n) \in Seq(S)
      /\ Len(InsertAt(l, at, n)) = Len(l) + 1
      /\ \A k \in 1..(Len(l) + 1) :
           InsertAt(l, at, n)[k]
             = IF k < at THEN l[k] ELSE IF k = at THEN n ELSE l[k - 1]
  BY ONLY <1>0, InsertAtProperties
<1> USE DEF S
<1> DEFINE new == InsertAt(l, at, n)
<1>3. PICK p \in DOMAIN l : l[p] = 1
  BY DEF HasFirst
<1>4. p \in 1..Len(l) /\ Len(l) \in Nat /\ DOMAIN new = 1..(Len(l) + 1)
  BY <1>1, <1>2
<1>5. \E q \in DOMAIN new : new[q] = 1
  <2> HIDE DEF new
  <2>1. CASE p < at
    <3>1. new[p] = 1 /\ p \in DOMAIN new
      BY <1>2, <1>3, <1>4, <2>1 DEF new
    <3> QED
      BY <3>1
  <2>2. CASE ~(p < at)
    <3> DEFINE q == p + 1
    <3>1. q \in 1..(Len(l) + 1) /\ ~(q < at) /\ q # at /\ q - 1 = p
      BY <1>4, <2>2
    <3> HIDE DEF q
    <3>2. new[q] = 1 /\ q \in DOMAIN new
      BY <1>2, <1>3, <1>4, <3>1 DEF new
    <3> QED
      BY <3>2
  <2> QED
    BY <2>1, <2>2
<1> QED
  BY <1>2, <1>5 DEF HasFirst

LEMMA PlacedNode ==
  ASSUME NEW l, HasFirst(l), NEW n \in Nodes
  PROVE  HasFirst(PlaceBySpeed(l, n))
<1> DEFINE notFaster == {p \in DOMAIN l : Rate(n) >= Rate(l[p])}
           at        == Min(notFaster)
           behind    == {q \in (at + 1)..Len(l) : MaxResponseTime(n) <= MaxResponseTime(l[q])}
<1>1. l \in Seq(Nodes) /\ Len(l) \in Nat /\ DOMAIN l = 1..Len(l)
  BY DEF HasFirst
<1>2. notFaster # {} => at \in 1..Len(l)
  <2>1. notFaster \in SUBSET Nat /\ notFaster \in SUBSET (1..Len(l))
    BY <1>1
  <2> HIDE DEF notFaster
  <2> QED
    BY <2>1, MinIsLeast
<1>3. CASE notFaster = {}
  <2>1. PlaceBySpeed(l, n) = Append(l, n)
    BY <1>3 DEF PlaceBySpeed
  <2>2. PICK p \in DOMAIN l : l[p] = 1
    BY DEF HasFirst
  <2>3. Append(l, n) \in Seq(Nodes) /\ p \in DOMAIN Append(l, n) /\ Append(l, n)[p] = 1
    BY <1>1, <2>2
  <2> QED
    BY <2>1, <2>3 DEF HasFirst
<1>4. CASE notFaster # {}
  <2> DEFINE last == IF behind = {} THEN Len(l) + 1 ELSE Min(behind)
  <2>1. \/ PlaceBySpeed(l, n) = InsertAt(l, at, n)
        \/ PlaceBySpeed(l, n) = InsertAt(l, last, n)
    BY <1>4 DEF PlaceBySpeed, PlaceByResponseTime, InsertBeforeFirst
  <2>2. at \in 1..Len(l)
    BY <1>2, <1>4
  <2> HIDE DEF at
  <2>3. last \in 1..(Len(l) + 1)
    <3>1. behind \in SUBSET Nat /\ behind \in SUBSET (1..Len(l))
      BY <1>1, <2>2
    <3> HIDE DEF behind
    <3>2. behind # {} => Min(behind) \in 1..Len(l)
      BY <3>1, MinIsLeast
    <3> QED
      BY <1>1, <3>2
  <2>4. at \in 1..(Len(l) + 1)
    BY <1>1, <2>2
  <2> HIDE DEF last
  <2> QED
    BY <2>1, <2>3, <2>4, InsertedNode
<1> QED
  BY <1>3, <1>4

\* init_priority lists nodes of the cluster and nothing else, however fast
\* they are and in whatever order they come.
LEMMA NodeBySpeedType == NodeBySpeed \in Seq(Nodes)
<1> DEFINE without == {n \in 1..NodeCount : ~HasFirst(NodesUpTo[n])}
<1>1. without = {}
  <2> SUFFICES ASSUME without # {} PROVE FALSE
    OBVIOUS
  <2>1. PICK n \in without : \A k \in without : n <= k
    <3>1. without \in SUBSET Nat
      OBVIOUS
    <3> QED
      BY <3>1, LeastNatural
  <2>2. n \in 1..NodeCount /\ n \in Nodes /\ ~HasFirst(NodesUpTo[n])
    BY <2>1 DEF Nodes
  <2>3. CASE n = 1
    <3>1. NodesUpTo[n] = <<1>>
      BY <2>2, <2>3, NodesUpToIs DEF IsListUpTo
    <3>2. 1 \in Nodes
      BY <2>2, <2>3
    <3>3. <<1>> \in Seq(Nodes) /\ 1 \in DOMAIN <<1>> /\ <<1>>[1] = 1
      BY <3>2
    <3> QED
      BY <2>2, <3>1, <3>3 DEF HasFirst
  <2>4. CASE n # 1
    <3>1. n - 1 \in 1..NodeCount /\ ~(n <= n - 1)
      BY <2>2, <2>4, NodeAssumption
    <3>2. HasFirst(NodesUpTo[n - 1])
      BY <2>1, <3>1
    <3>3. NodesUpTo[n] = PlaceBySpeed(NodesUpTo[n - 1], n)
      BY <2>2, <2>4, NodesUpToIs DEF IsListUpTo
    <3> QED
      BY <2>2, <3>2, <3>3, PlacedNode
  <2> QED
    BY <2>3, <2>4
<1> DEFINE all   == NodesUpTo[NodeCount]
           first == CHOOSE p \in DOMAIN all : all[p] = 1
<1>2. NodeCount \in 1..NodeCount
  BY NodeAssumption, PriorityAssumption
<1>3. all \in Seq(Nodes) /\ \E p \in DOMAIN all : all[p] = 1
  BY <1>1, <1>2 DEF HasFirst
<1>4. NodeBySpeed = SubSeq(all, first, Len(all))
  BY DEF NodeBySpeed
<1> HIDE DEF all
<1>5. first \in 1..Len(all)
  BY <1>3
<1> HIDE DEF first
<1> QED
  BY <1>3, <1>4, <1>5

-----------------------------------------------------------------------------
Cell == Jobs \cup {NULL}

\* The moments stay what was loaded.
LoadedMoments == \E d \in Datasets : moments = d.moments

\* The pointers lead to jobs; while a moment is handed over there is a queue,
\* and the loop of _place_job_by_priority has a cell to look behind.
Typed ==
  /\ ClusterTypeOK
  /\ sched_info \in [Jobs -> Cell]
  /\ by_priority \in Cell /\ plist \in Cell /\ rest \in Cell /\ prev_rest \in Cell
  /\ min_time_to_free \in Nat
  /\ node_by_speed \in Seq(Nodes)
  /\ i \in Nat \ {0}
  /\ pc \in {"enqueue", "place"} =>
       jseq \in DOMAIN moments /\ by_priority # NULL
  /\ pc = "place" =>
       /\ i <= Len(moments[jseq].jobs)
       /\ plist # NULL /\ sched_info[plist] # NULL

LEMMA LoadedFacts ==
  ASSUME LoadedMoments
  PROVE  /\ moments \in Seq(MomentType)
         /\ \A p \in DOMAIN moments : moments[p].jobs # <<>>
BY DatasetsAssumption DEF LoadedMoments

LEMMA NullNotJob == NULL \notin Jobs
BY NodeAssumption DEF NULL, Jobs

\* The job whose turn it is in distribute_priority.
LEMMA ToPlaceIsJob ==
  ASSUME Typed, jseq \in DOMAIN moments, i <= Len(moments[jseq].jobs)
  PROVE  ToPlace \in Jobs
<1>1. moments[jseq].jobs \in Seq(Jobs) /\ i \in Nat \ {0}
  BY MomentTimes DEF Typed
<1> QED
  BY <1>1 DEF ToPlace

\* What distribute_priority and schedule_priority leave to the rest of the
\* tick: they count and end no job, and hand over one moment.
LEMMA PriorityActs ==
  ASSUME Distribute \/ Schedule
  PROVE  /\ UNCHANGED <<jobVars, statVars, datasetVars, everything_done, jl, all_done, t,
                        node_by_speed>>
         /\ pc \in {"distribute", "enqueue", "place", "schedule", "visit"}
         /\ pc' \in {"enqueue", "place", "schedule", "visit", "moment"}
         /\ pc' = "moment" => jm' = 1
         /\ jm' \in {jm, 1}
         /\ jseq' \in {jseq, jseq + 1}
         /\ UNCHANGED nodeVars \/ Place
<1>1. CASE StartDistribute \/ (NoMomentDue /\ UNCHANGED priorityVars)
  BY <1>1 DEF StartDistribute, NoMomentDue, DistributeFrame, stepVars, priorityVars
<1>2. CASE Distributed \/ PlaceInFront \/ PlaceBehindOnly \/ StartPlacing
  BY <1>2 DEF Distributed, PlaceInFront, PlaceBehindOnly, StartPlacing, Enqueuing,
              DistributeFrame, stepVars
<1>3. CASE PlaceBefore \/ PlaceLast \/ PlaceFurther
  BY <1>3 DEF PlaceBefore, PlaceLast, PlaceFurther, Placing, DistributeFrame, stepVars
<1>4. CASE Schedule
  BY <1>4 DEF Schedule, StartWalk, Place, PassOver, QueueWalked, Visit,
              ScheduleFrame, StepStarts
<1> QED
  BY <1>1, <1>2, <1>3, <1>4 DEF Distribute

\* The job that is put is the one the walk is at, on a node the check accepts.
LEMMA PlacedJob ==
  ASSUME Typed, Place
  PROVE  /\ pc = "visit" /\ pc' = "visit" /\ job' = job
         /\ rest \in Jobs
         /\ \E n \in Nodes : CheckNodeForJob(rest, n) /\ PutJobToNode(rest, n)
<1>1. /\ pc = "visit" /\ pc' = "visit" /\ job' = job /\ rest # NULL
      /\ Fitting(rest) # {}
      /\ PutJobToNode(rest, node_by_speed[Min(Fitting(rest))])
  BY DEF Place, Visit, ScheduleFrame, datasetVars
<1> DEFINE p == Min(Fitting(rest))
<1>2. Fitting(rest) \in SUBSET Nat
  BY DEF Fitting, Typed
<1>3. p \in Fitting(rest)
  BY <1>1, <1>2, MinIsLeast
<1>4. p \in DOMAIN node_by_speed /\ CheckNodeForJob(rest, node_by_speed[p])
  BY <1>3 DEF Fitting
<1> HIDE DEF p
<1>5. node_by_speed[p] \in Nodes
  BY <1>4 DEF Typed
<1>6. rest \in Jobs
  BY <1>1 DEF Typed, Cell
<1> QED
  BY <1>1, <1>4, <1>5, <1>6 DEF p

\* One call of StartDistribute or one turn of the loops behind it.
LEMMA DistributeKeepsPointers ==
  ASSUME Typed, LoadedMoments, Distribute
  PROVE  /\ sched_info' \in [Jobs -> Cell]
         /\ by_priority' \in Cell /\ plist' \in Cell /\ rest' \in Cell /\ prev_rest' \in Cell
         /\ min_time_to_free' \in Nat
         /\ i' \in Nat \ {0}
         /\ pc' \in {"enqueue", "place"} => jseq' \in DOMAIN moments' /\ by_priority' # NULL
         /\ pc' = "place" => /\ i' <= Len(moments'[jseq'].jobs)
                             /\ plist' # NULL /\ sched_info'[plist'] # NULL
<1>0. /\ sched_info \in [Jobs -> Cell]
      /\ by_priority \in Cell /\ plist \in Cell /\ rest \in Cell /\ prev_rest \in Cell
      /\ min_time_to_free \in Nat /\ i \in Nat \ {0} /\ i + 1 \in Nat \ {0}
      /\ NULL \notin Jobs /\ Jobs \subseteq Cell
      /\ moments' = moments
  BY PriorityActs, NullNotJob DEF Typed, Cell, datasetVars
<1>1. CASE StartDistribute
  <2>1. /\ pc' = "enqueue" /\ jseq' = jseq /\ jseq \in DOMAIN moments
        /\ i' \in {1, 2}
        /\ UNCHANGED <<plist, rest, prev_rest, min_time_to_free>>
        /\ IF by_priority = NULL
             THEN /\ by_priority' = moments[jseq].jobs[1]
                  /\ sched_info' = [sched_info EXCEPT ![by_priority'] = NULL]
             ELSE UNCHANGED <<sched_info, by_priority>>
    BY <1>1 DEF StartDistribute, DistributeFrame, MomentDue, Typed, ClusterTypeOK, chainVars
  <2>2. moments[jseq].jobs[1] \in Jobs
    <3>1. moments[jseq].jobs \in Seq(Jobs) /\ moments[jseq].jobs # <<>>
      BY <2>1, LoadedFacts, MomentTimes DEF Typed
    <3> QED
      BY <3>1
  <2>3. sched_info' \in [Jobs -> Cell]
    BY <1>0, <2>1, <2>2 DEF Cell
  <2> QED
    BY <1>0, <2>1, <2>2, <2>3
<1>2. CASE NoMomentDue /\ UNCHANGED priorityVars
  BY <1>0, <1>2 DEF NoMomentDue, priorityVars, chainVars
<1>3. CASE Distributed
  BY <1>0, <1>3 DEF Distributed, DistributeFrame, chainVars
<1>4. CASE PlaceInFront \/ PlaceBehindOnly \/ StartPlacing
  <2>1. /\ pc = "enqueue" /\ jseq' = jseq /\ jseq \in DOMAIN moments
        /\ by_priority \in Jobs /\ i <= Len(moments[jseq].jobs)
        /\ UNCHANGED <<rest, prev_rest, min_time_to_free>>
    BY <1>0, <1>4 DEF PlaceInFront, PlaceBehindOnly, StartPlacing, Enqueuing,
         DistributeFrame, Typed, Cell
  <2>2. ToPlace \in Jobs
    BY <2>1, ToPlaceIsJob
  <2>3. CASE PlaceInFront
    <3>1. /\ sched_info' = [sched_info EXCEPT ![ToPlace] = by_priority]
          /\ by_priority' = ToPlace /\ i' = i + 1 /\ UNCHANGED <<plist, pc>>
      BY <2>3 DEF PlaceInFront
    <3> QED
      BY <1>0, <2>1, <2>2, <3>1
  <2>4. CASE PlaceBehindOnly
    <3>1. /\ sched_info' = [sched_info EXCEPT ![by_priority] = ToPlace]
          /\ i' = i + 1 /\ UNCHANGED <<by_priority, plist, pc>>
      BY <2>4 DEF PlaceBehindOnly
    <3> QED
      BY <1>0, <2>1, <2>2, <3>1
  <2>5. CASE StartPlacing
    <3>1. /\ sched_info[by_priority] # NULL /\ plist' = by_priority /\ pc' = "place"
          /\ UNCHANGED <<sched_info, by_priority, i>>
      BY <2>5 DEF StartPlacing, chainVars
    <3> QED
      BY <1>0, <2>1, <3>1
  <2> QED
    BY <1>4, <2>3, <2>4, <2>5
<1>5. CASE PlaceBefore \/ PlaceLast \/ PlaceFurther
  <2>1. /\ pc = "place" /\ jseq' = jseq /\ jseq \in DOMAIN moments
        /\ by_priority' = by_priority /\ by_priority # NULL
        /\ i <= Len(moments[jseq].jobs)
        /\ plist \in Jobs /\ nlist \in Jobs
        /\ UNCHANGED <<rest, prev_rest, min_time_to_free>>
    BY <1>0, <1>5 DEF PlaceBefore, PlaceLast, PlaceFurther, Placing, DistributeFrame,
         Typed, Cell, nlist
  <2>2. ToPlace \in Jobs
    BY <2>1, ToPlaceIsJob
  <2>3. CASE PlaceBefore
    <3>1. /\ sched_info' = [sched_info EXCEPT ![plist] = ToPlace, ![ToPlace] = nlist]
          /\ i' = i + 1 /\ pc' = "enqueue" /\ UNCHANGED plist
      BY <2>3 DEF PlaceBefore
    <3>2. sched_info' \in [Jobs -> Cell]
      BY <1>0, <2>1, <2>2, <3>1
    <3> QED
      BY <1>0, <2>1, <3>1, <3>2
  <2>4. CASE PlaceLast
    <3>1. /\ sched_info' = [sched_info EXCEPT ![nlist] = ToPlace, ![ToPlace] = NULL]
          /\ i' = i + 1 /\ pc' = "enqueue" /\ UNCHANGED plist
      BY <2>4 DEF PlaceLast
    <3>2. sched_info' \in [Jobs -> Cell]
      BY <1>0, <2>1, <2>2, <3>1 DEF Cell
    <3> QED
      BY <1>0, <2>1, <3>1, <3>2
  <2>5. CASE PlaceFurther
    <3>1. sched_info[nlist] # NULL /\ plist' = nlist /\ UNCHANGED <<sched_info, i, pc>>
      BY <2>5 DEF PlaceFurther
    <3> QED
      BY <1>0, <2>1, <3>1
  <2> QED
    BY <1>5, <2>3, <2>4, <2>5
<1> QED
  BY <1>1, <1>2, <1>3, <1>4, <1>5 DEF Distribute

\* The minimum over what is left of the jobs that run starts from 0, so it is 0.
LEMMA LeastTimeIsZero ==
  ASSUME NodeTypeOK, exec_time \in [Jobs -> Nat]
  PROVE  GetMinTimeToFree = 0
<1>1. TimesLeft \subseteq Nat
  <2>1. ASSUME NEW j \in Jobs
        PROVE  (time_before_start[j] + job[j].estimated_time - exec_time[j]) % SizeModulus
                 \in Nat
    <3>1. job[j].estimated_time \in Nat
      BY DEF NodeTypeOK, JobType
    <3>2. time_before_start[j] + job[j].estimated_time - exec_time[j] \in Int
      BY <3>1 DEF NodeTypeOK
    <3> QED
      BY <3>2, NodeAssumption
  <2> QED
    BY <2>1 DEF TimesLeft, JobsOn
<1> DEFINE all == {0} \cup TimesLeft
<1>2. all \in SUBSET Nat /\ all # {} /\ 0 \in all
  BY <1>1
<1> DEFINE least == Min(all)
<1>3. least \in all /\ \A y \in all : least <= y
  BY <1>2, MinIsLeast
<1>4. GetMinTimeToFree = least
  BY DEF GetMinTimeToFree
<1> HIDE DEF all, least
<1> QED
  BY <1>2, <1>3, <1>4

\* The walk of schedule_priority moves pointers among the cells there are.
LEMMA ScheduleKeepsPointers ==
  ASSUME Typed, Schedule
  PROVE  /\ sched_info' \in [Jobs -> Cell]
         /\ by_priority' \in Cell /\ plist' \in Cell /\ rest' \in Cell /\ prev_rest' \in Cell
         /\ min_time_to_free' \in {min_time_to_free, 0}
         /\ i' = i
         /\ pc' \notin {"enqueue", "place"}
<1>0. /\ sched_info \in [Jobs -> Cell]
      /\ by_priority \in Cell /\ plist \in Cell /\ rest \in Cell /\ prev_rest \in Cell
      /\ NULL \notin Jobs /\ NULL \in Cell
  BY NullNotJob DEF Typed, Cell
<1>1. CASE StartWalk
  BY <1>0, <1>1 DEF StartWalk, ScheduleFrame, chainVars
<1>2. CASE QueueWalked
  <2>1. min_time_to_free' = 0
    BY <1>2, LeastTimeIsZero DEF QueueWalked, Typed, ClusterTypeOK
  <2> QED
    BY <1>0, <1>2, <2>1 DEF QueueWalked, ScheduleFrame, StepStarts, chainVars
<1>3. CASE PassOver
  <2>1. rest \in Jobs
    BY <1>0, <1>3 DEF PassOver, Visit, Cell
  <2> QED
    BY <1>0, <1>3, <2>1 DEF PassOver, Visit, ScheduleFrame, chainVars
<1>4. CASE Place
  <2>1. /\ rest \in Jobs /\ pc' = "visit"
        /\ UNCHANGED <<plist, i, min_time_to_free, prev_rest>>
        /\ Unlink
    BY <1>4, PlacedJob DEF Place, Visit, ScheduleFrame, Unlink
  <2> DEFINE linked == IF prev_rest = NULL THEN sched_info
                       ELSE [sched_info EXCEPT ![prev_rest] = sched_info[rest]]
  <2>2. linked \in [Jobs -> Cell]
    BY <1>0, <2>1
  <2>3. /\ by_priority' = IF prev_rest = NULL THEN sched_info[rest] ELSE by_priority
        /\ sched_info' = [linked EXCEPT ![rest] = NULL]
        /\ rest' = IF prev_rest = NULL THEN by_priority' ELSE sched_info'[prev_rest]
    BY <2>1 DEF Unlink
  <2> HIDE DEF linked
  <2>4. sched_info' \in [Jobs -> Cell]
    BY <1>0, <2>2, <2>3
  <2>5. by_priority' \in Cell
    BY <1>0, <2>1, <2>3
  <2>6. rest' \in Cell
    BY <1>0, <2>3, <2>4, <2>5 DEF Cell
  <2> QED
    BY <1>0, <2>1, <2>4, <2>5, <2>6
<1> QED
  BY <1>1, <1>2, <1>3, <1>4 DEF Schedule

LEMMA PriorityKeepsType ==
  ASSUME Typed, LoadedMoments, Distribute \/ Schedule
  PROVE  Typed'
<1>1. /\ UNCHANGED <<jobVars, statVars, datasetVars, everything_done, jl, all_done, t,
                     node_by_speed>>
      /\ pc' \in {"enqueue", "place", "schedule", "visit", "moment"}
      /\ jm' \in {jm, 1} /\ jseq' \in {jseq, jseq + 1}
  BY PriorityActs
<1>2. NodeTypeOK'
  <2>1. CASE UNCHANGED nodeVars
    BY <1>1, <2>1, NodeFrame DEF Typed, ClusterTypeOK, datasetVars
  <2>2. CASE Place
    BY <2>2, PlacedJob, PutKeepsType DEF Typed, ClusterTypeOK
  <2> QED
    BY <2>1, <2>2, PriorityActs
<1>3. ClusterTypeOK'
  <2>1. jm' \in Nat \ {0} /\ jseq' \in Nat \ {0}
    BY <1>1 DEF Typed, ClusterTypeOK
  <2> QED
    BY <1>1, <1>2, <2>1 DEF Typed, ClusterTypeOK, jobVars, statVars, datasetVars
<1>4. node_by_speed' \in Seq(Nodes)
  BY <1>1 DEF Typed
<1>5. CASE Distribute
  BY <1>3, <1>4, <1>5, DistributeKeepsPointers DEF Typed
<1>6. CASE Schedule
  <2>1. /\ sched_info' \in [Jobs -> Cell]
        /\ by_priority' \in Cell /\ plist' \in Cell /\ rest' \in Cell /\ prev_rest' \in Cell
        /\ min_time_to_free' \in {min_time_to_free, 0}
        /\ i' = i
        /\ pc' \notin {"enqueue", "place"}
    BY <1>6, ScheduleKeepsPointers
  <2>2. min_time_to_free' \in Nat /\ i' \in Nat \ {0}
    BY <2>1 DEF Typed
  <2> QED
    BY <1>3, <1>4, <2>1, <2>2 DEF Typed
<1> QED
  BY <1>5, <1>6

LEMMA PriorityStartsTyped ==
  ASSUME Init
  PROVE  Typed /\ LoadedMoments
<1>1. ClusterTypeOK /\ LoadedMoments /\ pc = "loop"
  BY ClusterStartsTyped DEF Init, ClusterInit, LoadedMoments
<1>2. node_by_speed \in Seq(Nodes)
  BY NodeBySpeedType DEF Init
<1>3. ASSUME NEW j \in Jobs PROVE MomentChain(j) \in Cell
  <2> DEFINE nexts == {q \in Jobs : \E p \in DOMAIN moments :
                         \E k \in 1..(Len(moments[p].jobs) - 1) :
                           moments[p].jobs[k] = j /\ moments[p].jobs[k + 1] = q}
  <2>1. MomentChain(j) = IF nexts = {} THEN NULL ELSE CHOOSE q \in nexts : TRUE
    BY DEF MomentChain
  <2>2. nexts \subseteq Jobs
    OBVIOUS
  <2> HIDE DEF nexts
  <2> QED
    BY <2>1, <2>2 DEF Cell
<1>4. sched_info \in [Jobs -> Cell]
  BY <1>3 DEF Init
<1>5. /\ by_priority = NULL /\ plist = NULL /\ rest = NULL /\ prev_rest = NULL
      /\ min_time_to_free = 0 /\ i = 1
  BY DEF Init
<1> QED
  BY <1>1, <1>2, <1>4, <1>5 DEF Typed, Cell

\* Every field keeps its type.  No pointer of the queue leads anywhere but to a
\* job, and none is followed that is NULL: while a moment is handed over the
\* queue has a head, and _place_job_by_priority a cell behind the one it is at.
THEOREM PriorityTypeCorrect == Spec => [](Typed /\ LoadedMoments)
<1>1. Init => Typed /\ LoadedMoments
  BY PriorityStartsTyped
<1>2. Typed /\ LoadedMoments /\ [Next]_vars => Typed' /\ LoadedMoments'
  <2> SUFFICES ASSUME Typed, LoadedMoments, [Next]_vars
               PROVE  Typed' /\ LoadedMoments'
    OBVIOUS
  <2>1. CASE SimulatorStep /\ UNCHANGED priorityVars
    <3>1. ClusterTypeOK' /\ moments' = moments
      BY <2>1, SimulatorKeepsType, SimulatorMovesNone DEF Typed, datasetVars
    <3>2. pc' \notin {"enqueue", "place"}
      BY <2>1, SimulatorFrame
    <3> QED
      BY <2>1, <3>1, <3>2 DEF Typed, LoadedMoments, priorityVars, chainVars
  <2>2. CASE Distribute \/ Schedule
    BY <2>2, PriorityKeepsType, PriorityActs DEF LoadedMoments, datasetVars
  <2>3. CASE UNCHANGED vars
    <3>1. NodeTypeOK'
      BY <2>3, NodeFrame DEF vars, clusterVars, Typed, ClusterTypeOK, datasetVars
    <3> QED
      BY <2>3, <3>1 DEF vars, clusterVars, Typed, ClusterTypeOK, LoadedMoments,
           jobVars, statVars, datasetVars, stepVars, priorityVars, chainVars
  <2> QED
    BY <2>1, <2>2, <2>3 DEF Next
<1> QED
  BY <1>1, <1>2, PTL DEF Spec

-----------------------------------------------------------------------------
\* As long as prev_rest is NULL the walk is at the head of the queue; once it
\* has left the head, the head fits nowhere.
HeadPassed ==
  pc = "visit" =>
    /\ prev_rest = NULL /\ rest # NULL => rest = by_priority
    /\ \/ prev_rest = NULL /\ rest = by_priority
       \/ by_priority = NULL
       \/ Fitting(by_priority) = {}

\* A put makes no room for a job that fitted nowhere.
LEMMA PlaceMakesNoRoom ==
  ASSUME Typed, Place, NEW j \in Jobs, Fitting(j) = {}
  PROVE  Fitting(j)' = {}
<1>1. PICK n \in Nodes : CheckNodeForJob(rest, n) /\ PutJobToNode(rest, n)
  BY PlacedJob
<1>2. /\ NodeTypeOK /\ job' = job /\ rest \in Jobs
      /\ node_by_speed' = node_by_speed /\ node_by_speed \in Seq(Nodes)
  BY PlacedJob, PriorityActs DEF Schedule, Typed, ClusterTypeOK
<1>3. ASSUME NEW p \in DOMAIN node_by_speed, CheckNodeForJob(j, node_by_speed[p])'
      PROVE  FALSE
  <2> DEFINE m == node_by_speed[p]
  <2>1. m \in Nodes /\ m' = m
    BY <1>2
  <2>2. CheckNodeForJob(j, m)' => CheckNodeForJob(j, m)
    <3> SUFFICES ASSUME NEW h \in Nodes, CheckNodeForJob(j, h)'
                 PROVE  CheckNodeForJob(j, h)
      BY <1>2, <2>1 DEF CheckNodeForJob, HasAvailableThreads, FreeMem, CpuThreads, Cores
    <3> QED
      BY <1>1, <1>2, PutMakesNoRoom
  <2>3. CheckNodeForJob(j, node_by_speed[p])
    BY <1>3, <2>2
  <2> QED
    BY <2>3 DEF Fitting
<1> QED
  BY <1>2, <1>3 DEF Fitting

\* When schedule_priority returns the first job of the queue fits no node that
\* the scheduler knows of, on every cluster and whatever the pointers behind it
\* have become: Unlink and PassOver go wrong with prev_rest only once the walk
\* has left the head.
THEOREM PriorityServesItsHead == Spec => []HeadIsServed
<1>1. Init => HeadPassed
  BY DEF Init, ClusterInit, HeadPassed
<1>2. Typed /\ HeadPassed /\ [Next]_vars => HeadPassed'
  <2> SUFFICES ASSUME Typed, HeadPassed, [Next]_vars PROVE HeadPassed'
    OBVIOUS
  <2>1. CASE pc' # "visit"
    BY <2>1 DEF HeadPassed
  <2>2. CASE SimulatorStep \/ Distribute \/ QueueWalked
    <3>1. pc' # "visit"
      BY <2>2, SimulatorFrame DEF Distribute, StartDistribute, Distributed, PlaceInFront,
           PlaceBehindOnly, StartPlacing, PlaceBefore, PlaceLast, PlaceFurther, Enqueuing,
           Placing, NoMomentDue, QueueWalked, StepStarts
    <3> QED
      BY <2>1, <3>1
  <2>3. CASE StartWalk
    BY <2>3 DEF StartWalk, HeadPassed, chainVars
  <2>4. CASE PassOver
    <3>1. /\ pc = "visit" /\ rest # NULL /\ Fitting(rest) = {}
          /\ rest' = sched_info[rest] /\ prev_rest' = rest'
          /\ by_priority' = by_priority
          /\ UNCHANGED <<job, nodeVars, node_by_speed>>
      BY <2>4 DEF PassOver, Visit, ScheduleFrame, chainVars, datasetVars
    <3>2. Fitting(by_priority)' = Fitting(by_priority)
      BY <3>1 DEF Fitting, CheckNodeForJob, HasAvailableThreads, FreeMem, CpuThreads, nodeVars
    <3>3. by_priority = NULL \/ Fitting(by_priority) = {}
      BY <3>1 DEF HeadPassed
    <3> QED
      BY <3>1, <3>2, <3>3 DEF HeadPassed
  <2>5. CASE Place
    <3>1. /\ pc = "visit" /\ rest # NULL /\ UNCHANGED prev_rest
          /\ by_priority' = (IF prev_rest = NULL THEN sched_info[rest] ELSE by_priority)
          /\ prev_rest = NULL => rest' = by_priority'
      BY <2>5 DEF Place, Visit, Unlink
    <3>2. CASE prev_rest = NULL
      BY <3>1, <3>2 DEF HeadPassed
    <3>3. CASE prev_rest # NULL /\ by_priority = NULL
      BY <3>1, <3>3 DEF HeadPassed
    <3>4. CASE prev_rest # NULL /\ by_priority # NULL
      <4>1. by_priority \in Jobs /\ Fitting(by_priority) = {}
        BY <3>1, <3>4 DEF HeadPassed, Typed, Cell
      <4>2. \A j \in Jobs : Fitting(j) = {} => Fitting(j)' = {}
        BY <2>5, PlaceMakesNoRoom
      <4>3. Fitting(by_priority)' = {}
        <5>1. by_priority' = by_priority
          BY <3>1, <3>4
        <5> SUFFICES ASSUME NEW h \in Jobs, h = by_priority
                     PROVE  Fitting(h)' = {}
          BY <4>1, <5>1 DEF Fitting
        <5> QED
          BY <4>1, <4>2
      <4> QED
        BY <3>1, <3>4, <4>3 DEF HeadPassed
    <3> QED
      BY <3>2, <3>3, <3>4
  <2>6. CASE UNCHANGED vars
    BY <2>6 DEF vars, clusterVars, datasetVars, nodeVars, priorityVars, chainVars, HeadPassed,
                Fitting, CheckNodeForJob, HasAvailableThreads, FreeMem, CpuThreads
  <2> QED
    BY <2>2, <2>3, <2>4, <2>5, <2>6 DEF Next, Schedule
<1>3. HeadPassed => HeadIsServed
  BY DEF HeadPassed, HeadIsServed
<1> QED
  BY <1>1, <1>2, <1>3, PriorityTypeCorrect, PTL DEF Spec

-----------------------------------------------------------------------------
\* However the queue looks, every node's memory balances and no node promises
\* more threads than it has.
THEOREM PriorityKeepsNodesExact == Spec => [](MemoryExact /\ NeverOvercommitted)
<1>1. Init => Accounts
  BY ClusterStartsTyped, ClusterStartsBalanced DEF Init
<1>2. Typed /\ LoadedMoments /\ Accounts /\ [Next]_vars => Accounts'
  <2> SUFFICES ASSUME Typed, Accounts, [Next]_vars PROVE Accounts'
    OBVIOUS
  <2>1. CASE SimulatorStep
    BY <2>1, SimulatorKeepsAccounts DEF Typed
  <2>2. CASE UNCHANGED <<job, assigned_node, occupation>>
    BY <2>2, AccountsFrame
  <2>3. CASE Place
    BY <2>3, PlacedJob, PutKeepsMemory, PutOvercommitsNone DEF Accounts, Typed, ClusterTypeOK
  <2> QED
    BY <2>1, <2>2, <2>3, PriorityActs DEF Next, vars, clusterVars, nodeVars, datasetVars
<1>3. Accounts => MemoryExact /\ NeverOvercommitted
  BY DEF Accounts
<1> QED
  BY <1>1, <1>2, <1>3, PriorityTypeCorrect, PTL DEF Spec

\* The counters that end the loop of simulate.c:30 are exact also when jobs
\* that are done are put once more or jobs drop out of the queue.
THEOREM PriorityCountsExactly == Spec => []CountsExact
<1>1. Init => CountsExact
  BY ClusterStartsCounted DEF Init
<1>2. Typed /\ CountsExact /\ [Next]_vars => CountsExact'
  <2> SUFFICES ASSUME Typed, CountsExact, [Next]_vars PROVE CountsExact'
    OBVIOUS
  <2>1. CASE SimulatorStep
    BY <2>1, SimulatorKeepsCounts DEF Typed
  <2>2. CASE UNCHANGED <<is_done, is_complete, jobs_done, jobs_complete>>
    BY <2>2 DEF CountsExact
  <2> QED
    BY <2>1, <2>2, PriorityActs DEF Next, vars, clusterVars, jobVars, statVars
<1> QED
  BY <1>1, <1>2, PriorityTypeCorrect, PTL DEF Spec

\* A job that drops out of the queue or stands in a circle expires in time all
\* the same: no job that has not started waits for max_wait_time ticks.
THEOREM PriorityBoundsWaits == Spec => []WaitBound
<1>1. Init => WaitBound
  BY DEF Init, ClusterInit, NodeInit, WaitBound
<1>2. Typed /\ WaitBound /\ [Next]_vars => WaitBound'
  <2> SUFFICES ASSUME Typed, WaitBound, [Next]_vars PROVE WaitBound'
    OBVIOUS
  <2>1. CASE SimulatorStep
    BY <2>1, SimulatorKeepsWaitBound DEF Typed
  <2>2. CASE UNCHANGED <<job, nodeVars, jobVars>>
    BY <2>2 DEF WaitBound, nodeVars, jobVars
  <2>3. CASE Place
    <3>1. UNCHANGED <<job, jobVars>>
      BY <2>3, PriorityActs DEF Schedule, datasetVars
    <3> QED
      BY <2>3, <3>1, PlacedJob, PutKeepsWaitBound DEF Typed
  <2> QED
    BY <2>1, <2>2, <2>3, PriorityActs DEF Next, vars, clusterVars, datasetVars
<1> QED
  BY <1>1, <1>2, PriorityTypeCorrect, PTL DEF Spec

\* With a dataset whose moments ascend a job that is not done has waited one
\* tick for every tick since its moment, in the queue or out of it.
THEOREM PriorityCountsEveryTick ==
  ASSUME AscendingDatasets PROVE Spec => []WaitIsAge
<1>1. LoadedMoments => Ascending /\ EachJobOnce(moments)
  BY DatasetsAssumption DEF LoadedMoments, AscendingDatasets, Ascending
<1>2. Init /\ Typed => AgeInv
  BY ClusterStartsYoung DEF Init, Typed
<1>3. /\ Typed /\ Ascending /\ EachJobOnce(moments)
      /\ AgeInv /\ [Next]_vars
      => AgeInv'
  <2> SUFFICES ASSUME Typed, Ascending, EachJobOnce(moments), AgeInv, [Next]_vars
               PROVE  AgeInv'
    OBVIOUS
  <2>1. CASE SimulatorStep
    BY <2>1, SimulatorKeepsAges DEF Typed
  <2>2. CASE Distribute \/ Schedule
    <3>1. /\ UNCHANGED <<is_done, wait_time, moments, everything_done, t>>
          /\ pc \notin {"moment", "job", "nodes", "end"}
          /\ pc' \notin {"job", "nodes", "end"}
          /\ pc' = "moment" => jm' = 1
      BY <2>2, PriorityActs DEF jobVars, datasetVars
    <3> QED
      BY <3>1, SchedulerKeepsAges DEF Typed
  <2>3. CASE UNCHANGED vars
    BY <2>3, AgeFrame DEF vars
  <2> QED
    BY <2>1, <2>2, <2>3 DEF Next
<1>4. AgeInv => WaitIsAge
  BY AgesAreWaits
<1> QED
  BY <1>1, <1>2, <1>3, <1>4, PriorityTypeCorrect, PTL DEF Spec

-----------------------------------------------------------------------------
(***************************************************************************)
(* The order of the queue, for datasets with one job in every moment.      *)
(***************************************************************************)
LoneDatasets ==
  \A d \in Datasets : \A p \in DOMAIN d.moments : Len(d.moments[p].jobs) = 1

LoneMoments ==
  /\ \A p \in DOMAIN moments : Len(moments[p].jobs) = 1
  /\ EachJobOnce(moments)

\* From h the pointers s lead over q[1], ..., q[n], all different, to NULL.
Shape(n, q, h, s) ==
  /\ n \in Nat /\ q \in [1..n -> Jobs]
  /\ \A a, b \in 1..n : q[a] = q[b] => a = b
  /\ h = IF n = 0 THEN NULL ELSE q[1]
  /\ \A a \in 1..n : s[q[a]] = IF a = n THEN NULL ELSE q[a + 1]

Ordered(n, q) == \A a \in 1..n : a < n => Priority(q[a]) <= Priority(q[a + 1])

\* The jobs of moments that are not handed over, or not yet in the queue.
Ahead(j) ==
  \E p \in DOMAIN moments :
    /\ moments[p].jobs[1] = j
    /\ p > jseq \/ (p = jseq /\ ~(pc = "enqueue" /\ i = 2))

\* The loop of _place_job_by_priority has a job of the queue behind it and one
\* in front of it.
AtPlace(n, q) ==
  /\ pc = "enqueue" => i \in {1, 2}
  /\ pc = "place" =>
       /\ i = 1
       /\ \E a \in 1..n : a < n /\ plist = q[a] /\ Priority(q[a]) < Priority(ToPlace)

\* prev_rest is NULL at the head of the queue, and is the job itself behind it.
OnWalk(n, q) ==
  pc = "visit" /\ rest # NULL =>
    /\ \E a \in 1..n : rest = q[a]
    /\ (prev_rest = NULL /\ rest = by_priority) \/ prev_rest = rest

ChainIs(n, q) ==
  /\ Shape(n, q, by_priority, sched_info)
  /\ Ordered(n, q)
  /\ \A a \in 1..n : ~Ahead(q[a])
  /\ AtPlace(n, q)
  /\ OnWalk(n, q)

AheadIsFree == \A j \in Jobs : Ahead(j) => sched_info[j] = NULL

OrderInv == AheadIsFree /\ \E n, q : ChainIs(n, q)

-----------------------------------------------------------------------------
\* The chain with j behind its k-th job, and what that asks of the pointers.
Behind(n, q, k, j) ==
  [a \in 1..(n + 1) |-> IF a <= k THEN q[a] ELSE IF a = k + 1 THEN j ELSE q[a - 1]]

LinkedIn(n, q, k, j, h, s, hh, ss) ==
  /\ \A a \in 1..n : q[a] # j
  /\ hh = IF k = 0 THEN j ELSE h
  /\ ss[j] = IF k = n THEN NULL ELSE q[k + 1]
  /\ k # 0 => ss[q[k]] = j
  /\ \A a \in 1..n : a # k => ss[q[a]] = s[q[a]]

\* What stands at each place of r when j is put at place k + 1 of q.
PutIn(r, n, q, k, j) ==
  /\ \A a \in 1..(n + 1) : a <= k => r[a] = q[a] /\ a \in 1..n
  /\ r[k + 1] = j /\ k + 1 \in 1..(n + 1)
  /\ \A a \in 1..(n + 1) : a > k + 1 => r[a] = q[a - 1] /\ a - 1 \in 1..n
  /\ \A a \in 1..(n + 1) : a <= k \/ a = k + 1 \/ a > k + 1

LEMMA BehindIs ==
  ASSUME NEW n \in Nat, NEW q, NEW k \in 0..n, NEW j
  PROVE  PutIn(Behind(n, q, k, j), n, q, k, j)
BY DEF Behind, PutIn

LEMMA InsertedShape ==
  ASSUME NEW n, NEW q, NEW h, NEW s, Shape(n, q, h, s),
         NEW k \in 0..n, NEW j \in Jobs, NEW hh, NEW ss,
         LinkedIn(n, q, k, j, h, s, hh, ss)
  PROVE  Shape(n + 1, Behind(n, q, k, j), hh, ss)
<1> DEFINE r == Behind(n, q, k, j)
<1>0. n \in Nat /\ n + 1 \in Nat /\ q \in [1..n -> Jobs] /\ k \in Nat
  BY DEF Shape
<1>put. PutIn(r, n, q, k, j)
  BY <1>0, BehindIs
<1>2. DOMAIN r = 1..(n + 1) /\ r = [a \in 1..(n + 1) |-> r[a]]
  BY DEF Behind
<1> HIDE DEF r
<1>1. /\ \A a \in 1..(n + 1) : a <= k => r[a] = q[a] /\ a \in 1..n
      /\ r[k + 1] = j /\ k + 1 \in 1..(n + 1)
      /\ \A a \in 1..(n + 1) : a > k + 1 => r[a] = q[a - 1] /\ a - 1 \in 1..n
      /\ \A a \in 1..(n + 1) : a <= k \/ a = k + 1 \/ a > k + 1
  BY <1>put DEF PutIn
<1>3. \A a \in 1..(n + 1) : r[a] \in Jobs
  <2> SUFFICES ASSUME NEW a \in 1..(n + 1) PROVE r[a] \in Jobs
    OBVIOUS
  <2>1. CASE a <= k
    BY <1>0, <1>1, <2>1
  <2>2. CASE a = k + 1
    BY <1>1, <2>2
  <2>3. CASE a > k + 1
    BY <1>0, <1>1, <2>3
  <2> QED
    BY <1>1, <2>1, <2>2, <2>3
<1>4. r \in [1..(n + 1) -> Jobs]
  BY <1>2, <1>3
<1>5. ASSUME NEW a \in 1..(n + 1), NEW b \in 1..(n + 1), r[a] = r[b]
      PROVE  a = b
  <2>1. \A x, y \in 1..n : q[x] = q[y] => x = y
    BY DEF Shape
  <2>2. \A x \in 1..n : q[x] # j
    BY DEF LinkedIn
  <2> QED
    BY <1>0, <1>1, <1>5, <2>1, <2>2
<1>6. hh = IF n + 1 = 0 THEN NULL ELSE r[1]
  <2>1. h = IF n = 0 THEN NULL ELSE q[1]
    BY DEF Shape
  <2>2. hh = IF k = 0 THEN j ELSE h
    BY DEF LinkedIn
  <2> QED
    BY <1>0, <1>1, <2>1, <2>2
<1>7. ASSUME NEW a \in 1..(n + 1)
      PROVE  ss[r[a]] = IF a = n + 1 THEN NULL ELSE r[a + 1]
  <2>1. \A x \in 1..n : s[q[x]] = IF x = n THEN NULL ELSE q[x + 1]
    BY DEF Shape
  <2>2. /\ ss[j] = IF k = n THEN NULL ELSE q[k + 1]
        /\ k # 0 => ss[q[k]] = j
        /\ \A x \in 1..n : x # k => ss[q[x]] = s[q[x]]
    BY DEF LinkedIn
  <2>3. CASE a <= k
    <3>1. r[a] = q[a] /\ a \in 1..n /\ a # n + 1
      BY <1>0, <1>1, <2>3
    <3>2. CASE a = k
      BY <1>0, <1>1, <2>2, <3>1, <3>2
    <3>3. CASE a # k
      <4>1. a + 1 \in 1..(n + 1) /\ a + 1 <= k /\ a # n
        BY <1>0, <2>3, <3>3
      <4>2. r[a + 1] = q[a + 1]
        BY <1>1, <4>1
      <4>3. ss[q[a]] = q[a + 1]
        BY <2>1, <2>2, <3>1, <3>3, <4>1
      <4> QED
        BY <3>1, <4>2, <4>3
    <3> QED
      BY <3>2, <3>3
  <2>4. CASE a = k + 1
    <3>1. CASE k = n
      BY <1>1, <2>2, <2>4, <3>1
    <3>2. CASE k # n
      <4>1. a + 1 \in 1..(n + 1) /\ a + 1 > k + 1 /\ (a + 1) - 1 = k + 1 /\ a # n + 1
        BY <1>0, <2>4, <3>2
      <4>2. r[a + 1] = q[k + 1]
        BY <1>1, <4>1
      <4> QED
        BY <1>1, <2>2, <2>4, <3>2, <4>1, <4>2
    <3> QED
      BY <3>1, <3>2
  <2>5. CASE a > k + 1
    <3>1. r[a] = q[a - 1] /\ a - 1 \in 1..n /\ a - 1 # k
      BY <1>0, <1>1, <2>5
    <3>2. ss[r[a]] = IF a - 1 = n THEN NULL ELSE q[(a - 1) + 1]
      BY <2>1, <2>2, <3>1
    <3>3. CASE a = n + 1
      BY <1>0, <3>2, <3>3
    <3>4. CASE a # n + 1
      <4>1. a + 1 \in 1..(n + 1) /\ a + 1 > k + 1 /\ (a + 1) - 1 = (a - 1) + 1 /\ a - 1 # n
        BY <1>0, <2>5, <3>4
      <4>2. r[a + 1] = q[(a + 1) - 1]
        BY <1>1, <4>1
      <4> QED
        BY <3>2, <3>4, <4>1, <4>2
    <3> QED
      BY <3>3, <3>4
  <2> QED
    BY <1>1, <2>3, <2>4, <2>5
<1> QED
  BY <1>0, <1>4, <1>5, <1>6, <1>7 DEF Shape, r

\* Between a job that is not less important and one that is not more so.
FitsBehind(n, q, k, j) ==
  /\ k # 0 => Priority(q[k]) <= Priority(j)
  /\ k # n => Priority(j) <= Priority(q[k + 1])

LEMMA InsertedOrder ==
  ASSUME NEW n \in Nat, NEW q, Ordered(n, q), NEW k \in 0..n, NEW j, FitsBehind(n, q, k, j)
  PROVE  Ordered(n + 1, Behind(n, q, k, j))
<1> DEFINE r == Behind(n, q, k, j)
<1>put. PutIn(r, n, q, k, j)
  BY BehindIs
<1> HIDE DEF r
<1>1. /\ \A a \in 1..(n + 1) : a <= k => r[a] = q[a] /\ a \in 1..n
      /\ r[k + 1] = j /\ k + 1 \in 1..(n + 1)
      /\ \A a \in 1..(n + 1) : a > k + 1 => r[a] = q[a - 1] /\ a - 1 \in 1..n
      /\ \A a \in 1..(n + 1) : a <= k \/ a = k + 1 \/ a > k + 1
  BY <1>put DEF PutIn
<1>2. ASSUME NEW a \in 1..(n + 1), a < n + 1
      PROVE  Priority(r[a]) <= Priority(r[a + 1])
  <2>0. \A x \in 1..n : x < n => Priority(q[x]) <= Priority(q[x + 1])
    BY DEF Ordered
  <2>1. CASE a < k
    <3>1. a + 1 \in 1..(n + 1) /\ a + 1 <= k /\ a <= k /\ a \in 1..n /\ a < n
      BY <2>1
    <3>2. r[a] = q[a] /\ r[a + 1] = q[a + 1]
      BY <1>1, <3>1
    <3> QED
      BY <2>0, <3>1, <3>2
  <2>2. CASE a = k
    <3>1. r[a] = q[k] /\ r[a + 1] = j /\ k # 0
      BY <1>1, <2>2
    <3> QED
      BY <3>1 DEF FitsBehind
  <2>3. CASE a = k + 1
    <3>1. a + 1 \in 1..(n + 1) /\ a + 1 > k + 1 /\ (a + 1) - 1 = k + 1 /\ k # n
      BY <1>2, <2>3
    <3>2. r[a] = j /\ r[a + 1] = q[k + 1]
      BY <1>1, <2>3, <3>1
    <3> QED
      BY <3>1, <3>2 DEF FitsBehind
  <2>4. CASE a > k + 1
    <3>1. /\ a + 1 \in 1..(n + 1) /\ a + 1 > k + 1 /\ (a + 1) - 1 = (a - 1) + 1
          /\ a - 1 \in 1..n /\ a - 1 < n
      BY <1>2, <2>4
    <3>2. r[a] = q[a - 1] /\ r[a + 1] = q[(a - 1) + 1]
      BY <1>1, <2>4, <3>1
    <3> QED
      BY <2>0, <3>1, <3>2
  <2> QED
    BY <1>1, <2>1, <2>2, <2>3, <2>4
<1> QED
  BY <1>2 DEF Ordered, r

-----------------------------------------------------------------------------
\* In a moment of one job this job is the only one that has its turn.
LEMMA LoneTurn ==
  ASSUME Typed, LoneMoments, jseq \in DOMAIN moments
  PROVE  /\ moments[jseq].jobs[1] \in Jobs
         /\ Len(moments[jseq].jobs) = 1
         /\ i <= Len(moments[jseq].jobs) => i = 1 /\ ToPlace = moments[jseq].jobs[1]
<1>1. moments[jseq].jobs \in Seq(Jobs) /\ i \in Nat \ {0} /\ Len(moments[jseq].jobs) = 1
  BY MomentTimes DEF Typed, LoneMoments
<1>2. 1 \in DOMAIN moments[jseq].jobs
  BY <1>1
<1>3. moments[jseq].jobs[1] \in Jobs
  BY <1>1, <1>2
<1>4. i <= Len(moments[jseq].jobs) => i = 1
  BY <1>1
<1> QED
  BY <1>1, <1>3, <1>4 DEF ToPlace

\* A moment's job stands in no other moment.
LEMMA LonePlace ==
  ASSUME Typed, LoneMoments, NEW p \in DOMAIN moments, NEW r \in DOMAIN moments,
         moments[p].jobs[1] = moments[r].jobs[1]
  PROVE  p = r
<1>1. 1 \in DOMAIN moments[p].jobs /\ 1 \in DOMAIN moments[r].jobs
  <2>1. moments[p].jobs \in Seq(Jobs) /\ moments[r].jobs \in Seq(Jobs)
    BY MomentTimes DEF Typed
  <2>2. Len(moments[p].jobs) = 1 /\ Len(moments[r].jobs) = 1
    BY DEF LoneMoments
  <2> QED
    BY <2>1, <2>2
<1>2. ClusterTypeOK /\ EachJobOnce(moments)
  BY DEF Typed, LoneMoments
<1> QED
  BY <1>1, <1>2, OnePlace

\* When the job of the moment is in the queue it is ahead no more.
LEMMA TurnTaken ==
  ASSUME Typed, LoneMoments, jseq \in DOMAIN moments, UNCHANGED <<moments, jseq>>,
         ~(pc = "enqueue" /\ i = 2), pc' = "enqueue" /\ i' = 2
  PROVE  /\ Ahead(moments[jseq].jobs[1])
         /\ \A j \in Jobs : Ahead(j)' => Ahead(j) /\ j # moments[jseq].jobs[1]
<1>1. jseq \in Nat /\ \A p \in DOMAIN moments : p \in Nat
  BY MomentTimes DEF Typed, ClusterTypeOK
<1>2. Ahead(moments[jseq].jobs[1])
  BY <1>1 DEF Ahead
<1>3. ASSUME NEW j \in Jobs, Ahead(j)'
      PROVE  Ahead(j) /\ j # moments[jseq].jobs[1]
  <2>1. PICK p \in DOMAIN moments : moments[p].jobs[1] = j /\ p > jseq
    BY <1>1, <1>3 DEF Ahead
  <2>2. j # moments[jseq].jobs[1]
    BY <1>1, <2>1, LonePlace
  <2> QED
    BY <2>1, <2>2 DEF Ahead
<1> QED
  BY <1>2, <1>3

\* The step by which the job of the moment gets its place in the queue, behind
\* the k-th job.
TurnLinks(n, q, k, j) ==
  /\ LinkedIn(n, q, k, j, by_priority, sched_info, by_priority', sched_info')
  /\ \A x \in Jobs : x # j =>
       (\E a \in 1..n : x = q[a]) \/ sched_info'[x] = sched_info[x]

LEMMA TurnKeepsOrder ==
  ASSUME Typed, LoneMoments, jseq \in DOMAIN moments, UNCHANGED <<moments, jseq, job>>,
         ~(pc = "enqueue" /\ i = 2), pc' = "enqueue" /\ i' = 2,
         AheadIsFree, NEW n, NEW q, ChainIs(n, q), NEW k \in 0..n,
         NEW j \in Jobs, j = moments[jseq].jobs[1],
         FitsBehind(n, q, k, j), TurnLinks(n, q, k, j)
  PROVE  OrderInv'
<1> DEFINE r == Behind(n, q, k, j)
<1>2. n \in Nat /\ Shape(n, q, by_priority, sched_info) /\ Ordered(n, q)
  BY DEF ChainIs, Shape
<1>3. \A x \in Jobs : Ahead(x)' => Ahead(x) /\ x # j
  BY TurnTaken
<1>4. /\ LinkedIn(n, q, k, j, by_priority, sched_info, by_priority', sched_info')
      /\ \A x \in Jobs : x # j => (\E a \in 1..n : x = q[a]) \/ sched_info'[x] = sched_info[x]
      /\ FitsBehind(n, q, k, j)
  BY DEF TurnLinks
<1>5. \A a \in 1..n : ~Ahead(q[a])
  BY DEF ChainIs
<1>6. Shape(n + 1, r, by_priority', sched_info')
  BY <1>2, <1>4, InsertedShape
<1>7. Ordered(n + 1, r)
  BY <1>2, <1>4, InsertedOrder
<1>8. ASSUME NEW a \in 1..(n + 1), NEW x, x = r[a], Ahead(x)'
      PROVE  FALSE
  <2>1. x \in Jobs
    BY <1>6, <1>8 DEF Shape
  <2>2. x = j \/ \E b \in 1..n : x = q[b]
    BY <1>2, <1>8 DEF Behind
  <2> QED
    BY <1>3, <1>5, <1>8, <2>1, <2>2
<1> HIDE DEF r
<1>9. ChainIs(n + 1, r)'
  <2>1. Ordered(n + 1, r)'
    BY <1>7 DEF Ordered, Priority
  <2>2. \A a \in 1..(n + 1) : ~Ahead(r[a])'
    BY <1>8 DEF Ahead
  <2>3. AtPlace(n + 1, r)' /\ OnWalk(n + 1, r)'
    BY DEF AtPlace, OnWalk
  <2>4. Shape(n + 1, r, by_priority, sched_info)'
    BY <1>6 DEF Shape
  <2> QED
    BY <2>1, <2>2, <2>3, <2>4 DEF ChainIs
<1>10. AheadIsFree'
  <2> SUFFICES ASSUME NEW x \in Jobs, Ahead(x)' PROVE sched_info'[x] = NULL
    BY DEF AheadIsFree
  <2>1. Ahead(x) /\ x # j
    BY <1>3
  <2>2. sched_info[x] = NULL
    BY <2>1 DEF AheadIsFree
  <2> QED
    BY <1>4, <1>5, <2>1, <2>2
<1> QED
  BY <1>9, <1>10 DEF OrderInv

-----------------------------------------------------------------------------
\* What leaves the pointers alone, puts nothing ahead and stays in its place.
LEMMA ChainFrame ==
  ASSUME UNCHANGED <<job, moments, sched_info, by_priority>>, AheadIsFree,
         NEW n, NEW q, ChainIs(n, q), \A j \in Jobs : Ahead(j)' => Ahead(j),
         AtPlace(n, q)', OnWalk(n, q)'
  PROVE  OrderInv'
<1>1. Shape(n, q, by_priority, sched_info)' /\ Ordered(n, q)'
  BY DEF ChainIs, Shape, Ordered, Priority
<1>2. ASSUME NEW a \in 1..n, NEW x, x = q[a], Ahead(x)' PROVE FALSE
  <2>1. x \in Jobs
    BY <1>2 DEF ChainIs, Shape
  <2> QED
    BY <1>2, <2>1 DEF ChainIs
<1>3. \A a \in 1..n : ~Ahead(q[a])'
  BY <1>2 DEF Ahead
<1>4. ChainIs(n, q)'
  BY <1>1, <1>3 DEF ChainIs
<1>5. AheadIsFree'
  BY DEF AheadIsFree
<1> QED
  BY <1>4, <1>5 DEF OrderInv

\* Read off the chain: where the queue is, and what is behind a job of it.
LEMMA ChainFacts ==
  ASSUME NEW n, NEW q, ChainIs(n, q)
  PROVE  /\ n \in Nat /\ NULL \notin Jobs
         /\ \A a \in 1..n : q[a] \in Jobs
         /\ \A a, b \in 1..n : q[a] = q[b] => a = b
         /\ by_priority = IF n = 0 THEN NULL ELSE q[1]
         /\ by_priority # NULL <=> n # 0
         /\ \A a \in 1..n : sched_info[q[a]] = IF a = n THEN NULL ELSE q[a + 1]
         /\ \A a \in 1..n : sched_info[q[a]] = NULL <=> a = n
         /\ \A a \in 1..n : ~Ahead(q[a])
<1>1. /\ n \in Nat
      /\ \A a \in 1..n : q[a] \in Jobs
      /\ \A a, b \in 1..n : q[a] = q[b] => a = b
      /\ by_priority = IF n = 0 THEN NULL ELSE q[1]
      /\ \A a \in 1..n : sched_info[q[a]] = IF a = n THEN NULL ELSE q[a + 1]
      /\ \A a \in 1..n : ~Ahead(q[a])
  BY DEF ChainIs, Shape
<1>2. NULL \notin Jobs
  BY NullNotJob
<1>3. n # 0 => 1 \in 1..n
  BY <1>1
<1>4. \A a \in 1..n : a # n => a + 1 \in 1..n
  BY <1>1
<1> QED
  BY <1>1, <1>2, <1>3, <1>4

LEMMA PriorityIsNumber ==
  ASSUME Typed, NEW j \in Jobs
  PROVE  Priority(j) \in Nat
<1>1. job[j] \in JobType
  BY DEF Typed, ClusterTypeOK, NodeTypeOK
<1> QED
  BY <1>1 DEF JobType, Priority

LEMMA EnqueueKeepsOrder ==
  ASSUME Typed, LoneMoments, OrderInv, PlaceInFront \/ PlaceBehindOnly \/ StartPlacing
  PROVE  OrderInv'
<1>0. /\ pc = "enqueue" /\ i <= Len(moments[jseq].jobs) /\ jseq \in DOMAIN moments
      /\ by_priority # NULL
      /\ UNCHANGED <<moments, jseq, job, rest, prev_rest>>
      /\ sched_info \in [Jobs -> Cell]
  BY DEF PlaceInFront, PlaceBehindOnly, StartPlacing, Enqueuing, DistributeFrame,
         datasetVars, Typed
<1>1. i = 1 /\ ToPlace = moments[jseq].jobs[1] /\ ToPlace \in Jobs
  BY <1>0, LoneTurn
<1>2. PICK j \in Jobs : j = ToPlace
  BY <1>1
<1>3. AheadIsFree
  BY DEF OrderInv
<1>4. PICK n : \E q : ChainIs(n, q)
  BY DEF OrderInv
<1>5. PICK q : ChainIs(n, q)
  BY <1>4
<1>6. /\ n \in Nat /\ NULL \notin Jobs
      /\ \A a \in 1..n : q[a] \in Jobs
      /\ \A a, b \in 1..n : q[a] = q[b] => a = b
      /\ n # 0 /\ by_priority = q[1] /\ 1 \in 1..n
      /\ \A a \in 1..n : sched_info[q[a]] = IF a = n THEN NULL ELSE q[a + 1]
      /\ \A a \in 1..n : sched_info[q[a]] = NULL <=> a = n
      /\ \A a \in 1..n : ~Ahead(q[a])
  BY <1>0, <1>5, ChainFacts
<1>7. Ahead(j) /\ sched_info[j] = NULL /\ \A a \in 1..n : q[a] # j
  <2>1. Ahead(j)
    BY <1>0, <1>1, <1>2 DEF Ahead
  <2> QED
    BY <1>3, <1>6, <2>1 DEF AheadIsFree
<1>8. CASE PlaceInFront
  <2>1. /\ Priority(j) <= Priority(q[1])
        /\ sched_info' = [sched_info EXCEPT ![j] = by_priority]
        /\ by_priority' = j /\ i' = 2 /\ pc' = "enqueue"
    BY <1>0, <1>1, <1>2, <1>6, <1>8 DEF PlaceInFront
  <2>2. TurnLinks(n, q, 0, j)
    <3>1. LinkedIn(n, q, 0, j, by_priority, sched_info, by_priority', sched_info')
      BY <1>0, <1>6, <1>7, <2>1 DEF LinkedIn
    <3>2. \A x \in Jobs : x # j => sched_info'[x] = sched_info[x]
      BY <1>0, <2>1
    <3> QED
      BY <3>1, <3>2 DEF TurnLinks
  <2>3. FitsBehind(n, q, 0, j)
    BY <2>1 DEF FitsBehind
  <2>4. 0 \in 0..n
    BY <1>6
  <2> QED
    BY <1>0, <1>1, <1>2, <1>3, <1>5, <2>1, <2>2, <2>3, <2>4, TurnKeepsOrder
<1>9. CASE PlaceBehindOnly
  <2>1. /\ Priority(j) > Priority(q[1]) /\ sched_info[q[1]] = NULL
        /\ sched_info' = [sched_info EXCEPT ![q[1]] = j]
        /\ by_priority' = by_priority /\ i' = 2 /\ pc' = "enqueue"
    BY <1>0, <1>1, <1>2, <1>6, <1>9 DEF PlaceBehindOnly
  <2>2. n = 1
    BY <1>6, <2>1
  <2>3. TurnLinks(n, q, 1, j)
    <3>1. LinkedIn(n, q, 1, j, by_priority, sched_info, by_priority', sched_info')
      <4>1. /\ sched_info'[j] = NULL /\ sched_info'[q[1]] = j
            /\ \A a \in 1..n : a # 1 => sched_info'[q[a]] = sched_info[q[a]]
        BY <1>0, <1>2, <1>6, <1>7, <2>1, <2>2
      <4> QED
        BY <1>7, <2>1, <2>2, <4>1 DEF LinkedIn
    <3>2. \A x \in Jobs : x # q[1] => sched_info'[x] = sched_info[x]
      BY <1>0, <1>6, <2>1
    <3> QED
      BY <1>6, <3>1, <3>2 DEF TurnLinks
  <2>4. FitsBehind(n, q, 1, j)
    <3>1. Priority(q[1]) \in Nat /\ Priority(j) \in Nat
      BY <1>6, PriorityIsNumber
    <3> QED
      BY <2>1, <2>2, <3>1 DEF FitsBehind
  <2>5. 1 \in 0..n
    BY <2>2
  <2> QED
    BY <1>0, <1>1, <1>2, <1>3, <1>5, <2>1, <2>3, <2>4, <2>5, TurnKeepsOrder
<1>10. CASE StartPlacing
  <2>1. /\ Priority(j) > Priority(q[1]) /\ sched_info[q[1]] # NULL
        /\ plist' = q[1] /\ pc' = "place"
        /\ UNCHANGED <<sched_info, by_priority, i>>
    BY <1>2, <1>6, <1>10 DEF StartPlacing, chainVars
  <2>2. 1 < n /\ Priority(q[1]) < Priority(j)
    <3>1. Priority(q[1]) \in Nat /\ Priority(j) \in Nat
      BY <1>6, PriorityIsNumber
    <3> QED
      BY <1>6, <2>1, <3>1
  <2>3. ToPlace' = ToPlace /\ \A x : Priority(x)' = Priority(x)
    BY <1>0, <2>1 DEF ToPlace, Priority
  <2>4. AtPlace(n, q)' /\ OnWalk(n, q)'
    <3>1. Priority(q[1])' < Priority(ToPlace)'
      BY <1>0, <1>2, <2>1, <2>2 DEF ToPlace, Priority
    <3> QED
      BY <1>1, <1>6, <2>1, <2>2, <3>1 DEF AtPlace, OnWalk
  <2>5. \A x \in Jobs : Ahead(x)' => Ahead(x)
    BY <1>0, <1>1 DEF Ahead
  <2> QED
    BY <1>0, <1>3, <1>5, <2>1, <2>4, <2>5, ChainFrame
<1> QED
  BY <1>8, <1>9, <1>10

LEMMA PlaceKeepsOrder ==
  ASSUME Typed, LoneMoments, OrderInv, PlaceBefore \/ PlaceLast \/ PlaceFurther
  PROVE  OrderInv'
<1>0. /\ pc = "place" /\ i <= Len(moments[jseq].jobs) /\ jseq \in DOMAIN moments
      /\ UNCHANGED <<moments, jseq, job, rest, prev_rest, by_priority>>
      /\ sched_info \in [Jobs -> Cell]
  BY DEF PlaceBefore, PlaceLast, PlaceFurther, Placing, DistributeFrame, datasetVars, Typed
<1>1. i = 1 /\ ToPlace = moments[jseq].jobs[1] /\ ToPlace \in Jobs
  BY <1>0, LoneTurn
<1>2. PICK j \in Jobs : j = ToPlace
  BY <1>1
<1>3. AheadIsFree
  BY DEF OrderInv
<1>4. PICK n : \E q : ChainIs(n, q)
  BY DEF OrderInv
<1>5. PICK q : ChainIs(n, q)
  BY <1>4
<1>6. /\ n \in Nat /\ NULL \notin Jobs
      /\ \A a \in 1..n : q[a] \in Jobs
      /\ \A a, b \in 1..n : q[a] = q[b] => a = b
      /\ \A a \in 1..n : sched_info[q[a]] = IF a = n THEN NULL ELSE q[a + 1]
      /\ \A a \in 1..n : sched_info[q[a]] = NULL <=> a = n
      /\ \A a \in 1..n : ~Ahead(q[a])
  BY <1>5, ChainFacts
<1>7. Ahead(j) /\ \A a \in 1..n : q[a] # j
  <2>1. Ahead(j)
    BY <1>0, <1>1, <1>2 DEF Ahead
  <2> QED
    BY <1>6, <2>1
<1>8. PICK k \in 1..n : k < n /\ plist = q[k] /\ Priority(q[k]) < Priority(j)
  <2>1. \E a \in 1..n : a < n /\ plist = q[a] /\ Priority(q[a]) < Priority(ToPlace)
    BY <1>0, <1>5 DEF ChainIs, AtPlace
  <2> QED
    BY <1>2, <2>1
<1>9. k \in 0..n /\ k + 1 \in 1..n /\ k # 0 /\ k # n /\ nlist = q[k + 1]
  BY <1>6, <1>8 DEF nlist
<1>10. /\ Priority(j) \in Nat
       /\ \A a \in 1..n : Priority(q[a]) \in Nat
  BY <1>6, PriorityIsNumber
<1>11. CASE PlaceBefore
  <2>1. /\ Priority(j) <= Priority(q[k + 1])
        /\ sched_info' = [sched_info EXCEPT ![q[k]] = j, ![j] = q[k + 1]]
        /\ i' = 2 /\ pc' = "enqueue"
    BY <1>1, <1>2, <1>8, <1>9, <1>11 DEF PlaceBefore
  <2>2. /\ sched_info'[j] = q[k + 1] /\ sched_info'[q[k]] = j
        /\ \A x \in Jobs : x # j /\ x # q[k] => sched_info'[x] = sched_info[x]
    BY <1>0, <1>6, <1>7, <2>1
  <2>3. TurnLinks(n, q, k, j)
    <3>1. LinkedIn(n, q, k, j, by_priority, sched_info, by_priority', sched_info')
      BY <1>0, <1>6, <1>7, <1>9, <2>2 DEF LinkedIn
    <3> QED
      BY <2>2, <3>1 DEF TurnLinks
  <2>4. FitsBehind(n, q, k, j)
    BY <1>8, <1>9, <1>10, <2>1 DEF FitsBehind
  <2> QED
    BY <1>0, <1>1, <1>2, <1>3, <1>5, <1>9, <2>1, <2>3, <2>4, TurnKeepsOrder
<1>12. CASE PlaceLast
  <2>1. /\ Priority(j) > Priority(q[k + 1]) /\ sched_info[q[k + 1]] = NULL
        /\ sched_info' = [sched_info EXCEPT ![q[k + 1]] = j, ![j] = NULL]
        /\ i' = 2 /\ pc' = "enqueue"
    BY <1>1, <1>2, <1>9, <1>12 DEF PlaceLast
  <2>2. k + 1 = n /\ n \in 1..n /\ n \in 0..n
    BY <1>6, <1>9, <2>1
  <2>3. /\ sched_info'[j] = NULL /\ sched_info'[q[n]] = j
        /\ \A x \in Jobs : x # j /\ x # q[n] => sched_info'[x] = sched_info[x]
    BY <1>0, <1>6, <1>7, <2>1, <2>2
  <2>4. TurnLinks(n, q, n, j)
    <3>1. LinkedIn(n, q, n, j, by_priority, sched_info, by_priority', sched_info')
      BY <1>0, <1>6, <1>7, <2>2, <2>3 DEF LinkedIn
    <3> QED
      BY <2>2, <2>3, <3>1 DEF TurnLinks
  <2>5. FitsBehind(n, q, n, j)
    BY <1>10, <2>1, <2>2 DEF FitsBehind
  <2> QED
    BY <1>0, <1>1, <1>2, <1>3, <1>5, <2>1, <2>2, <2>4, <2>5, TurnKeepsOrder
<1>13. CASE PlaceFurther
  <2>1. /\ Priority(j) > Priority(q[k + 1]) /\ sched_info[q[k + 1]] # NULL
        /\ plist' = q[k + 1]
        /\ UNCHANGED <<sched_info, i, pc>>
    BY <1>2, <1>9, <1>13 DEF PlaceFurther
  <2>2. k + 1 < n /\ Priority(q[k + 1]) < Priority(j)
    BY <1>6, <1>9, <1>10, <2>1
  <2>3. Priority(q[k + 1])' < Priority(ToPlace)'
    BY <1>0, <1>2, <2>1, <2>2 DEF ToPlace, Priority
  <2>4. AtPlace(n, q)' /\ OnWalk(n, q)'
    BY <1>0, <1>1, <1>9, <2>1, <2>2, <2>3 DEF AtPlace, OnWalk
  <2>5. \A x \in Jobs : Ahead(x)' => Ahead(x)
    BY <1>0, <2>1 DEF Ahead
  <2> QED
    BY <1>0, <1>3, <1>5, <2>1, <2>4, <2>5, ChainFrame
<1> QED
  BY <1>11, <1>12, <1>13

LEMMA StartKeepsOrder ==
  ASSUME Typed, LoneMoments, OrderInv, StartDistribute
  PROVE  OrderInv'
<1>0. /\ pc = "distribute" /\ pc' = "enqueue" /\ jseq \in DOMAIN moments
      /\ UNCHANGED <<moments, jseq, job>>
      /\ sched_info \in [Jobs -> Cell]
  BY DEF StartDistribute, MomentDue, DistributeFrame, datasetVars, Typed, ClusterTypeOK
<1>1. AheadIsFree
  BY DEF OrderInv
<1>2. PICK n : \E q : ChainIs(n, q)
  BY DEF OrderInv
<1>3. PICK q : ChainIs(n, q)
  BY <1>2
<1>4. CASE by_priority = NULL
  <2>1. PICK j \in Jobs : j = moments[jseq].jobs[1]
    BY <1>0, LoneTurn
  <2>2. /\ by_priority' = j /\ i' = 2
        /\ sched_info' = [sched_info EXCEPT ![j] = NULL]
    BY <1>4, <2>1 DEF StartDistribute
  <2>3. n = 0 /\ 0 \in 0..n
    BY <1>3, <1>4, ChainFacts
  <2>4. TurnLinks(n, q, 0, j)
    BY <1>0, <2>2, <2>3 DEF TurnLinks, LinkedIn
  <2>5. FitsBehind(n, q, 0, j)
    BY <2>3 DEF FitsBehind
  <2> QED
    BY <1>0, <1>1, <1>3, <2>1, <2>2, <2>3, <2>4, <2>5, TurnKeepsOrder
<1>5. CASE by_priority # NULL
  <2>1. i' = 1 /\ UNCHANGED <<sched_info, by_priority>>
    BY <1>5 DEF StartDistribute, chainVars
  <2>2. AtPlace(n, q)' /\ OnWalk(n, q)'
    BY <1>0, <2>1 DEF AtPlace, OnWalk
  <2>3. \A x \in Jobs : Ahead(x)' => Ahead(x)
    BY <1>0, <2>1 DEF Ahead
  <2> QED
    BY <1>0, <1>1, <1>3, <2>1, <2>2, <2>3, ChainFrame
<1> QED
  BY <1>4, <1>5

\* The rest of what a tick does with the queue standing still.
LEMMA StandingKeepsOrder ==
  ASSUME Typed, LoneMoments, OrderInv,
         UNCHANGED <<job, moments, sched_info, by_priority>>,
         \/ Distributed
         \/ NoMomentDue /\ UNCHANGED priorityVars
         \/ SimulatorStep /\ UNCHANGED priorityVars
         \/ StartWalk
         \/ PassOver
         \/ QueueWalked
  PROVE  OrderInv'
<1>1. AheadIsFree
  BY DEF OrderInv
<1>2. PICK n : \E q : ChainIs(n, q)
  BY DEF OrderInv
<1>3. PICK q : ChainIs(n, q)
  BY <1>2
<1>4. jseq \in Nat /\ \A p \in DOMAIN moments : p \in Nat
  BY MomentTimes DEF Typed, ClusterTypeOK
<1>5. CASE Distributed
  <2>1. /\ pc = "enqueue" /\ pc' = "schedule" /\ jseq \in DOMAIN moments
        /\ i > Len(moments[jseq].jobs) /\ jseq' = jseq + 1
    BY <1>5 DEF Distributed, Typed
  <2>2. \A x \in Jobs : Ahead(x)' => Ahead(x)
    BY <1>4, <2>1 DEF Ahead
  <2>3. AtPlace(n, q)' /\ OnWalk(n, q)'
    BY <2>1 DEF AtPlace, OnWalk
  <2> QED
    BY <1>1, <1>3, <2>2, <2>3, ChainFrame
<1>6. CASE ~Distributed
  <2>1. /\ jseq' = jseq /\ pc \notin {"enqueue", "place"} /\ pc' \notin {"enqueue", "place"}
    BY <1>6, SimulatorFrame DEF NoMomentDue, StartWalk, PassOver, QueueWalked, Visit, StepStarts,
       ScheduleFrame
  <2>2. \A x \in Jobs : Ahead(x)' => Ahead(x)
    BY <2>1 DEF Ahead
  <2>3. AtPlace(n, q)'
    BY <2>1 DEF AtPlace
  <2>4. OnWalk(n, q)'
    <3>1. CASE pc' # "visit"
      BY <3>1 DEF OnWalk
    <3>2. CASE StartWalk
      <4>1. rest' = by_priority /\ prev_rest' = NULL /\ by_priority' = by_priority
        BY <3>2 DEF StartWalk
      <4>2. by_priority # NULL => 1 \in 1..n /\ by_priority = q[1]
        BY <1>3, ChainFacts
      <4> QED
        BY <4>1, <4>2 DEF OnWalk
    <3>3. CASE PassOver
      <4>1. /\ pc = "visit" /\ rest # NULL
            /\ rest' = sched_info[rest] /\ prev_rest' = rest'
        BY <3>3 DEF PassOver, Visit
      <4>2. PICK a \in 1..n : rest = q[a]
        BY <1>3, <4>1 DEF ChainIs, OnWalk
      <4>3. rest' # NULL => a + 1 \in 1..n /\ rest' = q[a + 1]
        BY <1>3, <4>1, <4>2, ChainFacts
      <4> QED
        BY <4>1, <4>3 DEF OnWalk
    <3> QED
      BY <1>6, <3>1, <3>2, <3>3, SimulatorFrame DEF NoMomentDue, QueueWalked, StepStarts
  <2> QED
    BY <1>1, <1>3, <2>2, <2>3, <2>4, ChainFrame
<1> QED
  BY <1>5, <1>6

\* The part of a chain up to its k-th job, or from its second on.
LEMMA CutShape ==
  ASSUME NEW n, NEW q, NEW h, NEW s, Shape(n, q, h, s),
         NEW k \in 1..n, NEW ss, ss[q[k]] = NULL,
         \A a \in 1..n : a # k => ss[q[a]] = s[q[a]]
  PROVE  Shape(k, [a \in 1..k |-> q[a]], h, ss)
<1> DEFINE r == [a \in 1..k |-> q[a]]
<1>1. /\ n \in Nat /\ q \in [1..n -> Jobs]
      /\ \A a, b \in 1..n : q[a] = q[b] => a = b
      /\ h = IF n = 0 THEN NULL ELSE q[1]
      /\ \A a \in 1..n : s[q[a]] = IF a = n THEN NULL ELSE q[a + 1]
  BY DEF Shape
<1>2. /\ k \in Nat /\ k # 0 /\ n # 0 /\ 1 \in 1..k
      /\ \A a \in 1..k : a \in 1..n /\ r[a] = q[a]
      /\ \A a \in 1..k : a # k => a # n /\ a + 1 \in 1..k
  BY <1>1
<1>3. r \in [1..k -> Jobs]
  BY <1>1, <1>2
<1> HIDE DEF r
<1>4. \A a \in 1..k : ss[r[a]] = IF a = k THEN NULL ELSE r[a + 1]
  BY <1>1, <1>2
<1> QED
  BY <1>1, <1>2, <1>3, <1>4 DEF Shape, r

LEMMA TailShape ==
  ASSUME NEW n, NEW q, NEW h, NEW s, Shape(n, q, h, s), n # 0,
         NEW ss, \A a \in 1..n : a # 1 => ss[q[a]] = s[q[a]]
  PROVE  Shape(n - 1, [a \in 1..(n - 1) |-> q[a + 1]], s[h], ss)
<1> DEFINE r == [a \in 1..(n - 1) |-> q[a + 1]]
<1>1. /\ n \in Nat /\ q \in [1..n -> Jobs]
      /\ \A a, b \in 1..n : q[a] = q[b] => a = b
      /\ h = q[1]
      /\ \A a \in 1..n : s[q[a]] = IF a = n THEN NULL ELSE q[a + 1]
  BY DEF Shape
<1>2. /\ n - 1 \in Nat /\ 1 \in 1..n
      /\ \A a \in 1..(n - 1) : a + 1 \in 1..n /\ a + 1 # 1 /\ r[a] = q[a + 1]
      /\ \A a \in 1..(n - 1) : a = n - 1 <=> a + 1 = n
      /\ \A a \in 1..(n - 1) : a # n - 1 => a + 1 \in 1..(n - 1)
      /\ n - 1 # 0 => 1 \in 1..(n - 1) /\ n # 1
  BY <1>1
<1>3. r \in [1..(n - 1) -> Jobs]
  BY <1>1, <1>2
<1> HIDE DEF r
<1>4. \A a \in 1..(n - 1) : ss[r[a]] = IF a = n - 1 THEN NULL ELSE r[a + 1]
  BY <1>1, <1>2
<1>5. \A a, b \in 1..(n - 1) : r[a] = r[b] => a = b
  <2> SUFFICES ASSUME NEW a \in 1..(n - 1), NEW b \in 1..(n - 1), r[a] = r[b]
               PROVE  a = b
    OBVIOUS
  <2>1. a + 1 = b + 1
    BY <1>1, <1>2
  <2> QED
    BY <2>1
<1>6. s[h] = IF n - 1 = 0 THEN NULL ELSE r[1]
  BY <1>1, <1>2
<1> QED
  BY <1>2, <1>3, <1>4, <1>5, <1>6 DEF Shape, r

\* At the head Unlink takes the job off the queue; behind it, it cuts the queue
\* off there: no job in what is left stands before a more important one.
LEMMA PutKeepsOrder ==
  ASSUME Typed, OrderInv, Place
  PROVE  OrderInv'
<1>0. /\ pc = "visit" /\ pc' = "visit" /\ rest # NULL /\ prev_rest' = prev_rest
      /\ UNCHANGED <<moments, job, jseq>>
      /\ Unlink
      /\ sched_info \in [Jobs -> Cell]
  BY PlacedJob DEF Place, Visit, ScheduleFrame, datasetVars, Typed, Unlink
<1>1. AheadIsFree
  BY DEF OrderInv
<1>2. PICK n : \E q : ChainIs(n, q)
  BY DEF OrderInv
<1>3. PICK q : ChainIs(n, q)
  BY <1>2
<1>4. /\ n \in Nat /\ NULL \notin Jobs
      /\ \A a \in 1..n : q[a] \in Jobs
      /\ \A a, b \in 1..n : q[a] = q[b] => a = b
      /\ by_priority = IF n = 0 THEN NULL ELSE q[1]
      /\ by_priority # NULL <=> n # 0
      /\ \A a \in 1..n : ~Ahead(q[a])
  BY <1>3, ChainFacts
<1>5. PICK k \in 1..n : rest = q[k]
  BY <1>0, <1>3 DEF ChainIs, OnWalk
<1>6. (prev_rest = NULL /\ rest = by_priority) \/ prev_rest = rest
  BY <1>0, <1>3 DEF ChainIs, OnWalk
<1>7. q[k] \in Jobs /\ n # 0 /\ 1 \in 1..n /\ by_priority = q[1]
  BY <1>4, <1>5
<1>8. Shape(n, q, by_priority, sched_info) /\ Ordered(n, q)
  BY <1>3 DEF ChainIs
<1>9. sched_info' = [sched_info EXCEPT ![q[k]] = NULL]
  <2>1. CASE prev_rest = NULL
    BY <1>0, <1>5, <2>1 DEF Unlink
  <2>2. CASE prev_rest # NULL
    <3>1. sched_info' = [[sched_info EXCEPT ![q[k]] = sched_info[q[k]]] EXCEPT ![q[k]] = NULL]
      BY <1>0, <1>5, <1>6, <2>2 DEF Unlink
    <3>2. [sched_info EXCEPT ![q[k]] = sched_info[q[k]]] = sched_info
      BY <1>0, <1>7
    <3> QED
      BY <3>1, <3>2
  <2> QED
    BY <2>1, <2>2
<1>10. /\ sched_info'[q[k]] = NULL
       /\ \A x \in Jobs : x # q[k] => sched_info'[x] = sched_info[x]
       /\ \A a \in 1..n : a # k => sched_info'[q[a]] = sched_info[q[a]]
  BY <1>0, <1>4, <1>7, <1>9
<1>11. \A x : Ahead(x)' => Ahead(x)
  BY <1>0 DEF Ahead
<1>12. AheadIsFree'
  BY <1>1, <1>10, <1>11 DEF AheadIsFree
<1>13. CASE prev_rest = NULL
  <2> DEFINE r == [a \in 1..(n - 1) |-> q[a + 1]]
  <2>1. k = 1
    BY <1>4, <1>5, <1>6, <1>7, <1>13
  <2>2. by_priority' = sched_info[by_priority] /\ rest' = by_priority'
    BY <1>0, <1>6, <1>13 DEF Unlink
  <2>3. Shape(n - 1, r, by_priority', sched_info')
    BY <1>7, <1>8, <1>10, <2>1, <2>2, TailShape
  <2>4. \A a \in 1..(n - 1) : a \in 1..n /\ a + 1 \in 1..n /\ r[a] = q[a + 1]
    BY <1>4
  <2>5. \A a \in 1..(n - 1) : a < n - 1 => a + 1 < n /\ a + 1 \in 1..(n - 1)
    BY <1>4
  <2> HIDE DEF r
  <2>6. Ordered(n - 1, r)'
    <3>1. Ordered(n - 1, r)
      BY <1>8, <2>4, <2>5 DEF Ordered
    <3> QED
      BY <1>0, <3>1 DEF Ordered, Priority
  <2>7. ASSUME NEW a \in 1..(n - 1), NEW x, x = r[a], Ahead(x)' PROVE FALSE
    <3>1. Ahead(x) /\ x = q[a + 1] /\ a + 1 \in 1..n
      BY <1>11, <2>4, <2>7
    <3> QED
      BY <1>4, <3>1
  <2>8. \A a \in 1..(n - 1) : ~Ahead(r[a])'
    BY <2>7 DEF Ahead
  <2>9. OnWalk(n - 1, r)'
    <3>1. by_priority' # NULL => by_priority' = r[1] /\ 1 \in 1..(n - 1)
      BY <1>4, <2>3 DEF Shape
    <3> QED
      BY <1>0, <1>13, <2>2, <3>1 DEF OnWalk
  <2>10. AtPlace(n - 1, r)'
    BY <1>0 DEF AtPlace
  <2>11. Shape(n - 1, r, by_priority, sched_info)'
    BY <2>3 DEF Shape
  <2>12. ChainIs(n - 1, r)'
    BY <2>6, <2>8, <2>9, <2>10, <2>11 DEF ChainIs
  <2> QED
    BY <1>12, <2>12 DEF OrderInv
<1>14. CASE prev_rest # NULL
  <2> DEFINE r == [a \in 1..k |-> q[a]]
  <2>1. by_priority' = by_priority /\ rest' = NULL
    BY <1>0, <1>5, <1>6, <1>10, <1>14 DEF Unlink
  <2>2. Shape(k, r, by_priority', sched_info')
    BY <1>8, <1>10, <2>1, CutShape
  <2>3. \A a \in 1..k : a \in 1..n /\ r[a] = q[a]
    BY <1>4
  <2>4. \A a \in 1..k : a < k => a < n /\ a + 1 \in 1..k
    BY <1>4
  <2> HIDE DEF r
  <2>5. Ordered(k, r)'
    <3>1. Ordered(k, r)
      BY <1>8, <2>3, <2>4 DEF Ordered
    <3> QED
      BY <1>0, <3>1 DEF Ordered, Priority
  <2>6. ASSUME NEW a \in 1..k, NEW x, x = r[a], Ahead(x)' PROVE FALSE
    <3>1. Ahead(x) /\ x = q[a] /\ a \in 1..n
      BY <1>11, <2>3, <2>6
    <3> QED
      BY <1>4, <3>1
  <2>7. \A a \in 1..k : ~Ahead(r[a])'
    BY <2>6 DEF Ahead
  <2>8. OnWalk(k, r)' /\ AtPlace(k, r)'
    BY <1>0, <2>1 DEF OnWalk, AtPlace
  <2>9. Shape(k, r, by_priority, sched_info)'
    BY <2>2 DEF Shape
  <2>10. ChainIs(k, r)'
    BY <2>5, <2>7, <2>8, <2>9 DEF ChainIs
  <2> QED
    BY <1>12, <2>10 DEF OrderInv
<1> QED
  BY <1>13, <1>14

\* A chain has no more links than there are jobs.
LEMMA ChainFits ==
  ASSUME NEW n, NEW q, ChainIs(n, q)
  PROVE  n <= JobCount
<1> SUFFICES ASSUME n > JobCount PROVE FALSE
  BY NodeAssumption DEF ChainIs, Shape
<1>1. /\ n \in Nat /\ JobCount \in Nat /\ q \in [1..n -> Jobs]
      /\ \A a, b \in 1..n : q[a] = q[b] => a = b
  BY NodeAssumption DEF ChainIs, Shape
<1>2. /\ IsFiniteSet(1..n) /\ Cardinality(1..n) = n
      /\ IsFiniteSet(Jobs) /\ Cardinality(Jobs) = JobCount
  <2>1. /\ 1 \in Int /\ n \in Int /\ JobCount \in Int
    BY <1>1
  <2>2. /\ IsFiniteSet(1..n)
        /\ Cardinality(1..n) = IF 1 > n THEN 0 ELSE n - 1 + 1
    BY <2>1, FS_Interval
  <2>3. /\ IsFiniteSet(1..JobCount)
        /\ Cardinality(1..JobCount) = IF 1 > JobCount THEN 0 ELSE JobCount - 1 + 1
    BY <2>1, FS_Interval
  <2> QED
    BY <1>1, <2>2, <2>3 DEF Jobs
<1>3. Cardinality(Jobs) < Cardinality(1..n)
  BY <1>1, <1>2
<1>4. \E a, b \in 1..n : a # b /\ q[a] = q[b]
  <2> DEFINE S == 1..n
             T == Jobs
  <2>1. IsFiniteSet(S) /\ IsFiniteSet(T) /\ Cardinality(T) < Cardinality(S) /\ q \in [S -> T]
    BY <1>1, <1>2, <1>3
  <2> HIDE DEF S, T
  <2>2. \E a, b \in S : a # b /\ q[a] = q[b]
    BY <2>1, FS_PigeonHole
  <2> QED
    BY <2>2 DEF S
<1> QED
  BY <1>1, <1>4

\* Link walks over the chain: its recursion has a solution, the chain's jobs
\* one after the other and then NULL, and no other.
LEMMA LinkWalks ==
  ASSUME NEW n, NEW q, ChainIs(n, q)
  PROVE  \A k \in 0..JobCount : Link[k] = IF k < n THEN q[k + 1] ELSE NULL
<1> DEFINE w == [k \in 0..JobCount |-> IF k < n THEN q[k + 1] ELSE NULL]
           Body(f) == [k \in 0..JobCount |->
                         IF k = 0 THEN by_priority
                         ELSE IF f[k - 1] = NULL THEN NULL ELSE sched_info[f[k - 1]]]
<1>1. /\ n \in Nat /\ NULL \notin Jobs
      /\ \A a \in 1..n : q[a] \in Jobs
      /\ by_priority = IF n = 0 THEN NULL ELSE q[1]
      /\ \A a \in 1..n : sched_info[q[a]] = IF a = n THEN NULL ELSE q[a + 1]
      /\ JobCount \in Nat
  BY ChainFacts, NodeAssumption
<1>2. ASSUME NEW k \in 0..JobCount
      PROVE  w[k] = IF k = 0 THEN by_priority
                    ELSE IF w[k - 1] = NULL THEN NULL ELSE sched_info[w[k - 1]]
  <2>1. CASE k = 0
    BY <1>1, <2>1
  <2>2. CASE k # 0
    <3>1. /\ k - 1 \in 0..JobCount /\ (k - 1) + 1 = k
          /\ w[k - 1] = IF k - 1 < n THEN q[k] ELSE NULL
          /\ w[k] = IF k < n THEN q[k + 1] ELSE NULL
      BY <1>1, <2>2
    <3>2. k - 1 < n => k \in 1..n
      BY <1>1, <2>2
    <3> HIDE DEF w
    <3>3. CASE k - 1 < n
      <4>1. w[k - 1] = q[k] /\ q[k] \in Jobs
        BY <1>1, <3>1, <3>2, <3>3
      <4>2. sched_info[q[k]] = IF k = n THEN NULL ELSE q[k + 1]
        BY <1>1, <3>2, <3>3
      <4>3. k = n <=> ~(k < n)
        BY <1>1, <3>3
      <4> QED
        BY <1>1, <2>2, <3>1, <4>1, <4>2, <4>3
    <3>4. CASE ~(k - 1 < n)
      <4>1. ~(k < n)
        BY <1>1, <3>4
      <4> QED
        BY <2>2, <3>1, <3>4, <4>1
    <3> QED
      BY <3>3, <3>4
  <2> QED
    BY <2>1, <2>2
<1>3. w = Body(w)
  BY <1>2
<1>4. Link = Body(Link)
  <2> HIDE DEF w
  <2> QED
    BY <1>3 DEF Link
<1> DEFINE wrong == {k \in 0..JobCount : Link[k] # w[k]}
<1>5. wrong = {}
  <2> SUFFICES ASSUME wrong # {} PROVE FALSE
    OBVIOUS
  <2>1. PICK k \in wrong : \A m \in wrong : k <= m
    <3>1. wrong \in SUBSET Nat
      OBVIOUS
    <3> HIDE DEF wrong
    <3> QED
      BY <3>1, LeastNatural
  <2>2. k \in 0..JobCount /\ Link[k] # w[k]
    BY <2>1
  <2>3. Link[k] = IF k = 0 THEN by_priority
                  ELSE IF Link[k - 1] = NULL THEN NULL ELSE sched_info[Link[k - 1]]
    BY <1>4, <2>2
  <2>4. CASE k = 0
    BY <1>2, <2>2, <2>3, <2>4
  <2>5. CASE k # 0
    <3>1. k - 1 \in 0..JobCount /\ ~(k <= k - 1)
      BY ONLY <1>1, <2>2, <2>5
    <3>2. Link[k - 1] = w[k - 1]
      BY <2>1, <3>1
    <3> HIDE DEF w
    <3> QED
      BY <1>2, <2>2, <2>3, <2>5, <3>2
  <2> QED
    BY <2>4, <2>5
<1> QED
  BY <1>5

LEMMA OrderIsOrder ==
  ASSUME OrderInv
  PROVE  QueueInOrder
<1>1. PICK n : \E q : ChainIs(n, q)
  BY DEF OrderInv
<1>2. PICK q : ChainIs(n, q)
  BY <1>1
<1>3. /\ n \in Nat /\ NULL \notin Jobs /\ n <= JobCount /\ JobCount \in 0..JobCount
      /\ \A a \in 1..n : q[a] \in Jobs
      /\ \A a \in 1..n : sched_info[q[a]] = IF a = n THEN NULL ELSE q[a + 1]
  BY <1>2, ChainFacts, ChainFits, NodeAssumption
<1>4. \A k \in 0..JobCount : Link[k] = IF k < n THEN q[k + 1] ELSE NULL
  BY <1>2, LinkWalks
<1>5. Link[JobCount] = NULL
  BY <1>3, <1>4
<1>6. ASSUME NEW j \in Queued, sched_info[j] # NULL
      PROVE  Priority(j) <= Priority(sched_info[j])
  <2>1. PICK k \in 0..JobCount : j = Link[k] /\ j # NULL
    BY <1>6 DEF Queued
  <2>2. k < n /\ j = q[k + 1] /\ k + 1 \in 1..n
    BY <1>3, <1>4, <2>1
  <2>3. k + 1 < n /\ sched_info[j] = q[(k + 1) + 1]
    BY <1>3, <1>6, <2>2
  <2>4. Ordered(n, q)
    BY <1>2 DEF ChainIs
  <2>5. Priority(q[k + 1]) <= Priority(q[(k + 1) + 1])
    BY <2>2, <2>3, <2>4 DEF Ordered
  <2> QED
    BY <2>2, <2>3, <2>5
<1> QED
  BY <1>5, <1>6 DEF QueueInOrder

\* With one job in every moment the chain that distribute_priority leaves comes
\* to an end, and no job in it stands before a more important one: however jobs
\* expire, are put, or are cut off by a put behind the head
\* (schedule_priority.c:84-93).
\* With two jobs in a moment it need not: see the run priority_moment.
THEOREM PriorityKeepsItsOrder ==
  ASSUME LoneDatasets PROVE Spec => []QueueInOrder
<1>1. LoadedMoments => LoneMoments
  BY DatasetsAssumption DEF LoadedMoments, LoneDatasets, LoneMoments
<1>2. Init /\ Typed /\ LoneMoments => OrderInv
  <2> SUFFICES ASSUME Init, Typed, LoneMoments PROVE OrderInv
    OBVIOUS
  <2>1. /\ by_priority = NULL /\ pc = "loop"
        /\ sched_info = [j \in Jobs |-> MomentChain(j)]
    BY DEF Init, ClusterInit
  <2>2. ASSUME NEW j \in Jobs PROVE MomentChain(j) = NULL
    <3> DEFINE nexts == {q \in Jobs : \E p \in DOMAIN moments :
                           \E k \in 1..(Len(moments[p].jobs) - 1) :
                             moments[p].jobs[k] = j /\ moments[p].jobs[k + 1] = q}
    <3>0. \A p \in DOMAIN moments : 1..(Len(moments[p].jobs) - 1) = {}
      <4>1. \A p \in DOMAIN moments : Len(moments[p].jobs) = 1
        BY DEF LoneMoments
      <4>2. 1..(1 - 1) = {}
        OBVIOUS
      <4> QED
        BY <4>1, <4>2
    <3>1. nexts = {}
      BY <3>0
    <3>2. MomentChain(j) = IF nexts = {} THEN NULL ELSE CHOOSE q \in nexts : TRUE
      BY DEF MomentChain
    <3> HIDE DEF nexts
    <3> QED
      BY <3>1, <3>2
  <2>3. AheadIsFree
    BY <2>1, <2>2 DEF AheadIsFree
  <2> DEFINE none == [a \in 1..0 |-> NULL]
  <2>4. 1..0 = {}
    OBVIOUS
  <2>5. Shape(0, none, by_priority, sched_info)
    BY <2>1, <2>4 DEF Shape
  <2>6. ChainIs(0, none)
    BY <2>1, <2>4, <2>5 DEF ChainIs, Ordered, AtPlace, OnWalk
  <2> QED
    BY <2>3, <2>6 DEF OrderInv
<1>3. Typed /\ LoneMoments /\ OrderInv /\ [Next]_vars => OrderInv'
  <2> SUFFICES ASSUME Typed, LoneMoments, OrderInv, [Next]_vars PROVE OrderInv'
    OBVIOUS
  <2>1. CASE \/ Distributed
             \/ NoMomentDue /\ UNCHANGED priorityVars
             \/ SimulatorStep /\ UNCHANGED priorityVars
             \/ StartWalk \/ PassOver \/ QueueWalked
    <3>1. UNCHANGED <<job, moments>>
      BY <2>1, SimulatorMovesNone, PriorityActs DEF Distribute, Schedule, Typed, datasetVars
    <3>2. UNCHANGED <<sched_info, by_priority>>
      BY <2>1 DEF Distributed, StartWalk, PassOver, QueueWalked, Visit, priorityVars, chainVars
    <3> QED
      BY <2>1, <3>1, <3>2, StandingKeepsOrder
  <2>2. CASE StartDistribute
    BY <2>2, StartKeepsOrder
  <2>3. CASE PlaceInFront \/ PlaceBehindOnly \/ StartPlacing
    BY <2>3, EnqueueKeepsOrder
  <2>4. CASE PlaceBefore \/ PlaceLast \/ PlaceFurther
    BY <2>4, PlaceKeepsOrder
  <2>5. CASE Place
    BY <2>5, PutKeepsOrder
  <2>6. CASE UNCHANGED vars
    <3>1. UNCHANGED <<job, moments, sched_info, by_priority, pc, i, jseq, plist, rest, prev_rest>>
      BY <2>6 DEF vars, clusterVars, datasetVars, priorityVars, chainVars
    <3>2. PICK n : \E q : ChainIs(n, q)
      BY DEF OrderInv
    <3>3. PICK q : ChainIs(n, q)
      BY <3>2
    <3>4. AtPlace(n, q)' /\ OnWalk(n, q)'
      BY <3>1, <3>3 DEF ChainIs, AtPlace, OnWalk, Priority, ToPlace
    <3>5. \A j \in Jobs : Ahead(j)' => Ahead(j)
      BY <3>1 DEF Ahead
    <3> QED
      BY <3>1, <3>3, <3>4, <3>5, ChainFrame DEF OrderInv
  <2> QED
    BY <2>1, <2>2, <2>3, <2>4, <2>5, <2>6 DEF Next, Distribute, Schedule
<1>4. OrderInv => QueueInOrder
  BY OrderIsOrder
<1> QED
  BY <1>1, <1>2, <1>3, <1>4, PriorityTypeCorrect, PTL DEF Spec

-----------------------------------------------------------------------------
\* With datasets whose moments ascend every job is handed over in the tick of
\* its moment, although the test of simulate.c:40 is met in that tick or never.
THEOREM PriorityReleasesOnTime ==
  ASSUME AscendingDatasets PROVE Spec => []ReleasedOnTime
<1>1. LoadedMoments => Ascending
  BY DEF LoadedMoments, AscendingDatasets, Ascending
<1>2. Init /\ Typed => DueWereTaken
  BY MomentTimes DEF Init, ClusterInit, DueWereTaken, Handing, Typed
<1>3. Typed /\ Ascending /\ DueWereTaken /\ [Next]_vars => DueWereTaken'
  <2> SUFFICES ASSUME Typed, Ascending, DueWereTaken, [Next]_vars
               PROVE  DueWereTaken'
    OBVIOUS
  <2>1. CASE SimulatorStep
    BY <2>1, SimulatorKeepsDue DEF Typed
  <2>2. CASE Distributed \/ NoMomentDue
    <3>1. /\ pc' = "schedule" /\ UNCHANGED <<moments, t>>
          /\ Distributed => pc = "enqueue" /\ jseq' = jseq + 1
          /\ NoMomentDue => ~MomentDue /\ jseq' = jseq
      BY <2>2 DEF Distributed, NoMomentDue, DistributeFrame, datasetVars
    <3>2. Distributed => MomentDue
      BY <3>1 DEF DueWereTaken, Handing
    <3> QED
      BY <2>2, <3>1, <3>2, TakenInTime DEF Typed
  <2>3. CASE Distribute /\ ~Distributed /\ ~NoMomentDue
    <3>1. UNCHANGED <<moments, t>>
      BY <2>3, PriorityActs DEF datasetVars
    <3>2. /\ jseq' = jseq /\ pc' \in {"enqueue", "place"}
          /\ \/ pc = "distribute" /\ MomentDue
             \/ pc \in {"enqueue", "place"}
      BY <2>3 DEF Distribute, StartDistribute, PlaceInFront, PlaceBehindOnly, StartPlacing,
         PlaceBefore, PlaceLast, PlaceFurther, Enqueuing, Placing
    <3>3. pc \in {"distribute"} \cup Handing /\ MomentDue /\ pc' \in Handing
      BY <3>2 DEF DueWereTaken, Handing
    <3> QED
      BY <3>1, <3>2, <3>3, SchedulerKeepsDue DEF Typed
  <2>4. CASE Schedule
    <3>1. UNCHANGED <<moments, t>>
      BY <2>4, PriorityActs DEF datasetVars
    <3>2. /\ jseq' = jseq
          /\ pc \in {"schedule", "visit"} /\ pc' \in {"visit", "moment"}
      BY <2>4 DEF Schedule, StartWalk, Place, PassOver, QueueWalked, Visit, ScheduleFrame,
                  StepStarts
    <3>3. pc \notin {"loop", "distribute", "end"} \cup Handing /\ pc' \notin Handing
      BY <3>2 DEF Handing
    <3> QED
      BY <3>1, <3>2, <3>3, SchedulerKeepsDue DEF Typed
  <2>5. CASE UNCHANGED vars
    BY <2>5 DEF vars, clusterVars, datasetVars, DueWereTaken, MomentDue
  <2> QED
    BY <2>1, <2>2, <2>3, <2>4, <2>5 DEF Next, Distribute
<1>4. Typed /\ DueWereTaken => ReleasedOnTime
  BY DueIsReleased DEF Typed
<1> QED
  BY <1>1, <1>2, <1>3, <1>4, PriorityTypeCorrect, PTL DEF Spec

\* The scheduler that schedule_algorithms.h:11 calls preemptive takes no job from
\* its node and moves none, also where a circle of the queue has it put a job
\* once more.
THEOREM PriorityNeverPreempts == Spec => [][LeavesByEnding]_vars
<1>1. Typed /\ LoadedMoments /\ [Next]_vars => [LeavesByEnding]_vars
  <2> SUFFICES ASSUME Typed, LoadedMoments, Next PROVE LeavesByEnding
    OBVIOUS
  <2>1. CASE SimulatorStep
    BY <2>1, SimulatorMovesNone DEF Typed, LeavesByEnding
  <2>2. CASE UNCHANGED nodeVars
    BY <2>2 DEF nodeVars, LeavesByEnding
  <2>3. CASE Place
    BY <2>3, PlacedJob, PutTakesNone, PriorityActs DEF Typed, ClusterTypeOK
  <2> QED
    BY <2>1, <2>2, <2>3, PriorityActs DEF Next
<1> QED
  BY <1>1, PriorityTypeCorrect, PTL DEF Spec

\* At the end of every tick exactly the nodes without memory in use count as
\* stalled (simulation_step.c, update_node.c:37), under this scheduler, too.
THEOREM PriorityStallsIdleNodes == Spec => []StalledNodesAreIdle
<1>1. Init => StalledNodesAreIdle
  BY DEF Init, ClusterInit, StalledNodesAreIdle
<1>2. Typed /\ MemoryExact /\ StalledNodesAreIdle /\ [Next]_vars
        => StalledNodesAreIdle'
  <2> SUFFICES ASSUME Typed, MemoryExact, StalledNodesAreIdle, [Next]_vars
               PROVE  StalledNodesAreIdle'
    OBVIOUS
  <2>1. CASE SimulatorStep
    BY <2>1, SimulatorKeepsStall DEF Typed
  <2>2. CASE Distribute \/ Schedule
    BY <2>2, PriorityActs DEF StalledNodesAreIdle
  <2>3. CASE UNCHANGED vars
    BY <2>3 DEF vars, clusterVars, nodeVars, statVars, datasetVars,
                StalledNodesAreIdle, JobsOn
  <2> QED
    BY <2>1, <2>2, <2>3 DEF Next
<1> QED
  BY <1>1, <1>2, PriorityTypeCorrect, PriorityKeepsNodesExact, PTL DEF Spec
=============================================================================
