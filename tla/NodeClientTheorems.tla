------------------------ MODULE NodeClientTheorems ------------------------
(***************************************************************************)
(* What holds of a node's resources under every scheduler that checks      *)
(* before it puts: for any number of nodes, cores, threads and jobs, of    *)
(* any shapes.                                                             *)
(***************************************************************************)
EXTENDS NodeClient, NodeTheorems

\* Every field keeps its type: in particular free memory and the free threads
\* of a core, which are unsigned in the code, never wrap below zero.
THEOREM TypeCorrect == Spec => []TypeOK
<1>1. Init => TypeOK
  <2> SUFFICES ASSUME Init PROVE NodeTypeOK
    BY DEF TypeOK
  <2>1. job \in [Jobs -> JobType]
    BY JobTablesAssumption DEF Init
  <2>2. \A n \in Nodes : EmptyOccupation[n] \in OccupationType(n)
    BY NodeFields DEF EmptyOccupation, OccupationType
  <2> QED
    BY <2>1, <2>2 DEF Init, NodeInit, NodeTypeOK, EmptyOccupation
<1>2. TypeOK /\ [Next]_vars => TypeOK'
  <2> SUFFICES ASSUME NodeTypeOK, [Next]_vars PROVE NodeTypeOK'
    BY DEF TypeOK
  <2>1. ASSUME NEW j \in Jobs, NEW n \in Nodes, PutJob(j, n)
        PROVE  NodeTypeOK'
    BY <2>1, PutKeepsType DEF PutJob
  <2>2. ASSUME NEW j \in Jobs, RemoveJob(j)
        PROVE  NodeTypeOK'
    <3>1. time_before_start' \in [Jobs -> Nat]
      BY <2>2 DEF RemoveJob, NodeTypeOK
    <3> QED
      BY <2>2, <3>1, RemoveKeepsType DEF RemoveJob
  <2>3. ASSUME UNCHANGED vars
        PROVE  NodeTypeOK'
    BY <2>3 DEF vars, nodeVars, NodeTypeOK, OccupationType
  <2> QED
    BY <2>1, <2>2, <2>3 DEF Next
<1> QED
  BY <1>1, <1>2, PTL DEF Spec

\* No order of puts and removals creates or loses memory on any node.
THEOREM MemoryBalances == Spec => []MemoryExact
<1>1. Init => MemoryExact
  <2> SUFFICES ASSUME Init, NEW n \in Nodes
               PROVE  FreeMem(n) + SumOver([j \in Jobs |-> job[j].mem_size], JobsOn(n))
                        = NodeSpec[n].mem_size
    BY DEF MemoryExact
  <2>1. FreeMem(n) = NodeSpec[n].mem_size
    BY DEF Init, NodeInit, EmptyOccupation, FreeMem
  <2>2. JobsOn(n) = {}
    BY NullNotNode DEF Init, NodeInit, JobsOn
  <2>3. SumOver([j \in Jobs |-> job[j].mem_size], JobsOn(n)) = 0
    BY <2>2, SumEmpty
  <2> QED
    BY <2>1, <2>3, NodeFields
<1>2. MemoryExact /\ TypeOK /\ [Next]_vars => MemoryExact'
  <2> SUFFICES ASSUME MemoryExact, NodeTypeOK, [Next]_vars PROVE MemoryExact'
    BY DEF TypeOK
  <2>1. ASSUME NEW j \in Jobs, NEW n \in Nodes, PutJob(j, n)
        PROVE  MemoryExact'
    BY <2>1, PutKeepsMemory DEF PutJob
  <2>2. ASSUME NEW j \in Jobs, RemoveJob(j)
        PROVE  MemoryExact'
    BY <2>2, RemoveKeepsMemory DEF RemoveJob
  <2>3. ASSUME UNCHANGED vars
        PROVE  MemoryExact'
    BY <2>3 DEF vars, nodeVars, MemoryExact, FreeMem, JobsOn
  <2> QED
    BY <2>1, <2>2, <2>3 DEF Next
<1> QED
  BY <1>1, <1>2, TypeCorrect, PTL DEF Spec

\* The loops of cluster_put_job_to_node never leave cpu_threads, even when
\* earlier releases have given cores more or fewer threads than they had.
THEOREM PutStaysInBounds == Spec => []PutInBounds
<1>1. Init => PutInBounds
  BY DEF Init, NodeInit, PutInBounds
<1>2. PutInBounds /\ TypeOK /\ [Next]_vars => PutInBounds'
  <2> SUFFICES ASSUME PutInBounds, NodeTypeOK, [Next]_vars PROVE PutInBounds'
    BY DEF TypeOK
  <2>1. ASSUME NEW j \in Jobs, NEW n \in Nodes, PutJob(j, n)
        PROVE  PutInBounds'
    <3>1. ~PutOverruns(j, n)
      BY <2>1, CheckedPutInBounds DEF PutJob
    <3> QED
      BY <2>1, <3>1 DEF PutJob, PutJobToNode, PutInBounds
  <2>2. ASSUME NEW j \in Jobs, RemoveJob(j)
        PROVE  PutInBounds'
    BY <2>2 DEF RemoveJob, RemoveJobFromNode, FreeNodeResources, PutInBounds
  <2>3. ASSUME UNCHANGED vars
        PROVE  PutInBounds'
    BY <2>3 DEF vars, nodeVars, PutInBounds
  <2> QED
    BY <2>1, <2>2, <2>3 DEF Next
<1> QED
  BY <1>1, <1>2, TypeCorrect, PTL DEF Spec

-----------------------------------------------------------------------------
\* No node ever promises more threads than it has, although releases hand
\* threads to other cores than they came from and a core may end up with more
\* than its own: what one core gets too much, another or nobody has.
THEOREM ThreadsNeverOvercommitted == Spec => []NeverOvercommitted
<1>1. Init => NeverOvercommitted
  BY StartsUncommitted DEF Init
<1>2. NeverOvercommitted /\ TypeOK /\ [Next]_vars => NeverOvercommitted'
  <2> SUFFICES ASSUME NeverOvercommitted, NodeTypeOK, [Next]_vars
               PROVE  NeverOvercommitted'
    BY DEF TypeOK
  <2>1. ASSUME NEW j \in Jobs, NEW n \in Nodes, PutJob(j, n)
        PROVE  NeverOvercommitted'
    BY <2>1, PutOvercommitsNone DEF PutJob
  <2>2. ASSUME NEW j \in Jobs, RemoveJob(j)
        PROVE  NeverOvercommitted'
    <3>1. time_before_start' \in [Jobs -> Nat]
      BY <2>2 DEF RemoveJob, NodeTypeOK
    <3> QED
      BY <2>2, <3>1, RemoveOvercommitsNone DEF RemoveJob
  <2>3. ASSUME UNCHANGED vars
        PROVE  NeverOvercommitted'
    BY <2>3 DEF vars, nodeVars, NeverOvercommitted, CpuThreads, JobsOn, ThreadsOf,
                Unit, Want
  <2> QED
    BY <2>1, <2>2, <2>3 DEF Next
<1> QED
  BY <1>1, <1>2, TypeCorrect, PTL DEF Spec

-----------------------------------------------------------------------------
\* A node of one core promises exactly the threads it has ...
OneCoreExact ==
  \A n \in Nodes : OneCore(n) => Promised(n) = NodeSpec[n].thread_count

\* ... because a job never is on a node with fewer cores than it asks for, so
\* that the release of a job with cores finds the one it was given.
CoresSuffice ==
  \A j \in Jobs : assigned_node[j] # NULL
    => job[j].cpu_count <= NodeSpec[assigned_node[j]].cpu_count

\* The sum over a single core is what that core has.
LEMMA OneCoreSum ==
  ASSUME NEW n \in Nodes, OneCore(n), NEW f \in [Cores(n) -> Nat]
  PROVE  Cores(n) = {0} /\ f[0] \in Nat /\ SumOver(f, Cores(n)) = f[0]
<1>1. Cores(n) = {0}
  BY DEF Cores, OneCore
<1> QED
  BY <1>1, SumSingle

\* A job on a node of one core fits into what the core's jobs use, so its
\* release finds room there and needs no other core.
LEMMA OneCoreRelease ==
  ASSUME NodeTypeOK, OneCoreExact, NEW j \in Jobs, assigned_node[j] # NULL,
         OneCore(assigned_node[j])
  PROVE  /\ CpuThreads(assigned_node[j])[0] + ThreadsOf(j)
              <= NodeSpec[assigned_node[j]].thread_count
         /\ job[j].cpu_count = 0 => ~GoesPast(j, assigned_node[j], 0)
<1> DEFINE n == assigned_node[j]
           free == CpuThreads(n)
<1>1. n \in Nodes /\ free \in [Cores(n) -> Nat]
  BY OccupationFields DEF NodeTypeOK
<1>2. SumOver(free, Cores(n)) = free[0] /\ free[0] \in Nat /\ 0 \in Cores(n)
  BY <1>1, OneCoreSum
<1>3. j \in JobsOn(n)
  BY DEF JobsOn
<1>4. /\ SumOver(Held, JobsOn(n)) = SumOver(Held, JobsOn(n) \ {j}) + Held[j]
      /\ SumOver(Held, JobsOn(n) \ {j}) \in Nat
      /\ Held[j] = ThreadsOf(j) /\ Held[j] \in Nat
  <2>1. JobsOn(n) \ {j} \in SUBSET Jobs
    BY DEF JobsOn
  <2>2. /\ JobsOn(n) \in SUBSET Jobs /\ IsFiniteSet(JobsOn(n))
        /\ SumOver(Held, JobsOn(n) \ {j}) \in Nat
        /\ \A i \in Jobs : Held[i] = ThreadsOf(i) /\ Held[i] \in Nat
    BY <1>1, <2>1, HeldType
  <2> QED
    BY <1>3, <2>2, SumRemove
<1>5. Promised(n) = NodeSpec[n].thread_count
  BY <1>1 DEF OneCoreExact
<1>6. NodeSpec[n].thread_count \in Nat /\ NodeSpec[n].thread_count < SizeModulus
      /\ SizeModulus \in Nat \ {0}
  BY <1>1, NodeFields
<1>7. free[0] + ThreadsOf(j) <= NodeSpec[n].thread_count
  <2>1. free[0] + (SumOver(Held, JobsOn(n) \ {j}) + ThreadsOf(j))
          = NodeSpec[n].thread_count
    BY <1>2, <1>4, <1>5 DEF Promised
  <2> HIDE DEF n, free
  <2> QED
    BY <1>2, <1>4, <1>6, <2>1
<1>8. ASSUME job[j].cpu_count = 0 PROVE ~GoesPast(j, n, 0)
  <2>1. ThreadsOf(j) = job[j].thread_count /\ job[j].thread_count \in Nat
    BY <1>8, JobFields DEF ThreadsOf, Unit, Want
  <2>2. \A x, m \in Nat : x < m => x % m = x
    BY SMT
  <2>3. UsedOn(n, 0) = NodeSpec[n].thread_count - free[0]
    <3> DEFINE x == NodeSpec[n].thread_count - free[0]
    <3>1. x \in Nat /\ x < SizeModulus
      BY <1>2, <1>6, <1>7, <2>1
    <3>2. x % SizeModulus = x
      <4> HIDE DEF x
      <4> QED
        BY <1>6, <2>2, <3>1
    <3> QED
      BY <3>2 DEF UsedOn
  <2> QED
    BY <1>2, <1>6, <1>7, <2>1, <2>3 DEF GoesPast, LeftToFree
<1> QED
  BY <1>7, <1>8

\* So the removal of any job keeps a node of one core exact.
LEMMA RemoveKeepsOneCore ==
  ASSUME NodeTypeOK, OneCoreExact, CoresSuffice, job' = job, NEW j \in Jobs,
         RemoveJobFromNode(j), NEW m \in Nodes, OneCore(m)
  PROVE  Promised(m)' = Promised(m)
<1>1. Held' = Held
  BY DEF Held, ThreadsOf, Unit, Want
<1>2. CASE assigned_node[j] = NULL
  BY <1>1, <1>2 DEF RemoveJobFromNode, Promised, CpuThreads, JobsOn
<1>3. CASE assigned_node[j] # NULL
  <2> DEFINE n == assigned_node[j]
             freed == IF job[j].cpu_count # 0 THEN FreedByCores(j, n)
                                              ELSE FreedByThreads(j, n)
  <2>1. /\ n \in Nodes
        /\ assigned_node' = [assigned_node EXCEPT ![j] = NULL]
        /\ occupation' = [occupation EXCEPT
             ![n] = [mem |-> FreeMem(n) + job[j].mem_size, cpu_threads |-> freed]]
        /\ assigned_node \in [Jobs -> Nodes \cup {NULL}]
        /\ DOMAIN occupation = Nodes
    BY <1>3 DEF RemoveJobFromNode, FreeNodeResources, NodeTypeOK
  <2>2. CASE m # n
    <3>1. CpuThreads(m)' = CpuThreads(m)
      BY <2>1, <2>2 DEF CpuThreads
    <3>2. JobsOn(m)' = JobsOn(m)
      BY <1>3, <2>1, <2>2, NullNotNode DEF JobsOn
    <3> QED
      BY <1>1, <3>1, <3>2 DEF Promised
  <2>3. CASE m = n
    <3>1. CpuThreads(m)' = freed
      BY <2>1, <2>3 DEF CpuThreads
    <3>2. JobsOn(m)' = JobsOn(m) \ {j} /\ j \in JobsOn(m)
      BY <1>3, <2>1, <2>3, NullNotNode DEF JobsOn
    <3>3. /\ CpuThreads(m) \in [Cores(m) -> Nat]
          /\ freed \in [Cores(m) -> Nat]
      BY <2>1, <2>3, OccupationFields, FreedType
    <3>4. /\ SumOver(CpuThreads(m), Cores(m)) = CpuThreads(m)[0]
          /\ SumOver(freed, Cores(m)) = freed[0]
          /\ CpuThreads(m)[0] \in Nat /\ freed[0] \in Nat /\ 0 \in Cores(m)
      BY <3>3, OneCoreSum
    <3>5. /\ CpuThreads(m)[0] + ThreadsOf(j) <= NodeSpec[m].thread_count
          /\ job[j].cpu_count = 0 => ~GoesPast(j, m, 0)
      BY <1>3, <2>3, OneCoreRelease
    <3>6. freed[0] = CpuThreads(m)[0] + ThreadsOf(j)
      <4>1. 0..(0 - 1) = {}
        OBVIOUS
      <4>2. CASE job[j].cpu_count # 0
        <5>1. job[j].cpu_count = 1
          BY <1>3, <2>3, <4>2, JobFields DEF CoresSuffice, OneCore
        <5>2. ThreadsOf(j) = job[j].thread_count
          BY <5>1, JobFields DEF ThreadsOf, Unit, Want
        <5>3. Cardinality({d \in 0..(0 - 1) : HasRoom(j, m, d)}) = 0
          BY <4>1, FS_EmptySet
        <5>4. HasRoom(j, m, 0)
          BY <3>5, <5>2 DEF HasRoom
        <5>5. FreedByCores(j, m)[0] = CpuThreads(m)[0] + job[j].thread_count
          BY <3>4, <5>1, <5>3, <5>4 DEF FreedByCores
        <5> QED
          BY <2>3, <4>2, <5>2, <5>5
      <4>3. CASE job[j].cpu_count = 0
        <5>1. ThreadsOf(j) = job[j].thread_count
          BY <4>3, JobFields DEF ThreadsOf, Unit, Want
        <5>2. Reaches(j, m, 0)
          BY <4>1 DEF Reaches
        <5>3. FreedByThreads(j, m)[0] = CpuThreads(m)[0] + job[j].thread_count
          BY <3>4, <3>5, <4>3, <5>2 DEF FreedByThreads, LeftToFree
        <5> QED
          BY <2>3, <4>3, <5>1, <5>3
      <4> QED
        BY <4>2, <4>3
    <3>7. SumOver(Held, JobsOn(m)) = SumOver(Held, JobsOn(m) \ {j}) + Held[j]
      <4>1. \A i \in JobsOn(m) : Held[i] \in Nat
        BY HeldType
      <4> QED
        BY <3>2, <4>1, HeldType, SumRemove
    <3>8. /\ Held[j] = ThreadsOf(j) /\ Held[j] \in Nat
          /\ SumOver(Held, JobsOn(m) \ {j}) \in Nat
      <4>1. JobsOn(m) \ {j} \in SUBSET Jobs
        BY DEF JobsOn
      <4> QED
        BY <4>1, HeldType
    <3>9. Promised(m)' = SumOver(freed, Cores(m)) + SumOver(Held, JobsOn(m) \ {j})
      BY <1>1, <3>1, <3>2 DEF Promised
    <3> HIDE DEF freed
    <3> QED
      BY <3>4, <3>6, <3>7, <3>8, <3>9 DEF Promised
  <2> QED
    BY <2>2, <2>3
<1> QED
  BY <1>2, <1>3

\* The check counts cores, so it accepts no job that asks for more of them
\* than the node has.
LEMMA CheckedCoresSuffice ==
  ASSUME NodeTypeOK, NEW j \in Jobs, NEW n \in Nodes, CheckNodeForJob(j, n)
  PROVE  job[j].cpu_count <= NodeSpec[n].cpu_count
<1>1. CASE job[j].cpu_count = 0
  BY <1>1, NodeFields
<1>2. CASE job[j].cpu_count # 0
  <2> DEFINE able == {c \in Cores(n) : job[j].thread_count <= CpuThreads(n)[c]}
  <2>1. job[j].cpu_count <= Cardinality(able)
    BY <1>2 DEF CheckNodeForJob, HasAvailableThreads
  <2>2. IsFiniteSet(Cores(n)) /\ Cardinality(Cores(n)) = NodeSpec[n].cpu_count
    <3>1. 0 \in Int /\ NodeSpec[n].cpu_count - 1 \in Int /\ NodeSpec[n].cpu_count \in Nat
      BY NodeFields
    <3>2. Cardinality(0..(NodeSpec[n].cpu_count - 1))
            = IF 0 > NodeSpec[n].cpu_count - 1 THEN 0
              ELSE (NodeSpec[n].cpu_count - 1) - 0 + 1
      BY <3>1, FS_Interval
    <3> QED
      BY <3>1, <3>2, CoreSets DEF Cores
  <2>3. Cardinality(able) <= Cardinality(Cores(n)) /\ Cardinality(able) \in Nat
    <3>1. able \subseteq Cores(n)
      OBVIOUS
    <3> HIDE DEF able
    <3> QED
      BY <2>2, <3>1, FS_Subset, FS_CardinalityType
  <2> QED
    BY <2>1, <2>2, <2>3, JobFields, NodeFields
<1> QED
  BY <1>1, <1>2

\* On a node of one core free threads are exact whatever happened, and the
\* loop that gives single threads back never leaves the array.  The invariant
\* adds that no job is on a node with too few cores for it.
THEOREM OneCoreStaysExact == Spec => []ExactOnOneCore
<1>1. Init => OneCoreExact /\ CoresSuffice
  <2> SUFFICES ASSUME Init PROVE OneCoreExact /\ CoresSuffice
    OBVIOUS
  <2>1. CoresSuffice
    BY DEF Init, NodeInit, CoresSuffice
  <2>2. ASSUME NEW n \in Nodes, OneCore(n)
        PROVE  Promised(n) = NodeSpec[n].thread_count
    <3>1. /\ SumOver(CpuThreads(n), Cores(n)) = NodeSpec[n].cpu_count * NodeSpec[n].thread_count
          /\ SumOver(Held, JobsOn(n)) = 0
      BY NothingPromised DEF Init
    <3>2. NodeSpec[n].cpu_count * NodeSpec[n].thread_count = NodeSpec[n].thread_count
      BY <2>2, NodeFields DEF OneCore
    <3> QED
      BY <3>1, <3>2, NodeFields DEF Promised
  <2> QED
    BY <2>1, <2>2 DEF OneCoreExact
<1>2. TypeOK /\ OneCoreExact /\ CoresSuffice /\ [Next]_vars
        => OneCoreExact' /\ CoresSuffice'
  <2> SUFFICES ASSUME NodeTypeOK, OneCoreExact, CoresSuffice, [Next]_vars
               PROVE  OneCoreExact' /\ CoresSuffice'
    BY DEF TypeOK
  <2>1. ASSUME NEW j \in Jobs, NEW n \in Nodes, PutJob(j, n)
        PROVE  OneCoreExact' /\ CoresSuffice'
    <3>1. job' = job /\ CheckNodeForJob(j, n) /\ PutJobToNode(j, n)
      BY <2>1 DEF PutJob
    <3>2. OneCoreExact'
      BY <3>1, PutMovesThreads DEF OneCoreExact, OneCore
    <3>3. job[j].cpu_count <= NodeSpec[n].cpu_count
      BY <3>1, CheckedCoresSuffice
    <3>4. assigned_node' = [assigned_node EXCEPT ![j] = n]
      BY <2>1 DEF PutJob, PutJobToNode
    <3> QED
      BY <3>1, <3>2, <3>3, <3>4 DEF CoresSuffice, NodeTypeOK
  <2>2. ASSUME NEW j \in Jobs, RemoveJob(j)
        PROVE  OneCoreExact' /\ CoresSuffice'
    <3>1. job' = job /\ RemoveJobFromNode(j)
      BY <2>2 DEF RemoveJob
    <3>2. OneCoreExact'
      BY <3>1, RemoveKeepsOneCore DEF OneCoreExact, OneCore
    <3>3. assigned_node' = [assigned_node EXCEPT ![j] = NULL]
      BY <2>2 DEF RemoveJob, RemoveJobFromNode
    <3> QED
      BY <3>1, <3>2, <3>3 DEF CoresSuffice, NodeTypeOK
  <2>3. ASSUME UNCHANGED vars
        PROVE  OneCoreExact' /\ CoresSuffice'
    BY <2>3 DEF vars, nodeVars, OneCoreExact, CoresSuffice, Promised, Held,
                CpuThreads, JobsOn, ThreadsOf, Unit, Want
  <2> QED
    BY <2>1, <2>2, <2>3 DEF Next
<1>3. TypeOK /\ OneCoreExact => ExactOnOneCore
  <2> SUFFICES ASSUME NodeTypeOK, OneCoreExact PROVE ExactOnOneCore
    BY DEF TypeOK
  <2>1. ASSUME NEW n \in Nodes, OneCore(n)
        PROVE  CpuThreads(n)[0] + SumOver(Held, JobsOn(n)) = NodeSpec[n].thread_count
    BY <2>1, OneCoreSum, OccupationFields DEF OneCoreExact, Promised
  <2>2. ASSUME NEW j \in Jobs, assigned_node[j] # NULL, OneCore(assigned_node[j])
        PROVE  ~ReleaseOverruns(j, assigned_node[j])
    <3> DEFINE n == assigned_node[j]
    <3>1. n \in Nodes /\ NodeSpec[n].cpu_count = 1
      BY <2>2 DEF OneCore, NodeTypeOK
    <3>2. 0..(1 - 1) = {0}
      OBVIOUS
    <3>3. job[j].cpu_count = 0 => ~GoesPast(j, n, 0)
      BY <2>2, OneCoreRelease
    <3> QED
      BY <3>1, <3>2, <3>3 DEF ReleaseOverruns, Reaches
  <2> QED
    BY <2>1, <2>2 DEF ExactOnOneCore, Held
<1> QED
  BY <1>1, <1>2, <1>3, TypeCorrect, PTL DEF Spec
=============================================================================
