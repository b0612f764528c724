---------------------------- MODULE NodeTheorems ----------------------------
(***************************************************************************)
(* What cluster_put_job_to_node and cluster_remove_job_from_node do to a   *)
(* node's accounts, for all nodes and jobs.  Every lemma is about one call *)
(* in any state of the right types, so that each scheduler can cite it.    *)
(***************************************************************************)
EXTENDS Node, DataTheorems

-----------------------------------------------------------------------------
\* k blocks of u units are no more than f when k blocks of u fit into f.
LEMMA BlocksFit ==
  ASSUME NEW u \in Nat \ {0}, NEW f \in Nat, NEW k \in Nat, k <= f \div u
  PROVE  u * k <= f
<1> DEFINE q == f \div u
<1>1. q \in Nat /\ u * q <= f
  BY SMT
<1>2. u * k <= u * q
  BY <1>1, SMT
<1>3. u * k \in Nat /\ u * q \in Nat
  BY <1>1, SMT
<1> QED
  BY <1>1, <1>2, <1>3

\* The fields of a job, and the blocks it is given, are natural numbers.
LEMMA JobFields ==
  ASSUME NodeTypeOK, NEW j \in Jobs
  PROVE  /\ job[j].mem_size \in Nat
         /\ job[j].cpu_count \in Nat
         /\ job[j].thread_count \in Nat
         /\ Unit(j) \in Nat
         /\ Want(j) \in Nat
<1>1. job[j] \in JobType
  BY DEF NodeTypeOK
<1> QED
  BY <1>1 DEF JobType, Unit, Want

\* So are the fields of a node, and t does not wrap on a sound core.
LEMMA NodeFields ==
  ASSUME NEW n \in Nodes
  PROVE  /\ NodeSpec[n].mem_size \in Nat
         /\ NodeSpec[n].cpu_count \in Nat
         /\ NodeSpec[n].thread_count \in Nat
         /\ NodeSpec[n].response_time \in Nat
         /\ NodeSpec[n].exec_rate \in Nat
         /\ NodeSpec[n].delay_min \in Nat
         /\ NodeSpec[n].delay_max \in Nat
         /\ NodeSpec[n].thread_count < SizeModulus
         /\ SizeModulus \in Nat \ {0}
BY NodeAssumption DEF NodeSpecType

\* A node has finitely many cores, numbered from 0.
LEMMA CoreSets ==
  ASSUME NEW n \in Nodes
  PROVE  /\ IsFiniteSet(Cores(n))
         /\ Cores(n) \subseteq Nat
         /\ \A c \in Cores(n) : 0..(c - 1) \subseteq Cores(n)
         /\ \A c \in Cores(n) : IsFiniteSet(0..(c - 1))
<1>1. NodeSpec[n].cpu_count - 1 \in Int /\ 0 \in Int
  BY NodeFields
<1>2. IsFiniteSet(Cores(n))
  BY <1>1, FS_Interval DEF Cores
<1>3. /\ Cores(n) \subseteq Nat
      /\ \A c \in Cores(n) : 0..(c - 1) \subseteq Cores(n)
  BY <1>1 DEF Cores
<1>4. \A c \in Cores(n) : IsFiniteSet(0..(c - 1))
  BY <1>2, <1>3, FS_Subset
<1> QED
  BY <1>2, <1>3, <1>4

\* Free memory and free threads are natural numbers, also after every release.
LEMMA OccupationFields ==
  ASSUME NodeTypeOK, NEW n \in Nodes
  PROVE  /\ FreeMem(n) \in Nat
         /\ CpuThreads(n) \in [Cores(n) -> Nat]
<1>1. occupation[n] \in OccupationType(n)
  BY DEF NodeTypeOK
<1> QED
  BY <1>1 DEF OccupationType, FreeMem, CpuThreads

\* There are finitely many jobs, so what they hold can be added up.
LEMMA JobsFinite ==
  IsFiniteSet(Jobs) /\ \A S \in SUBSET Jobs : IsFiniteSet(S)
<1>1. 1 \in Int /\ JobCount \in Int
  BY NodeAssumption
<1>2. IsFiniteSet(Jobs)
  BY <1>1, FS_Interval DEF Jobs
<1> QED
  BY <1>2, FS_Subset

\* The null pointer is no node.
LEMMA NullNotNode == NULL \notin Nodes
BY NodeAssumption DEF NULL, Nodes

-----------------------------------------------------------------------------
\* The blocks a core holds are at most what it has room for.
LEMMA SlotsType ==
  ASSUME NodeTypeOK, NEW j \in Jobs, NEW n \in Nodes, Unit(j) # 0
  PROVE  /\ Slots(j, n) \in [Cores(n) -> Nat]
         /\ \A c \in Cores(n) : Slots(j, n)[c] = CpuThreads(n)[c] \div Unit(j)
<1>1. Unit(j) \in Nat \ {0} /\ CpuThreads(n) \in [Cores(n) -> Nat]
  BY JobFields, OccupationFields
<1>2. \A c \in Cores(n) : CpuThreads(n)[c] \div Unit(j) \in Nat
  BY <1>1, SMT
<1> QED
  BY <1>2 DEF Slots

\* A core is given no more blocks than fit into its free threads.
LEMMA BlocksType ==
  ASSUME NodeTypeOK, NEW j \in Jobs, NEW n \in Nodes, Unit(j) # 0,
         NEW c \in Cores(n)
  PROVE  /\ BlocksOn(j, n, c) \in Nat
         /\ BlocksOn(j, n, c) <= CpuThreads(n)[c] \div Unit(j)
<1>1. /\ Slots(j, n)[c] \in Nat
      /\ Slots(j, n)[c] = CpuThreads(n)[c] \div Unit(j)
  BY SlotsType
<1>2. \A d \in 0..(c - 1) : Slots(j, n)[d] \in Nat
  BY SlotsType, CoreSets
<1>3. SumOver(Slots(j, n), 0..(c - 1)) \in Nat
  BY <1>2, CoreSets, SumNat
<1>4. LeftAt(j, n, c) \in Int
  BY <1>3, JobFields DEF LeftAt
<1> QED
  BY <1>1, <1>4 DEF BlocksOn

\* No core ends up with fewer than no threads.
LEMMA ThreadsAfterPutType ==
  ASSUME NodeTypeOK, NEW j \in Jobs, NEW n \in Nodes
  PROVE  ThreadsAfterPut(j, n) \in [Cores(n) -> Nat]
<1>1. CpuThreads(n) \in [Cores(n) -> Nat]
  BY OccupationFields
<1>2. CASE Unit(j) = 0
  BY <1>1, <1>2 DEF ThreadsAfterPut
<1>3. CASE Unit(j) # 0
  <2>1. Unit(j) \in Nat \ {0}
    BY <1>3, JobFields
  <2>2. ASSUME NEW c \in Cores(n)
        PROVE  CpuThreads(n)[c] - Unit(j) * BlocksOn(j, n, c) \in Nat
    <3>1. CpuThreads(n)[c] \in Nat
      BY <1>1
    <3>2. /\ BlocksOn(j, n, c) \in Nat
          /\ BlocksOn(j, n, c) <= CpuThreads(n)[c] \div Unit(j)
      BY <1>3, BlocksType
    <3>3. Unit(j) * BlocksOn(j, n, c) <= CpuThreads(n)[c]
      BY <2>1, <3>1, <3>2, BlocksFit
    <3>4. Unit(j) * BlocksOn(j, n, c) \in Nat
      BY <2>1, <3>2, SMT
    <3> QED
      BY <3>1, <3>3, <3>4
  <2> QED
    BY <1>3, <2>2 DEF ThreadsAfterPut
<1> QED
  BY <1>2, <1>3

\* A job the check accepts can be put without leaving the types.
LEMMA PutKeepsType ==
  ASSUME NodeTypeOK, job' = job, NEW j \in Jobs, NEW n \in Nodes,
         CheckNodeForJob(j, n), PutJobToNode(j, n)
  PROVE  NodeTypeOK'
<1>1. CASE assigned_node[j] # NULL
  <2>1. UNCHANGED nodeVars
    BY <1>1 DEF PutJobToNode
  <2> QED
    BY <2>1 DEF NodeTypeOK, nodeVars, OccupationType
<1>2. CASE assigned_node[j] = NULL
  <2>1. PICK delay \in StartDelays(n) :
          time_before_start' = [time_before_start EXCEPT ![j] = @ + delay]
    BY <1>2 DEF PutJobToNode
  <2>2. delay \in Nat
    BY NodeFields DEF StartDelays
  <2>3. time_before_start' \in [Jobs -> Nat]
    BY <2>1, <2>2 DEF NodeTypeOK
  <2>4. assigned_node' \in [Jobs -> Nodes \cup {NULL}]
    BY <1>2 DEF PutJobToNode, NodeTypeOK
  <2>5. FreeMem(n) - job[j].mem_size \in Nat
    BY JobFields, OccupationFields DEF CheckNodeForJob
  <2>6. [mem |-> FreeMem(n) - job[j].mem_size,
         cpu_threads |-> ThreadsAfterPut(j, n)] \in OccupationType(n)
    BY <2>5, ThreadsAfterPutType DEF OccupationType
  <2>7. /\ DOMAIN occupation' = Nodes
        /\ \A m \in Nodes : occupation'[m] \in OccupationType(m)
    BY <1>2, <2>6 DEF PutJobToNode, NodeTypeOK
  <2>8. overrun' \subseteq {"put", "release"}
    BY <1>2 DEF PutJobToNode, NodeTypeOK
  <2> QED
    BY <2>3, <2>4, <2>7, <2>8 DEF NodeTypeOK, OccupationType
<1> QED
  BY <1>1, <1>2

-----------------------------------------------------------------------------
\* t is unsigned: the threads in use are a natural number even where it wraps.
LEMMA UsedType ==
  ASSUME NodeTypeOK, NEW n \in Nodes, NEW c \in Cores(n)
  PROVE  UsedOn(n, c) \in Nat
<1>1. /\ NodeSpec[n].thread_count \in Nat
      /\ CpuThreads(n)[c] \in Nat
      /\ SizeModulus \in Nat \ {0}
  BY NodeFields, OccupationFields
<1> QED
  BY <1>1, SMT DEF UsedOn

\* Giving threads back takes none away, however often t wraps.
LEMMA FreedType ==
  ASSUME NodeTypeOK, NEW j \in Jobs, NEW n \in Nodes
  PROVE  /\ FreedByCores(j, n) \in [Cores(n) -> Nat]
         /\ FreedByThreads(j, n) \in [Cores(n) -> Nat]
<1> DEFINE free == CpuThreads(n)
<1>1. free \in [Cores(n) -> Nat]
  BY OccupationFields
<1>2. job[j].thread_count \in Nat
  BY JobFields
<1>3. ASSUME NEW c \in Cores(n)
      PROVE  FreedByThreads(j, n)[c] \in Nat
  <2>1. free[c] \in Nat /\ UsedOn(n, c) \in Nat
    BY <1>1, UsedType
  <2>2. LeftToFree(j, n, c) \in Nat
    <3>1. CASE c = 0
      BY <1>2, <3>1 DEF LeftToFree
    <3>2. CASE c # 0
      <4>1. c - 1 \in Cores(n)
        BY <3>2, CoreSets, NodeFields DEF Cores
      <4> QED
        BY <3>2, <4>1, UsedType DEF LeftToFree
    <3> QED
      BY <3>1, <3>2
  <2> QED
    BY <2>1, <2>2 DEF FreedByThreads, GoesPast
<1>4. FreedByCores(j, n) \in [Cores(n) -> Nat]
  BY <1>1, <1>2 DEF FreedByCores
<1>5. FreedByThreads(j, n) = [c \in Cores(n) |-> FreedByThreads(j, n)[c]]
  BY DEF FreedByThreads
<1> QED
  BY <1>3, <1>4, <1>5

\* Taking a job off its node stays within the types, whatever core it gives to.
LEMMA RemoveKeepsType ==
  ASSUME NodeTypeOK, job' = job, NEW j \in Jobs, RemoveJobFromNode(j),
         time_before_start' \in [Jobs -> Nat]
  PROVE  NodeTypeOK'
<1>1. CASE assigned_node[j] = NULL
  BY <1>1 DEF RemoveJobFromNode, NodeTypeOK, OccupationType
<1>2. CASE assigned_node[j] # NULL
  <2> DEFINE n == assigned_node[j]
  <2>1. n \in Nodes
    BY <1>2 DEF NodeTypeOK
  <2>2. FreeNodeResources(j, n)
    BY <1>2 DEF RemoveJobFromNode
  <2>3. FreeMem(n) + job[j].mem_size \in Nat
    BY <2>1, JobFields, OccupationFields
  <2>4. /\ FreedByCores(j, n) \in [Cores(n) -> Nat]
        /\ FreedByThreads(j, n) \in [Cores(n) -> Nat]
    BY <2>1, FreedType
  <2>5. [mem |-> FreeMem(n) + job[j].mem_size,
         cpu_threads |-> IF job[j].cpu_count # 0 THEN FreedByCores(j, n)
                                                 ELSE FreedByThreads(j, n)]
          \in OccupationType(n)
    BY <2>3, <2>4 DEF OccupationType
  <2>6. /\ DOMAIN occupation' = Nodes
        /\ \A m \in Nodes : occupation'[m] \in OccupationType(m)
    BY <2>1, <2>2, <2>5 DEF FreeNodeResources, NodeTypeOK
  <2>7. overrun' \subseteq {"put", "release"}
    BY <2>2 DEF FreeNodeResources, NodeTypeOK
  <2>8. assigned_node' \in [Jobs -> Nodes \cup {NULL}]
    BY <1>2 DEF RemoveJobFromNode, NodeTypeOK
  <2> QED
    BY <2>6, <2>7, <2>8 DEF NodeTypeOK, OccupationType
<1> QED
  BY <1>1, <1>2

-----------------------------------------------------------------------------
\* Putting a checked job keeps the balance of memory (put_job_to_node.c:27).
LEMMA PutKeepsMemory ==
  ASSUME NodeTypeOK, MemoryExact, job' = job, NEW j \in Jobs, NEW n \in Nodes,
         CheckNodeForJob(j, n), PutJobToNode(j, n)
  PROVE  MemoryExact'
<1> DEFINE mem == [i \in Jobs |-> job[i].mem_size]
<1>1. CASE assigned_node[j] # NULL
  <2>1. UNCHANGED <<assigned_node, occupation>>
    BY <1>1 DEF PutJobToNode, nodeVars
  <2> QED
    BY <2>1 DEF MemoryExact, FreeMem, JobsOn
<1>2. CASE assigned_node[j] = NULL
  <2>1. /\ assigned_node' = [assigned_node EXCEPT ![j] = n]
        /\ occupation' = [occupation EXCEPT
             ![n] = [mem         |-> FreeMem(n) - job[j].mem_size,
                     cpu_threads |-> ThreadsAfterPut(j, n)]]
    BY <1>2 DEF PutJobToNode
  <2>2. \A i \in Jobs : mem[i] \in Nat
    BY JobFields
  <2>3. ASSUME NEW m \in Nodes
        PROVE  FreeMem(m)' + SumOver(mem, JobsOn(m)') = NodeSpec[m].mem_size
    <3>1. FreeMem(m) + SumOver(mem, JobsOn(m)) = NodeSpec[m].mem_size
      BY DEF MemoryExact
    <3>2. j \notin JobsOn(m) /\ JobsOn(m) \subseteq Jobs /\ IsFiniteSet(JobsOn(m))
      BY <1>2, NullNotNode, JobsFinite DEF JobsOn
    <3>3. CASE m # n
      <4>1. FreeMem(m)' = FreeMem(m)
        BY <2>1, <3>3 DEF FreeMem, NodeTypeOK
      <4>2. JobsOn(m)' = JobsOn(m)
        BY <1>2, <2>1, <3>3, NullNotNode DEF JobsOn, NodeTypeOK
      <4> QED
        BY <3>1, <4>1, <4>2
    <3>4. CASE m = n
      <4>1. FreeMem(m)' = FreeMem(m) - mem[j]
        BY <2>1, <3>4 DEF FreeMem, NodeTypeOK
      <4>2. JobsOn(m)' = JobsOn(m) \cup {j}
        BY <2>1, <3>4 DEF JobsOn, NodeTypeOK
      <4>3. SumOver(mem, JobsOn(m) \cup {j}) = SumOver(mem, JobsOn(m)) + mem[j]
        BY <2>2, <3>2, SumAdd
      <4>4. SumOver(mem, JobsOn(m)) \in Nat
        BY <2>2, <3>2, SumNat
      <4>5. FreeMem(m) \in Nat /\ mem[j] \in Nat
        BY <2>2, OccupationFields
      <4> QED
        BY <3>1, <4>1, <4>2, <4>3, <4>4, <4>5
    <3> QED
      BY <3>3, <3>4
  <2> QED
    BY <2>3 DEF MemoryExact
<1> QED
  BY <1>1, <1>2

\* So does taking any job off its node (remove_job_from_node.c:45).
LEMMA RemoveKeepsMemory ==
  ASSUME NodeTypeOK, MemoryExact, job' = job, NEW j \in Jobs,
         RemoveJobFromNode(j)
  PROVE  MemoryExact'
<1> DEFINE mem == [i \in Jobs |-> job[i].mem_size]
<1>1. CASE assigned_node[j] = NULL
  <2>1. UNCHANGED <<assigned_node, occupation>>
    BY <1>1 DEF RemoveJobFromNode
  <2> QED
    BY <2>1 DEF MemoryExact, FreeMem, JobsOn
<1>2. CASE assigned_node[j] # NULL
  <2> DEFINE n == assigned_node[j]
  <2>1. n \in Nodes
    BY <1>2 DEF NodeTypeOK
  <2>2. /\ assigned_node' = [assigned_node EXCEPT ![j] = NULL]
        /\ occupation' = [occupation EXCEPT
             ![n] = [mem         |-> FreeMem(n) + job[j].mem_size,
                     cpu_threads |-> IF job[j].cpu_count # 0
                                       THEN FreedByCores(j, n)
                                       ELSE FreedByThreads(j, n)]]
    BY <1>2 DEF RemoveJobFromNode, FreeNodeResources
  <2>3. \A i \in Jobs : mem[i] \in Nat
    BY JobFields
  <2>4. ASSUME NEW m \in Nodes
        PROVE  FreeMem(m)' + SumOver(mem, JobsOn(m)') = NodeSpec[m].mem_size
    <3>1. FreeMem(m) + SumOver(mem, JobsOn(m)) = NodeSpec[m].mem_size
      BY DEF MemoryExact
    <3>2. JobsOn(m) \subseteq Jobs /\ IsFiniteSet(JobsOn(m))
      BY JobsFinite DEF JobsOn
    <3>3. CASE m # n
      <4>1. FreeMem(m)' = FreeMem(m)
        BY <2>2, <3>3 DEF FreeMem, NodeTypeOK
      <4>2. JobsOn(m)' = JobsOn(m)
        BY <2>2, <3>3, NullNotNode DEF JobsOn, NodeTypeOK
      <4> QED
        BY <3>1, <4>1, <4>2
    <3>4. CASE m = n
      <4>1. FreeMem(m)' = FreeMem(m) + mem[j]
        BY <2>1, <2>2, <3>4 DEF FreeMem, NodeTypeOK
      <4>2. j \in JobsOn(m) /\ JobsOn(m)' = JobsOn(m) \ {j}
        BY <2>1, <2>2, <3>4, NullNotNode DEF JobsOn, NodeTypeOK
      <4>3. SumOver(mem, JobsOn(m)) = SumOver(mem, JobsOn(m) \ {j}) + mem[j]
        BY <2>3, <3>2, <4>2, SumRemove
      <4>4. SumOver(mem, JobsOn(m) \ {j}) \in Nat
        <5>1. IsFiniteSet(JobsOn(m) \ {j})
          BY <3>2, FS_RemoveElement
        <5> QED
          BY <2>3, <3>2, <5>1, SumNat
      <4>5. FreeMem(m) \in Nat /\ mem[j] \in Nat
        BY <2>3, OccupationFields
      <4> QED
        BY <3>1, <4>1, <4>2, <4>3, <4>4, <4>5
    <3> QED
      BY <3>3, <3>4
  <2> QED
    BY <2>4 DEF MemoryExact
<1> QED
  BY <1>1, <1>2

-----------------------------------------------------------------------------
\* A sum of ones and zeros counts the ones.
LEMMA SumCounts ==
  ASSUME NEW S, IsFiniteSet(S), NEW T \in SUBSET S
  PROVE  SumOver([x \in S |-> IF x \in T THEN 1 ELSE 0], S) = Cardinality(T)
<1> DEFINE one == [x \in S |-> IF x \in T THEN 1 ELSE 0]
<1>1. UnitsOf(one, S) = T \X {1}
  <2>1. 1..1 = {1} /\ 1..0 = {}
    OBVIOUS
  <2>2. \A x \in S : \A k : k \in 1..one[x] <=> x \in T /\ k = 1
    BY <2>1
  <2>3. \A p : p \in UnitsOf(one, S) <=>
                 \E x \in S : \E k \in 1..one[x] : p = <<x, k>>
    BY DEF UnitsOf
  <2>4. \A p : p \in T \X {1} <=> \E x \in T : p = <<x, 1>>
    OBVIOUS
  <2> HIDE DEF one
  <2> QED
    BY <2>2, <2>3, <2>4
<1>2. IsFiniteSet(T) /\ IsFiniteSet({1}) /\ Cardinality({1}) = 1
  BY FS_Subset, FS_Singleton
<1>3. Cardinality(T \X {1}) = Cardinality(T) * Cardinality({1})
  BY <1>2, FS_Product
<1>4. Cardinality(T) \in Nat
  BY <1>2, FS_CardinalityType
<1>5. Cardinality(T) * 1 = Cardinality(T)
  BY <1>4
<1> QED
  BY <1>1, <1>2, <1>3, <1>5 DEF SumOver

\* The loops of cluster_put_job_to_node end before the array does for a job
\* that cluster_check_node_for_job accepted, though the check counts cores
\* and the loop counts blocks (put_job_to_node.c:11-12).
LEMMA CheckedPutInBounds ==
  ASSUME NodeTypeOK, NEW j \in Jobs, NEW n \in Nodes, CheckNodeForJob(j, n)
  PROVE  ~PutOverruns(j, n)
<1> SUFFICES ASSUME Unit(j) # 0
             PROVE  Want(j) <= SumOver(Slots(j, n), Cores(n))
  <2>1. Unit(j) # 0 => Slots(j, n) \in [Cores(n) -> Nat]
    BY SlotsType
  <2>2. Unit(j) # 0 => SumOver(Slots(j, n), Cores(n)) \in Nat
    BY <2>1, CoreSets, SumNat
  <2> QED
    BY <2>2, JobFields DEF PutOverruns
<1> DEFINE free == CpuThreads(n)
<1> DEFINE slots == Slots(j, n)
<1>1. free \in [Cores(n) -> Nat] /\ slots \in [Cores(n) -> Nat]
  BY OccupationFields, SlotsType
<1>2. HasAvailableThreads(j, n)
  BY DEF CheckNodeForJob
<1>3. CASE job[j].cpu_count = 0
  <2>1. Unit(j) = 1 /\ Want(j) = job[j].thread_count
    BY <1>3 DEF Unit, Want
  <2>2. \A k \in Nat : k \div 1 = k
    BY SMT
  <2>3. \A c \in Cores(n) : slots[c] = free[c]
    BY <1>1, <2>1, <2>2, SlotsType
  <2>4. SumOver(slots, Cores(n)) = SumOver(free, Cores(n))
    BY <2>3, SumEqual
  <2> QED
    BY <1>2, <1>3, <2>1, <2>4 DEF HasAvailableThreads
<1>4. CASE job[j].cpu_count # 0
  <2> DEFINE able == {c \in Cores(n) : job[j].thread_count <= free[c]}
  <2> DEFINE one  == [c \in Cores(n) |-> IF c \in able THEN 1 ELSE 0]
  <2>1. Unit(j) = job[j].thread_count /\ Want(j) = job[j].cpu_count
    BY <1>4 DEF Unit, Want
  <2>2. \A u \in Nat \ {0}, f \in Nat : u <= f => 1 <= f \div u
    BY SMT
  <2>3. ASSUME NEW c \in Cores(n) PROVE one[c] <= slots[c]
    <3>1. slots[c] = free[c] \div Unit(j) /\ slots[c] \in Nat
      BY SlotsType
    <3>2. Unit(j) \in Nat \ {0} /\ free[c] \in Nat
      BY <1>1, JobFields
    <3> QED
      BY <2>1, <2>2, <3>1, <3>2
  <2>4. \A c \in Cores(n) : one[c] \in Nat /\ slots[c] \in Nat
    BY <1>1
  <2>5. SumOver(one, Cores(n)) <= SumOver(slots, Cores(n))
    BY <2>3, <2>4, CoreSets, SumMonotone
  <2>6. SumOver(one, Cores(n)) = Cardinality(able)
    BY CoreSets, SumCounts
  <2>7. job[j].cpu_count <= Cardinality(able)
    BY <1>2, <1>4 DEF HasAvailableThreads
  <2>8. /\ Cardinality(able) \in Nat
        /\ SumOver(slots, Cores(n)) \in Nat
        /\ job[j].cpu_count \in Nat
    <3>1. IsFiniteSet(able)
      BY CoreSets, FS_Subset
    <3>2. SumOver(slots, Cores(n)) \in Nat
      BY <2>4, CoreSets, SumNat
    <3> QED
      BY <3>1, <3>2, FS_CardinalityType, JobFields
  <2> QED
    BY <2>1, <2>5, <2>6, <2>7, <2>8
<1> QED
  BY <1>3, <1>4

-----------------------------------------------------------------------------
\* Putting a job only takes: no node has more memory or a core with more free
\* threads afterwards.
LEMMA PutOnlyTakes ==
  ASSUME NodeTypeOK, job' = job, NEW j \in Jobs, NEW n \in Nodes,
         PutJobToNode(j, n), NEW m \in Nodes
  PROVE  /\ FreeMem(m)' <= FreeMem(m)
         /\ \A c \in Cores(m) : CpuThreads(m)'[c] <= CpuThreads(m)[c]
<1>1. /\ FreeMem(m) \in Nat
      /\ CpuThreads(m) \in [Cores(m) -> Nat]
      /\ \A c \in Cores(m) : CpuThreads(m)[c] <= CpuThreads(m)[c]
  BY OccupationFields
<1>2. CASE assigned_node[j] # NULL
  <2>1. UNCHANGED occupation
    BY <1>2 DEF PutJobToNode, nodeVars
  <2> QED
    BY <1>1, <2>1 DEF FreeMem, CpuThreads
<1>3. CASE assigned_node[j] = NULL
  <2>1. occupation' = [occupation EXCEPT
          ![n] = [mem         |-> FreeMem(n) - job[j].mem_size,
                  cpu_threads |-> ThreadsAfterPut(j, n)]]
    BY <1>3 DEF PutJobToNode
  <2>2. CASE m # n
    <3>1. occupation'[m] = occupation[m]
      BY <2>1, <2>2 DEF NodeTypeOK
    <3> QED
      BY <1>1, <3>1 DEF FreeMem, CpuThreads
  <2>3. CASE m = n
    <3>1. FreeMem(m)' = FreeMem(m) - job[j].mem_size
      BY <2>1, <2>3 DEF FreeMem, NodeTypeOK
    <3>2. CpuThreads(m)' = ThreadsAfterPut(j, m)
      BY <2>1, <2>3 DEF CpuThreads, NodeTypeOK
    <3>3. ASSUME NEW c \in Cores(m)
          PROVE  ThreadsAfterPut(j, m)[c] <= CpuThreads(m)[c]
      <4>1. CASE Unit(j) = 0
        BY <1>1, <4>1 DEF ThreadsAfterPut
      <4>2. CASE Unit(j) # 0
        <5>1. Unit(j) \in Nat /\ BlocksOn(j, m, c) \in Nat
          BY <4>2, BlocksType, JobFields
        <5>2. Unit(j) * BlocksOn(j, m, c) \in Nat
          BY <5>1, SMT
        <5>3. ThreadsAfterPut(j, m)[c]
                = CpuThreads(m)[c] - Unit(j) * BlocksOn(j, m, c)
          BY <4>2 DEF ThreadsAfterPut
        <5> QED
          BY <1>1, <5>2, <5>3
      <4> QED
        BY <4>1, <4>2
    <3> QED
      BY <1>1, <3>1, <3>2, <3>3, JobFields
  <2> QED
    BY <2>2, <2>3
<1> QED
  BY <1>2, <1>3

\* So a job that fits nowhere before another is put fits nowhere after it.
LEMMA PutMakesNoRoom ==
  ASSUME NodeTypeOK, job' = job, NEW j \in Jobs, NEW n \in Nodes,
         CheckNodeForJob(j, n), PutJobToNode(j, n),
         NEW i \in Jobs, NEW m \in Nodes, CheckNodeForJob(i, m)'
  PROVE  CheckNodeForJob(i, m)
<1> DEFINE old == CpuThreads(m)
<1> DEFINE new == CpuThreads(m)'
<1>1. NodeTypeOK'
  BY PutKeepsType
<1>2. /\ FreeMem(m) \in Nat /\ FreeMem(m)' \in Nat
      /\ old \in [Cores(m) -> Nat] /\ new \in [Cores(m) -> Nat]
  BY <1>1, OccupationFields DEF NodeTypeOK, OccupationType, FreeMem, CpuThreads
<1>3. FreeMem(m)' <= FreeMem(m) /\ \A c \in Cores(m) : new[c] <= old[c]
  BY PutOnlyTakes
<1>4. /\ job[i].required_features \subseteq NodeSpec[m].features
      /\ job[i].mem_size <= FreeMem(m)
  BY <1>2, <1>3, JobFields DEF CheckNodeForJob
<1>5. HasAvailableThreads(i, m)'
  BY DEF CheckNodeForJob
<1>6. HasAvailableThreads(i, m)
  <2>1. CASE job[i].cpu_count # 0
    <3> DEFINE ableOld == {c \in Cores(m) : job[i].thread_count <= old[c]}
    <3> DEFINE ableNew == {c \in Cores(m) : job[i].thread_count <= new[c]}
    <3>1. job[i].cpu_count <= Cardinality(ableNew)
      BY <1>5, <2>1 DEF HasAvailableThreads
    <3>2. ableNew \subseteq ableOld
      BY <1>2, <1>3, JobFields
    <3>3. IsFiniteSet(ableOld)
      BY CoreSets, FS_Subset
    <3>4. IsFiniteSet(ableNew)
      BY <3>2, <3>3, FS_Subset
    <3>5. Cardinality(ableNew) <= Cardinality(ableOld)
      BY <3>2, <3>3, FS_Subset
    <3>6. Cardinality(ableNew) \in Nat /\ Cardinality(ableOld) \in Nat
      BY <3>3, <3>4, FS_CardinalityType
    <3>7. job[i].cpu_count <= Cardinality(ableOld)
      BY <3>1, <3>5, <3>6, JobFields
    <3> QED
      BY <2>1, <3>7 DEF HasAvailableThreads
  <2>2. CASE job[i].cpu_count = 0
    <3>1. job[i].thread_count <= SumOver(new, Cores(m))
      BY <1>5, <2>2 DEF HasAvailableThreads
    <3>2. SumOver(new, Cores(m)) <= SumOver(old, Cores(m))
      BY <1>2, <1>3, CoreSets, SumMonotone
    <3>3. SumOver(new, Cores(m)) \in Nat /\ SumOver(old, Cores(m)) \in Nat
      BY <1>2, CoreSets, SumNat
    <3>4. job[i].thread_count <= SumOver(old, Cores(m))
      BY <3>1, <3>2, <3>3, JobFields
    <3> QED
      BY <2>2, <3>4 DEF HasAvailableThreads
  <2> QED
    BY <2>1, <2>2
<1> QED
  BY <1>4, <1>6 DEF CheckNodeForJob

-----------------------------------------------------------------------------
\* The threads of a job, and of a node, are natural numbers.
LEMMA ThreadsType ==
  ASSUME NodeTypeOK, NEW j \in Jobs, NEW n \in Nodes
  PROVE  /\ ThreadsOf(j) \in Nat
         /\ NodeSpec[n].cpu_count * NodeSpec[n].thread_count \in Nat
         /\ SumOver(CpuThreads(n), Cores(n)) \in Nat
<1>1. Unit(j) \in Nat /\ Want(j) \in Nat
  BY JobFields
<1>2. ThreadsOf(j) \in Nat
  BY <1>1, SMT DEF ThreadsOf
<1>3. NodeSpec[n].cpu_count \in Nat /\ NodeSpec[n].thread_count \in Nat
  BY NodeFields
<1>4. NodeSpec[n].cpu_count * NodeSpec[n].thread_count \in Nat
  BY <1>3, SMT
<1>5. SumOver(CpuThreads(n), Cores(n)) \in Nat
  BY OccupationFields, CoreSets, SumNat
<1> QED
  BY <1>2, <1>4, <1>5

\* A loop over the cores that keeps a fact from each to the next keeps it to
\* the end of the array: good is the set of counts of cores it holds after.
LEMMA OverCores ==
  ASSUME NEW n \in Nodes, NEW good \in SUBSET (0..NodeSpec[n].cpu_count),
         0 \in good, \A c \in Cores(n) : c \in good => c + 1 \in good
  PROVE  NodeSpec[n].cpu_count \in good
<1>1. NodeSpec[n].cpu_count \in Nat
  BY NodeFields
<1>2. good = 0..NodeSpec[n].cpu_count
  BY <1>1, UpTo DEF Cores
<1> QED
  BY <1>1, <1>2

\* The free threads of the cores before c, and of those up to c.
LEMMA CoresBefore ==
  ASSUME NEW n \in Nodes, NEW f \in [Cores(n) -> Nat], NEW c \in Cores(n)
  PROVE  /\ c \in Nat /\ c + 1 \in 0..NodeSpec[n].cpu_count
         /\ SumOver(f, 0..(c - 1)) \in Nat
         /\ SumOver(f, 0..((c + 1) - 1)) = SumOver(f, 0..(c - 1)) + f[c]
<1>1. c \in Nat /\ c + 1 \in 0..NodeSpec[n].cpu_count /\ 0..c \subseteq Cores(n)
  BY NodeFields DEF Cores
<1>2. \A i \in 0..c : f[i] \in Nat
  BY <1>1
<1> QED
  BY <1>1, <1>2, SumNext

\* Blocks of u threads: those given before a core and on it.
LEMMA Distributes ==
  ASSUME NEW u \in Nat, NEW a \in Nat, NEW b \in Nat
  PROVE  /\ u * (a + b) = u * a + u * b
         /\ u * a \in Nat
         /\ u * b \in Nat
BY SMT

\* A put that ends inside the array takes exactly the threads of the job, no
\* matter how many cores they come from (put_job_to_node.c:30-62).
LEMMA PutTakesThreads ==
  ASSUME NodeTypeOK, NEW j \in Jobs, NEW n \in Nodes, ~PutOverruns(j, n)
  PROVE  SumOver(ThreadsAfterPut(j, n), Cores(n)) + ThreadsOf(j)
           = SumOver(CpuThreads(n), Cores(n))
<1> DEFINE C     == NodeSpec[n].cpu_count
           free  == CpuThreads(n)
           after == ThreadsAfterPut(j, n)
           slots == Slots(j, n)
<1>1. /\ free \in [Cores(n) -> Nat] /\ after \in [Cores(n) -> Nat]
      /\ Unit(j) \in Nat /\ Want(j) \in Nat /\ C \in Nat
      /\ SumOver(free, Cores(n)) \in Nat
  BY OccupationFields, ThreadsAfterPutType, JobFields, NodeFields, ThreadsType
<1>2. CASE Unit(j) = 0
  <2>1. after = free
    BY <1>2 DEF ThreadsAfterPut
  <2>2. ThreadsOf(j) = 0
    BY <1>1, <1>2 DEF ThreadsOf
  <2> QED
    BY <1>1, <2>1, <2>2
<1>3. CASE Unit(j) # 0
  <2> DEFINE room(k)  == SumOver(slots, 0..(k - 1))
             given(k) == IF Want(j) <= room(k) THEN Want(j) ELSE room(k)
             Taken(k) == SumOver(after, 0..(k - 1)) + Unit(j) * given(k)
                           = SumOver(free, 0..(k - 1))
             good     == {k \in 0..C : Taken(k)}
  <2>1. slots \in [Cores(n) -> Nat]
    BY <1>3, SlotsType
  <2>2. 0 \in good
    <3>1. 0..(0 - 1) = {}
      OBVIOUS
    <3>2. SumOver(after, 0..(0 - 1)) = 0 /\ SumOver(free, 0..(0 - 1)) = 0 /\ room(0) = 0
      BY <3>1, SumEmpty
    <3>3. given(0) = 0
      BY <1>1, <3>2
    <3>4. Unit(j) * given(0) = 0
      BY <1>1, <3>3
    <3> QED
      BY <1>1, <3>2, <3>4
  <2>3. ASSUME NEW c \in Cores(n), c \in good
        PROVE  c + 1 \in good
    <3>1. /\ c + 1 \in 0..C
          /\ SumOver(after, 0..(c - 1)) \in Nat
          /\ SumOver(after, 0..((c + 1) - 1)) = SumOver(after, 0..(c - 1)) + after[c]
      BY <1>1, CoresBefore
    <3>2. /\ SumOver(free, 0..(c - 1)) \in Nat
          /\ SumOver(free, 0..((c + 1) - 1)) = SumOver(free, 0..(c - 1)) + free[c]
      BY <1>1, CoresBefore
    <3>3. room(c) \in Nat /\ room(c + 1) = room(c) + slots[c]
      BY <2>1, CoresBefore
    <3>4. /\ BlocksOn(j, n, c) \in Nat
          /\ slots[c] \in Nat /\ free[c] \in Nat /\ after[c] \in Nat
          /\ given(c) \in Nat
      BY <1>1, <1>3, <2>1, <3>3, BlocksType
    <3>5. given(c + 1) = given(c) + BlocksOn(j, n, c)
      <4>1. LeftAt(j, n, c) = Want(j) - room(c)
        BY DEF LeftAt
      <4> HIDE DEF room, slots
      <4>2. BlocksOn(j, n, c) = IF Want(j) - room(c) <= 0 THEN 0
                                ELSE IF Want(j) - room(c) <= slots[c]
                                  THEN Want(j) - room(c) ELSE slots[c]
        BY <4>1 DEF BlocksOn, slots
      <4> QED
        BY <1>1, <3>3, <3>4, <4>2
    <3>6. after[c] = free[c] - Unit(j) * BlocksOn(j, n, c)
      BY <1>3 DEF ThreadsAfterPut
    <3>7. /\ Unit(j) * given(c + 1) = Unit(j) * given(c) + Unit(j) * BlocksOn(j, n, c)
          /\ Unit(j) * given(c) \in Nat
          /\ Unit(j) * BlocksOn(j, n, c) \in Nat
      <4> HIDE DEF given
      <4> QED
        BY <1>1, <3>4, <3>5, Distributes
    <3>8. SumOver(after, 0..(c - 1)) + Unit(j) * given(c) = SumOver(free, 0..(c - 1))
      BY <2>3
    <3>9. Taken(c + 1)
      <4> HIDE DEF given, after, free
      <4> QED
        BY <3>1, <3>2, <3>4, <3>6, <3>7, <3>8
    <3> HIDE DEF Taken
    <3> QED
      BY <3>1, <3>9
  <2>4. C \in good
    <3> HIDE DEF good
    <3>1. good \in SUBSET (0..C)
      BY DEF good
    <3> QED
      BY <2>2, <2>3, <3>1, OverCores
  <2>5. Cores(n) = 0..(C - 1)
    BY DEF Cores
  <2>6. given(C) = Want(j)
    <3>1. Want(j) <= SumOver(slots, Cores(n)) \/ ~(SumOver(slots, Cores(n)) < Want(j))
      BY <1>3 DEF PutOverruns
    <3>2. SumOver(slots, Cores(n)) \in Nat
      BY <2>1, CoreSets, SumNat
    <3> QED
      BY <1>1, <2>5, <3>1, <3>2
  <2> QED
    BY <2>4, <2>5, <2>6 DEF ThreadsOf
<1> QED
  BY <1>2, <1>3

\* What the job still holds when the loop that frees single threads is done.
NotFreed(j, n) ==
  IF Reaches(j, n, NodeSpec[n].cpu_count)
    THEN LeftToFree(j, n, NodeSpec[n].cpu_count) ELSE 0

\* The threads left to free are a natural number at every core the loop reaches.
LEMMA LeftType ==
  ASSUME NodeTypeOK, NEW j \in Jobs, NEW n \in Nodes,
         NEW c \in 0..NodeSpec[n].cpu_count
  PROVE  /\ LeftToFree(j, n, c) \in Nat
         /\ NotFreed(j, n) \in Nat
<1>1. \A d \in 0..NodeSpec[n].cpu_count : LeftToFree(j, n, d) \in Nat
  <2> TAKE d \in 0..NodeSpec[n].cpu_count
  <2>1. CASE d = 0
    BY <2>1, JobFields DEF LeftToFree
  <2>2. CASE d # 0
    <3>1. d - 1 \in Cores(n)
      BY <2>2, NodeFields DEF Cores
    <3> QED
      BY <2>2, <3>1, UsedType DEF LeftToFree
  <2> QED
    BY <2>1, <2>2
<1>2. NodeSpec[n].cpu_count \in 0..NodeSpec[n].cpu_count
  BY NodeFields
<1> QED
  BY <1>1, <1>2 DEF NotFreed

\* The loop that frees single threads gives all of them back, to whichever
\* cores, unless it leaves the array: what one core does not take is what the
\* next one is given, although neither is what the job had there
\* (remove_job_from_node.c:61-75).
LEMMA FreedThreadByThread ==
  ASSUME NodeTypeOK, NEW j \in Jobs, NEW n \in Nodes
  PROVE  SumOver(FreedByThreads(j, n), Cores(n)) + NotFreed(j, n)
           = SumOver(CpuThreads(n), Cores(n)) + job[j].thread_count
<1> DEFINE C     == NodeSpec[n].cpu_count
           free  == CpuThreads(n)
           freed == FreedByThreads(j, n)
           kept(k) == IF Reaches(j, n, k) THEN LeftToFree(j, n, k) ELSE 0
           Given(k) == SumOver(freed, 0..(k - 1)) + kept(k)
                         = SumOver(free, 0..(k - 1)) + job[j].thread_count
           good  == {k \in 0..C : Given(k)}
<1>1. /\ free \in [Cores(n) -> Nat] /\ freed \in [Cores(n) -> Nat]
      /\ job[j].thread_count \in Nat /\ C \in Nat
  BY OccupationFields, FreedType, JobFields, NodeFields
<1>2. 0 \in good
  <2>1. 0..(0 - 1) = {}
    OBVIOUS
  <2>2. SumOver(freed, 0..(0 - 1)) = 0 /\ SumOver(free, 0..(0 - 1)) = 0
    BY <2>1, SumEmpty
  <2>3. kept(0) = job[j].thread_count
    BY <2>1 DEF Reaches, LeftToFree
  <2> QED
    BY <1>1, <2>2, <2>3
<1>3. ASSUME NEW c \in Cores(n), c \in good
      PROVE  c + 1 \in good
  <2>1. /\ c + 1 \in 0..C /\ c \in 0..C /\ c \in Nat
        /\ SumOver(freed, 0..(c - 1)) \in Nat
        /\ SumOver(freed, 0..((c + 1) - 1)) = SumOver(freed, 0..(c - 1)) + freed[c]
    BY <1>1, <1>3, CoresBefore
  <2>2. /\ SumOver(free, 0..(c - 1)) \in Nat
        /\ SumOver(free, 0..((c + 1) - 1)) = SumOver(free, 0..(c - 1)) + free[c]
    BY <1>1, CoresBefore
  <2>3. /\ LeftToFree(j, n, c) \in Nat /\ UsedOn(n, c) \in Nat
        /\ free[c] \in Nat /\ freed[c] \in Nat
    BY <1>1, <2>1, LeftType, UsedType
  <2>4. LeftToFree(j, n, c + 1) = UsedOn(n, c)
    BY <2>1 DEF LeftToFree
  <2>5. Reaches(j, n, c + 1) <=> Reaches(j, n, c) /\ GoesPast(j, n, c)
    <3>1. 0..((c + 1) - 1) = (0..(c - 1)) \cup {c}
      BY <2>1
    <3> QED
      BY <3>1 DEF Reaches
  <2>6. GoesPast(j, n, c) <=> LeftToFree(j, n, c) > UsedOn(n, c)
    BY DEF GoesPast
  <2>7. freed[c] = IF ~Reaches(j, n, c) THEN free[c]
                   ELSE IF GoesPast(j, n, c)
                     THEN free[c] + (LeftToFree(j, n, c) - UsedOn(n, c))
                     ELSE free[c] + LeftToFree(j, n, c)
    BY DEF FreedByThreads
  <2>8. freed[c] + kept(c + 1) = free[c] + kept(c)
    <3> HIDE DEF free, freed
    <3>1. CASE ~Reaches(j, n, c)
      BY <2>3, <2>5, <2>7, <3>1
    <3>2. CASE Reaches(j, n, c) /\ GoesPast(j, n, c)
      BY <2>3, <2>4, <2>5, <2>7, <3>2
    <3>3. CASE Reaches(j, n, c) /\ ~GoesPast(j, n, c)
      BY <2>3, <2>5, <2>7, <3>3
    <3> QED
      BY <3>1, <3>2, <3>3
  <2>9. kept(c) \in Nat /\ kept(c + 1) \in Nat
    BY <2>3, <2>4
  <2>10. Given(c)
    BY <1>3
  <2>11. Given(c + 1)
    <3> DEFINE a == SumOver(freed, 0..(c - 1))
               b == SumOver(free, 0..(c - 1))
               x == freed[c]
               y == free[c]
               l == kept(c)
               m == kept(c + 1)
               v == job[j].thread_count
    <3>1. a + l = b + v /\ x + m = y + l
      BY <2>8, <2>10
    <3>2. a \in Nat /\ b \in Nat /\ x \in Nat /\ y \in Nat /\ l \in Nat /\ m \in Nat /\ v \in Nat
      BY <1>1, <2>1, <2>2, <2>3, <2>9
    <3>3. (a + x) + m = (b + y) + v
      <4> HIDE DEF a, b, x, y, l, m, v
      <4> QED
        BY <3>1, <3>2
    <3> HIDE DEF kept, free, freed
    <3> QED
      BY <2>1, <2>2, <3>3
  <2> HIDE DEF Given
  <2> QED
    BY <2>1, <2>11
<1>4. C \in good
  <2> HIDE DEF Given
  <2> DEFINE these == good
  <2>1. these \in SUBSET (0..C) /\ 0 \in these
    BY <1>2
  <2>2. \A c \in Cores(n) : c \in these => c + 1 \in these
    BY <1>3
  <2> HIDE DEF these
  <2>3. C \in these
    BY <2>1, <2>2, OverCores
  <2> QED
    BY <2>3 DEF these
<1>5. Cores(n) = 0..(C - 1)
  BY DEF Cores
<1> QED
  BY <1>4, <1>5 DEF NotFreed

\* The loop that frees whole cores gives back at most what the job had: the
\* cores with room may be too few, never too many (remove_job_from_node.c:47-58).
LEMMA FreedCoreByCore ==
  ASSUME NodeTypeOK, NEW j \in Jobs, NEW n \in Nodes
  PROVE  SumOver(FreedByCores(j, n), Cores(n))
           <= SumOver(CpuThreads(n), Cores(n)) + job[j].thread_count * job[j].cpu_count
<1> DEFINE C     == NodeSpec[n].cpu_count
           free  == CpuThreads(n)
           freed == FreedByCores(j, n)
           u     == job[j].thread_count
           w     == job[j].cpu_count
           able(k) == {d \in 0..(k - 1) : HasRoom(j, n, d)}
           count(k) == IF Cardinality(able(k)) < w THEN Cardinality(able(k)) ELSE w
           Given(k) == SumOver(freed, 0..(k - 1))
                         = SumOver(free, 0..(k - 1)) + u * count(k)
           good  == {k \in 0..C : Given(k)}
<1>1. /\ free \in [Cores(n) -> Nat] /\ freed \in [Cores(n) -> Nat]
      /\ u \in Nat /\ w \in Nat /\ C \in Nat
  BY OccupationFields, FreedType, JobFields, NodeFields
<1>2. ASSUME NEW k \in 0..C
      PROVE  IsFiniteSet(able(k)) /\ Cardinality(able(k)) \in Nat /\ count(k) \in Nat
  <2>1. 0 \in Int /\ k - 1 \in Int
    BY <1>1
  <2>2. IsFiniteSet(0..(k - 1))
    BY <2>1, FS_Interval
  <2>3. IsFiniteSet(able(k)) /\ Cardinality(able(k)) \in Nat
    BY <2>2, FS_Subset, FS_CardinalityType
  <2> QED
    BY <1>1, <2>3
<1>3. 0 \in good
  <2>1. 0..(0 - 1) = {} /\ able(0) = {}
    OBVIOUS
  <2>2. SumOver(freed, 0..(0 - 1)) = 0 /\ SumOver(free, 0..(0 - 1)) = 0
    BY <2>1, SumEmpty
  <2>3. Cardinality(able(0)) = 0
    BY <2>1, FS_EmptySet
  <2>4. count(0) = 0
    BY <1>1, <2>3
  <2>5. u * count(0) = 0
    BY <1>1, <2>4
  <2> QED
    BY <1>1, <2>2, <2>5
<1>4. ASSUME NEW c \in Cores(n), c \in good
      PROVE  c + 1 \in good
  <2>1. /\ c + 1 \in 0..C /\ c \in 0..C /\ c \in Nat
        /\ SumOver(freed, 0..(c - 1)) \in Nat
        /\ SumOver(freed, 0..((c + 1) - 1)) = SumOver(freed, 0..(c - 1)) + freed[c]
    BY <1>1, <1>4, CoresBefore
  <2>2. /\ SumOver(free, 0..(c - 1)) \in Nat
        /\ SumOver(free, 0..((c + 1) - 1)) = SumOver(free, 0..(c - 1)) + free[c]
    BY <1>1, CoresBefore
  <2>3. free[c] \in Nat /\ freed[c] \in Nat
    BY <1>1
  <2>4. /\ IsFiniteSet(able(c)) /\ Cardinality(able(c)) \in Nat
        /\ count(c) \in Nat /\ count(c + 1) \in Nat
    BY <1>2, <2>1
  <2>5. 0..((c + 1) - 1) = (0..(c - 1)) \cup {c} /\ c \notin 0..(c - 1)
    BY <2>1
  <2>6. Cardinality(able(c + 1))
          = IF HasRoom(j, n, c) THEN Cardinality(able(c)) + 1 ELSE Cardinality(able(c))
    <3>1. CASE HasRoom(j, n, c)
      <4>1. able(c + 1) = able(c) \cup {c} /\ c \notin able(c)
        BY <2>5, <3>1
      <4> QED
        BY <2>4, <3>1, <4>1, FS_AddElement
    <3>2. CASE ~HasRoom(j, n, c)
      <4>1. able(c + 1) = able(c)
        BY <2>5, <3>2
      <4> QED
        BY <3>2, <4>1
    <3> QED
      BY <3>1, <3>2
  <2>7. freed[c] = IF HasRoom(j, n, c) /\ Cardinality(able(c)) < w
                     THEN free[c] + u ELSE free[c]
    BY DEF FreedByCores
  <2>8. count(c + 1) = IF HasRoom(j, n, c) /\ Cardinality(able(c)) < w
                         THEN count(c) + 1 ELSE count(c)
    <3> HIDE DEF able, w
    <3> QED
      BY <1>1, <2>4, <2>6
  <2>9. u * (count(c) + 1) = u * count(c) + u /\ u * count(c) \in Nat
    <3> HIDE DEF count, u
    <3>1. u * (count(c) + 1) = u * count(c) + u * 1 /\ u * 1 = u /\ u * count(c) \in Nat
      BY <1>1, <2>4, Distributes
    <3> QED
      BY <3>1
  <2>10. Given(c)
    BY <1>4
  <2>11. Given(c + 1)
    <3> HIDE DEF count, free, freed, u
    <3> QED
      BY <1>1, <2>1, <2>2, <2>3, <2>7, <2>8, <2>9, <2>10
  <2> HIDE DEF Given
  <2> QED
    BY <2>1, <2>11
<1>5. C \in good
  <2> HIDE DEF Given
  <2> DEFINE these == good
  <2>1. these \in SUBSET (0..C) /\ 0 \in these
    BY <1>3
  <2>2. \A c \in Cores(n) : c \in these => c + 1 \in these
    BY <1>4
  <2> HIDE DEF these
  <2>3. C \in these
    BY <2>1, <2>2, OverCores
  <2> QED
    BY <2>3 DEF these
<1>6. SumOver(freed, Cores(n)) = SumOver(free, Cores(n)) + u * count(C)
  BY <1>5 DEF Cores
<1>7. u * count(C) <= u * w /\ u * count(C) \in Nat /\ u * w \in Nat
  <2>1. count(C) \in Nat /\ count(C) <= w
    <3>1. C \in 0..C
      BY <1>1
    <3>2. Cardinality(able(C)) \in Nat
      BY <1>2, <3>1
    <3> HIDE DEF able, w
    <3> QED
      BY <1>1, <3>2
  <2> HIDE DEF count, u, w
  <2> QED
    BY <1>1, <2>1, SMT
<1>8. SumOver(freed, Cores(n)) \in Nat /\ SumOver(free, Cores(n)) \in Nat
  BY <1>1, CoreSets, SumNat
<1> QED
  <2> HIDE DEF count, free, freed, u, w
  <2>1. SumOver(freed, Cores(n)) <= SumOver(free, Cores(n)) + u * w
    BY <1>6, <1>7, <1>8
  <2> QED
    BY <2>1 DEF free, freed, u, w

-----------------------------------------------------------------------------
\* What a node promises: its free threads and those of the jobs on it.
Held        == [j \in Jobs |-> ThreadsOf(j)]
Promised(n) == SumOver(CpuThreads(n), Cores(n)) + SumOver(Held, JobsOn(n))

\* Threads of jobs add up to a natural number, on every node.
LEMMA HeldType ==
  ASSUME NodeTypeOK, NEW n \in Nodes
  PROVE  /\ \A S \in SUBSET Jobs : SumOver(Held, S) \in Nat
         /\ \A j \in Jobs : Held[j] = ThreadsOf(j) /\ Held[j] \in Nat
         /\ JobsOn(n) \in SUBSET Jobs /\ IsFiniteSet(JobsOn(n))
         /\ SumOver(CpuThreads(n), Cores(n)) \in Nat
         /\ Promised(n) \in Nat
<1>1. \A j \in Jobs : Held[j] = ThreadsOf(j) /\ Held[j] \in Nat
  BY ThreadsType DEF Held
<1>2. ASSUME NEW S \in SUBSET Jobs PROVE SumOver(Held, S) \in Nat
  <2>1. IsFiniteSet(S) /\ \A j \in S : Held[j] \in Nat
    BY <1>1, JobsFinite
  <2> QED
    BY <2>1, SumNat
<1>3. JobsOn(n) \in SUBSET Jobs /\ IsFiniteSet(JobsOn(n))
  BY JobsFinite DEF JobsOn
<1>4. SumOver(CpuThreads(n), Cores(n)) \in Nat
  BY OccupationFields, CoreSets, SumNat
<1>5. Promised(n) \in Nat
  BY <1>2, <1>3, <1>4 DEF Promised
<1> QED
  BY <1>1, <1>2, <1>3, <1>4, <1>5

\* A job that is put moves its threads from free to used, and no others.
LEMMA PutMovesThreads ==
  ASSUME NodeTypeOK, job' = job, NEW j \in Jobs, NEW n \in Nodes,
         CheckNodeForJob(j, n), PutJobToNode(j, n), NEW m \in Nodes
  PROVE  Promised(m)' = Promised(m)
<1>1. Held' = Held
  BY DEF Held, ThreadsOf, Unit, Want
<1>2. CASE assigned_node[j] # NULL
  <2>1. UNCHANGED nodeVars
    BY <1>2 DEF PutJobToNode
  <2> QED
    BY <1>1, <2>1 DEF nodeVars, Promised, CpuThreads, JobsOn
<1>3. CASE assigned_node[j] = NULL
  <2>1. /\ assigned_node' = [assigned_node EXCEPT ![j] = n]
        /\ occupation' = [occupation EXCEPT
             ![n] = [mem         |-> FreeMem(n) - job[j].mem_size,
                     cpu_threads |-> ThreadsAfterPut(j, n)]]
        /\ assigned_node \in [Jobs -> Nodes \cup {NULL}]
        /\ DOMAIN occupation = Nodes
    BY <1>3 DEF PutJobToNode, NodeTypeOK
  <2>2. CASE m # n
    <3>1. CpuThreads(m)' = CpuThreads(m)
      BY <2>1, <2>2 DEF CpuThreads
    <3>2. JobsOn(m)' = JobsOn(m)
      BY <1>3, <2>1, <2>2, NullNotNode DEF JobsOn
    <3> QED
      BY <1>1, <3>1, <3>2 DEF Promised
  <2>3. CASE m = n
    <3>1. CpuThreads(m)' = ThreadsAfterPut(j, m)
      BY <2>1, <2>3 DEF CpuThreads
    <3>2. JobsOn(m)' = JobsOn(m) \cup {j} /\ j \notin JobsOn(m)
      BY <1>3, <2>1, <2>3, NullNotNode DEF JobsOn
    <3>3. SumOver(ThreadsAfterPut(j, m), Cores(m)) + ThreadsOf(j)
            = SumOver(CpuThreads(m), Cores(m))
      BY <2>3, CheckedPutInBounds, PutTakesThreads
    <3>4. SumOver(Held, JobsOn(m) \cup {j}) = SumOver(Held, JobsOn(m)) + Held[j]
      <4>1. \A i \in JobsOn(m) \cup {j} : Held[i] \in Nat
        BY HeldType
      <4> QED
        BY <3>2, <4>1, HeldType, SumAdd
    <3>5. SumOver(ThreadsAfterPut(j, m), Cores(m)) \in Nat
      BY <2>3, ThreadsAfterPutType, CoreSets, SumNat
    <3>6. Promised(m)' = SumOver(ThreadsAfterPut(j, m), Cores(m))
                           + SumOver(Held, JobsOn(m) \cup {j})
      BY <1>1, <3>1, <3>2 DEF Promised
    <3>7. /\ Held[j] = ThreadsOf(j) /\ Held[j] \in Nat
          /\ SumOver(Held, JobsOn(m)) \in Nat
      BY HeldType
    <3> QED
      BY <3>3, <3>4, <3>5, <3>6, <3>7 DEF Promised
  <2> QED
    BY <2>2, <2>3
<1> QED
  BY <1>2, <1>3

\* A job that is removed gives back its threads, or fewer, and no others.
LEMMA RemoveMovesThreads ==
  ASSUME NodeTypeOK, job' = job, NEW j \in Jobs, RemoveJobFromNode(j),
         NEW m \in Nodes
  PROVE  Promised(m)' <= Promised(m)
<1>1. Held' = Held
  BY DEF Held, ThreadsOf, Unit, Want
<1>2. Promised(m) \in Nat
  BY HeldType
<1>3. CASE assigned_node[j] = NULL
  <2>1. UNCHANGED <<assigned_node, occupation>>
    BY <1>3 DEF RemoveJobFromNode
  <2>2. Promised(m)' = Promised(m)
    BY <1>1, <2>1 DEF Promised, CpuThreads, JobsOn
  <2> QED
    BY <1>2, <2>2
<1>4. CASE assigned_node[j] # NULL
  <2> DEFINE n == assigned_node[j]
             freed == IF job[j].cpu_count # 0 THEN FreedByCores(j, n)
                                              ELSE FreedByThreads(j, n)
  <2>1. /\ n \in Nodes
        /\ assigned_node' = [assigned_node EXCEPT ![j] = NULL]
        /\ occupation' = [occupation EXCEPT
             ![n] = [mem |-> FreeMem(n) + job[j].mem_size, cpu_threads |-> freed]]
        /\ assigned_node \in [Jobs -> Nodes \cup {NULL}]
        /\ DOMAIN occupation = Nodes
    BY <1>4 DEF RemoveJobFromNode, FreeNodeResources, NodeTypeOK
  <2>2. CASE m # n
    <3>1. CpuThreads(m)' = CpuThreads(m)
      BY <2>1, <2>2 DEF CpuThreads
    <3>2. JobsOn(m)' = JobsOn(m)
      BY <1>4, <2>1, <2>2, NullNotNode DEF JobsOn
    <3>3. Promised(m)' = Promised(m)
      BY <1>1, <3>1, <3>2 DEF Promised
    <3> QED
      BY <1>2, <3>3
  <2>3. CASE m = n
    <3>1. CpuThreads(m)' = freed
      BY <2>1, <2>3 DEF CpuThreads
    <3>2. JobsOn(m)' = JobsOn(m) \ {j} /\ j \in JobsOn(m)
      BY <1>4, <2>1, <2>3, NullNotNode DEF JobsOn
    <3>3. freed \in [Cores(m) -> Nat]
      BY <2>1, <2>3, FreedType
    <3>4. SumOver(freed, Cores(m)) <= SumOver(CpuThreads(m), Cores(m)) + ThreadsOf(j)
      <4>1. CASE job[j].cpu_count # 0
        BY <2>3, <4>1, FreedCoreByCore DEF ThreadsOf, Unit, Want
      <4>2. CASE job[j].cpu_count = 0
        <5>1. ThreadsOf(j) = job[j].thread_count
          BY <4>2, JobFields DEF ThreadsOf, Unit, Want
        <5>2. SumOver(freed, Cores(m)) + NotFreed(j, m)
                = SumOver(CpuThreads(m), Cores(m)) + ThreadsOf(j)
          BY <2>3, <4>2, <5>1, FreedThreadByThread
        <5>3. NotFreed(j, m) \in Nat
          <6>1. 0 \in 0..NodeSpec[m].cpu_count
            BY NodeFields
          <6> QED
            BY <6>1, LeftType
        <5>4. SumOver(freed, Cores(m)) \in Nat
          BY <3>3, CoreSets, SumNat
        <5> HIDE DEF freed
        <5> QED
          BY <5>2, <5>3, <5>4, ThreadsType
      <4> QED
        BY <4>1, <4>2
    <3>5. SumOver(Held, JobsOn(m)) = SumOver(Held, JobsOn(m) \ {j}) + Held[j]
      BY <3>2, HeldType, SumRemove
    <3>6. SumOver(freed, Cores(m)) \in Nat
      BY <3>3, CoreSets, SumNat
    <3>7. Promised(m)' = SumOver(freed, Cores(m)) + SumOver(Held, JobsOn(m) \ {j})
      BY <1>1, <3>1, <3>2 DEF Promised
    <3>8. /\ Held[j] = ThreadsOf(j) /\ Held[j] \in Nat
          /\ SumOver(Held, JobsOn(m) \ {j}) \in Nat
          /\ SumOver(CpuThreads(m), Cores(m)) \in Nat
      <4>1. JobsOn(m) \ {j} \in SUBSET Jobs
        BY DEF JobsOn
      <4> QED
        BY <4>1, HeldType
    <3> HIDE DEF freed
    <3> QED
      BY <3>4, <3>5, <3>6, <3>7, <3>8 DEF Promised
  <2> QED
    BY <2>2, <2>3
<1> QED
  BY <1>3, <1>4

\* So a node that promises no more than it has never promises more.
LEMMA PutOvercommitsNone ==
  ASSUME NodeTypeOK, NeverOvercommitted, job' = job, NEW j \in Jobs, NEW n \in Nodes,
         CheckNodeForJob(j, n), PutJobToNode(j, n)
  PROVE  NeverOvercommitted'
<1> SUFFICES ASSUME NEW m \in Nodes
             PROVE  Promised(m)' <= NodeSpec[m].cpu_count * NodeSpec[m].thread_count
  BY DEF NeverOvercommitted, Promised, Held
<1>1. Promised(m) <= NodeSpec[m].cpu_count * NodeSpec[m].thread_count
  BY DEF NeverOvercommitted, Promised, Held
<1> QED
  BY <1>1, PutMovesThreads

\* Nor does it after a removal.
LEMMA RemoveOvercommitsNone ==
  ASSUME NodeTypeOK, NeverOvercommitted, job' = job, NEW j \in Jobs,
         RemoveJobFromNode(j), time_before_start' \in [Jobs -> Nat]
  PROVE  NeverOvercommitted'
<1> SUFFICES ASSUME NEW m \in Nodes
             PROVE  Promised(m)' <= NodeSpec[m].cpu_count * NodeSpec[m].thread_count
  BY DEF NeverOvercommitted, Promised, Held
<1>1. Promised(m) <= NodeSpec[m].cpu_count * NodeSpec[m].thread_count
  BY DEF NeverOvercommitted, Promised, Held
<1>2. Promised(m)' <= Promised(m)
  BY RemoveMovesThreads
<1>3. Promised(m) \in Nat /\ NodeSpec[m].cpu_count * NodeSpec[m].thread_count \in Nat
  <2>1. NodeSpec[m].cpu_count \in Nat /\ NodeSpec[m].thread_count \in Nat
    BY NodeFields
  <2> QED
    BY <2>1, HeldType, SMT
<1>4. Promised(m)' \in Nat
  <2>1. NodeTypeOK'
    BY RemoveKeepsType
  <2>2. CpuThreads(m)' \in [Cores(m) -> Nat]
    BY <2>1 DEF NodeTypeOK, OccupationType, CpuThreads
  <2>3. SumOver(CpuThreads(m)', Cores(m)) \in Nat
    BY <2>2, CoreSets, SumNat
  <2>4. Held' = Held /\ JobsOn(m)' \in SUBSET Jobs
    BY DEF Held, ThreadsOf, Unit, Want, JobsOn
  <2>5. SumOver(Held, JobsOn(m)') \in Nat
    BY <2>4, HeldType
  <2> QED
    BY <2>3, <2>4, <2>5 DEF Promised
<1> QED
  BY <1>1, <1>2, <1>3, <1>4

\* With everything free a node promises what it has.
LEMMA NothingPromised ==
  ASSUME NodeInit, NEW n \in Nodes
  PROVE  /\ SumOver(CpuThreads(n), Cores(n))
              = NodeSpec[n].cpu_count * NodeSpec[n].thread_count
         /\ SumOver(Held, JobsOn(n)) = 0
<1>1. \A c \in Cores(n) : CpuThreads(n)[c] = NodeSpec[n].thread_count
  BY DEF NodeInit, EmptyOccupation, CpuThreads
<1>2. SumOver(CpuThreads(n), Cores(n)) = Cardinality(Cores(n)) * NodeSpec[n].thread_count
  BY <1>1, CoreSets, NodeFields, SumConstant
<1>3. Cardinality(Cores(n)) = NodeSpec[n].cpu_count
  <2>1. 0 \in Int /\ NodeSpec[n].cpu_count - 1 \in Int /\ NodeSpec[n].cpu_count \in Nat
    BY NodeFields
  <2>2. Cardinality(0..(NodeSpec[n].cpu_count - 1))
          = IF 0 > NodeSpec[n].cpu_count - 1 THEN 0
            ELSE (NodeSpec[n].cpu_count - 1) - 0 + 1
    BY <2>1, FS_Interval
  <2> QED
    BY <2>1, <2>2 DEF Cores
<1>4. JobsOn(n) = {}
  BY NullNotNode DEF NodeInit, JobsOn
<1> QED
  BY <1>2, <1>3, <1>4, SumEmpty

\* In particular it does not promise more.
LEMMA StartsUncommitted ==
  ASSUME NodeInit
  PROVE  NeverOvercommitted
<1> SUFFICES ASSUME NEW n \in Nodes
             PROVE  Promised(n) <= NodeSpec[n].cpu_count * NodeSpec[n].thread_count
  BY DEF NeverOvercommitted, Promised, Held
<1>1. NodeSpec[n].cpu_count * NodeSpec[n].thread_count \in Nat
  <2>1. NodeSpec[n].cpu_count \in Nat /\ NodeSpec[n].thread_count \in Nat
    BY NodeFields
  <2> QED
    BY <2>1, SMT
<1> QED
  BY <1>1, NothingPromised DEF Promised
=============================================================================
