------------------------------- MODULE Program -------------------------------
(***************************************************************************)
(* The life of a run of csim: main, cluster_init, the simulation and       *)
(* cluster_destroy.  Loading and the registry are modules JobSequence and  *)
(* NodeNetwork, the round-robin scheduler is module RoundRobin.  What the  *)
(* other schedulers do is the subject of the Sched modules: here their     *)
(* simulation returns, one day or never, unless the loader left it         *)
(* something it cannot work with.                                          *)
(***************************************************************************)
EXTENDS RoundRobin, NodeNetwork

Modes == {"fifo", "priority", "backfill", "round_robin"}

VARIABLES
  arguments,    \* what the user typed: [complete, mode]
  cell,         \* the place in the list that is being destroyed
  freed,        \* the blocks of memory given back
  misused       \* a block was freed twice, or used after it was freed

destroyVars == <<cell, freed, misused>>
inputVars   == <<arguments, job_file, node_file>>
programVars == <<inputVars, processVars, sequenceVars, networkVars,
                 roundRobinVars, destroyVars>>

Mode == arguments.mode

\* cluster_t is not initialised; where the program begins is up to the caller.
ProgramInit ==
  /\ status = EXIT_SUCCESS
  /\ unset = Pointers
  /\ job_count = 0 /\ job_sequence = <<>>
  /\ line = 1 /\ read_lines = 0 /\ node_count = 0
  /\ connections = <<>>
  /\ node_registry = <<>> /\ cons = 1 /\ registered = 0
  /\ pending = <<>> /\ prev = <<>> /\ jlist = 1
  /\ cell = 1 /\ freed = {} /\ misused = FALSE

-----------------------------------------------------------------------------
(***************************************************************************)
(* main and cluster_init                                                   *)
(***************************************************************************)

\* check_args and get_schedule_functions; a wrong call is answered at once.
Main ==
  /\ pc = "main"
  /\ IF arguments.complete /\ Mode \in Modes
       THEN Goto("open_jobs")
       ELSE pc' = "exit" /\ status' = EXIT_FAILURE
  /\ UNCHANGED <<inputVars, unset, sequenceVars, networkVars, roundRobinVars,
                 destroyVars>>

\* cluster_init keeps the scheduler only when its init returned 0.
InitReturns(result) ==
  IF result = EXIT_SUCCESS
    THEN Goto("simulate") /\ SetPointer("scheduler")
    ELSE Fail /\ UNCHANGED unset

\* init_priority compares the nodes with each other, and returns no value:
\* what cluster_init takes for its status is up to the compiler.
InitScheduler ==
  /\ pc = "init_scheduler"
  /\ IF Mode = "round_robin" THEN InitRoundRobin ELSE UNCHANGED roundRobinVars
  /\ \/ InitReturns(EXIT_SUCCESS)
     \/ Mode = "priority" /\ InitReturns(EXIT_FAILURE)
     \/ /\ Mode = "priority" /\ node_count > 1 /\ HasStrayNode
        /\ Crash
        /\ UNCHANGED unset
  /\ UNCHANGED <<inputVars, sequenceVars, networkVars, destroyVars>>

-----------------------------------------------------------------------------
(***************************************************************************)
(* cluster_simulate                                                        *)
(***************************************************************************)

\* What the loader accepts and the simulation cannot work with: entries of the
\* registry that were never written, the n[0] of init_priority when there is
\* no node, and a bus whose two delays are equal (put_job_to_node.c:89).
EqualDelays ==
  \E i \in DOMAIN connections :
    /\ connections[i].nodes # <<>>
    /\ node_file.lines[connections[i].header].equal_delays

Unworkable ==
  \/ HasStrayNode
  \/ job_count # 0 /\ Mode = "priority" /\ node_count = 0
  \/ job_count # 0 /\ EqualDelays

Simulate ==
  /\ pc = "simulate"
  /\ \/ /\ Mode = "round_robin" /\ job_count # 0
        /\ Goto("tick")
     \/ /\ Mode # "round_robin" \/ job_count = 0
        /\ Goto("destroy_jobs")
     \/ /\ Unworkable
        /\ Crash
  /\ UNCHANGED <<inputVars, unset, sequenceVars, networkVars, roundRobinVars,
                 destroyVars>>

-----------------------------------------------------------------------------
(***************************************************************************)
(* cluster_destroy, called at the end and when cluster_init fails.  Blocks *)
(* of memory are named by what they hold.                                  *)
(***************************************************************************)
MomentBlock(p)     == <<"moment", p>>
JobBlocks(p)       == {<<"job", j>> : j \in ToSet(job_sequence[p].jobs)}
ConnectionBlock(i) == <<"connection", i>>
NodeBlocks(i)      == {<<"nodes", i>>} \cup
                      {<<"threads", n>> : n \in ToSet(connections[i].nodes)}
RegistryBlock      == <<"registry", 0>>

Free(blocks) ==
  /\ freed' = freed \cup blocks
  /\ misused' = (misused \/ blocks \cap freed # {})

DestroyFrame ==
  UNCHANGED <<inputVars, unset, sequenceVars, networkVars, roundRobinVars>>

\* Mutant: the jobs of the last moment are released with those before it too.
DestroyJobsTwice ==
  /\ pc = "destroy_jobs"
  /\ IF job_sequence = <<>>
       THEN Goto("destroy_connections") /\ UNCHANGED destroyVars
       ELSE /\ Free({MomentBlock(cell)} \cup JobBlocks(cell) \cup
                    JobBlocks(Len(job_sequence)))
            /\ IF cell < Len(job_sequence)
                 THEN cell' = cell + 1 /\ UNCHANGED <<pc, status>>
                 ELSE cell' = 1 /\ Goto("destroy_connections")
  /\ DestroyFrame

\* _destroy_job_sequence: the jobs of the last moment are not released.
DestroyJobs ==
  /\ pc = "destroy_jobs"
  /\ IF job_sequence = <<>>
       THEN Goto("destroy_connections") /\ UNCHANGED destroyVars
     ELSE IF cell < Len(job_sequence)
       THEN /\ Free({MomentBlock(cell)} \cup JobBlocks(cell))
            /\ cell' = cell + 1
            /\ UNCHANGED <<pc, status>>
       ELSE /\ Free({MomentBlock(cell)})
            /\ cell' = 1
            /\ Goto("destroy_connections")
  /\ DestroyFrame

\* A pointer that was never set is NULL by chance, or leads astray.
Unset(field, next) ==
  /\ field \in unset
  /\ Goto(next) \/ Crash
  /\ UNCHANGED destroyVars

\* _destroy_connections: nor are the nodes of the last connection.  A p2p
\* connection has no case in _destroy_connection, and no nodes.
DestroyConnections ==
  /\ pc = "destroy_connections"
  /\ \/ Unset("connections", "destroy_registry")
     \/ /\ "connections" \notin unset
        /\ IF connections = <<>>
             THEN Goto("destroy_registry") /\ UNCHANGED destroyVars
           ELSE IF cell < Len(connections)
             THEN /\ Free({ConnectionBlock(cell)} \cup
                          (IF connections[cell].type = "bus" THEN NodeBlocks(cell) ELSE {}))
                  /\ cell' = cell + 1
                  /\ UNCHANGED <<pc, status>>
             ELSE /\ Free({ConnectionBlock(cell)})
                  /\ cell' = 1
                  /\ Goto("destroy_registry")
  /\ DestroyFrame

DestroyRegistry ==
  /\ pc = "destroy_registry"
  /\ \/ Unset("node_registry", "destroy_scheduler")
     \/ /\ "node_registry" \notin unset
        /\ Free({RegistryBlock})
        /\ Goto("destroy_scheduler")
        /\ UNCHANGED cell
  /\ DestroyFrame

\* The scheduler's own destroy.  destroy_round_robin starts from the list of
\* finished jobs, which is NULL.  Then main returns.
DestroyScheduler ==
  /\ pc = "destroy_scheduler"
  /\ IF "scheduler" \in unset \/ Mode = "round_robin"
       THEN Crash
       ELSE Goto("exit")
  /\ UNCHANGED destroyVars
  /\ DestroyFrame

Destroy == DestroyJobs \/ DestroyConnections \/ DestroyRegistry \/ DestroyScheduler

ProgramStep ==
  \/ Main
  \/ LoadJobs /\ UNCHANGED <<arguments, node_file, networkVars, roundRobinVars, destroyVars>>
  \/ LoadNetwork /\ UNCHANGED <<arguments, job_file, sequenceVars, roundRobinVars, destroyVars>>
  \/ PopulateNodeRegistry /\ UNCHANGED <<arguments, job_file, sequenceVars, roundRobinVars, destroyVars>>
  \/ InitScheduler
  \/ Simulate
  \/ RunRoundRobin /\ UNCHANGED <<arguments, node_file, networkVars, destroyVars>>
  \/ Destroy

-----------------------------------------------------------------------------
Places ==
  {"shell", "main", "open_jobs", "job_line", "open_nodes", "connection", "node", "populate",
   "register", "init_scheduler", "simulate", "tick", "distribute", "schedule", "destroy_jobs",
   "destroy_connections", "destroy_registry", "destroy_scheduler", "exit", "crashed"}

ProgramTypeOK ==
  /\ pc \in Places
  /\ status \in {EXIT_SUCCESS, EXIT_FAILURE}
  /\ unset \subseteq Pointers
  /\ SequenceTypeOK
  /\ NetworkTypeOK
  /\ RoundRobinTypeOK
  /\ cell \in Nat \ {0}
  /\ misused \in BOOLEAN

\* What the README asks of a call and its two files: a scheduler that can run,
\* files that open, buses with the nodes they announce and with different
\* delays, and a node for the scheduler that looks at the first one.
Sound ==
  /\ arguments.complete
  /\ Mode \in Modes \ {"round_robin"}
  /\ job_file.openable
  /\ node_file.openable
  /\ WellFormed
  /\ \A p \in DOMAIN node_file.lines :
       node_file.lines[p].kind = "bus" => ~node_file.lines[p].equal_delays
  /\ Mode = "priority" => node_file.lines # <<>>

\* With such inputs no step of loading, of the hand-over to the scheduler or
\* of destroying follows a pointer that was not set; only the missing status
\* of init_priority (schedule_priority.c:141) can keep it from EXIT_SUCCESS.
SoundInputsEndWell ==
  Sound => /\ pc = "crashed" => Mode = "priority" /\ status = EXIT_FAILURE
           /\ pc = "exit" => status = EXIT_SUCCESS

\* cluster_destroy walks lists that it frees as it goes, after success and
\* after every failure: no block is freed twice (destroy.c:42-82), and when the
\* program returns every cell of its lists has been given back, and every job
\* and node but those of the last moment and of the last connection, which the
\* two loops leave out (destroy.c:46, 76).
ReleasedOnce ==
  /\ ~misused
  /\ pc = "exit" /\ arguments.complete /\ Mode \in Modes =>
       freed = {MomentBlock(p) : p \in Position}
          \cup {ConnectionBlock(i) : i \in DOMAIN connections}
          \cup (UNION {JobBlocks(p) : p \in Position \ {Len(job_sequence)}})
          \cup (UNION {NodeBlocks(i) : i \in {k \in DOMAIN connections :
                         k # Len(connections) /\ connections[k].type = "bus"}})
          \cup {RegistryBlock}

\* main.c:40-43 and init.c:34-54: when loading fails the user is told so and
\* the program returns EXIT_FAILURE.
FailureIsReported == status = EXIT_FAILURE => pc # "crashed"
=============================================================================
