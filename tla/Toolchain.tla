----------------------------- MODULE Toolchain -----------------------------
(***************************************************************************)
(* csim and what feeds it.  The dataset of jobs is a file of the user's    *)
(* or comes from the generator, through sort -n as in the repository's     *)
(* README.  sort is not part of the repository: what is asked of it is an  *)
(* order by moment; it breaks ties by the text of the lines, so by         *)
(* nothing that is modelled.                                               *)
(***************************************************************************)
EXTENDS Program, Generator

\* What the user has and types: [arguments, job_file, node_file], and, when
\* the generator is run first, [argv, disk, sorted] instead of job_file.
CONSTANTS CsimWorlds, PipelineWorlds

ASSUME WorldsAssumption ==
  /\ \A w \in CsimWorlds : w.job_file \in [openable : BOOLEAN, lines : Seq(JobLine)]
  /\ \A w \in PipelineWorlds :
       /\ w.argv \in Seq(Word)
       /\ \A name \in DOMAIN w.disk : w.disk[name] \in {"absent", "old", "locked"}
       /\ w.sorted \in BOOLEAN
  /\ \A w \in CsimWorlds \cup PipelineWorlds :
       w.node_file \in [openable : BOOLEAN, lines : Seq(NetworkLine)]

VARIABLE sorted   \* the pipeline has sort -n in it

vars == <<programVars, generatorVars, sorted>>

Init ==
  /\ ProgramInit
  /\ GeneratorInit
  /\ \/ \E w \in CsimWorlds :
          /\ arguments = w.arguments
          /\ job_file = w.job_file
          /\ node_file = w.node_file
          /\ argv = <<>> /\ disk = <<>> /\ sorted = FALSE
          /\ pc = "main" /\ gpc = "idle"
     \/ \E w \in PipelineWorlds :
          /\ arguments = w.arguments
          /\ job_file = [openable |-> FALSE, lines |-> <<>>]
          /\ node_file = w.node_file
          /\ argv = w.argv /\ disk = w.disk /\ sorted = w.sorted
          /\ pc = "shell" /\ gpc = "args"

\* What the loader reads of the lines, in the order in which they were
\* written or in one that is sorted by moment.
JobLines(order) ==
  [i \in DOMAIN lines |->
     [moment   |-> lines[order[i]].moment,
      priority |-> lines[order[i]].field["--priority"]]]

Orders ==
  {order \in [DOMAIN lines -> DOMAIN lines] :
     /\ IsInjective(order)
     /\ IF sorted
          THEN \A i, k \in DOMAIN lines :
                 i < k => lines[order[i]].moment <= lines[order[k]].moment
          ELSE \A i \in DOMAIN lines : order[i] = i}

\* The generator has ended well: csim is called with what it wrote.
Feed ==
  /\ pc = "shell" /\ gpc = "done"
  /\ \E order \in Orders :
       job_file' = [openable |-> TRUE, lines |-> JobLines(order)]
  /\ Goto("main")
  /\ UNCHANGED <<arguments, node_file, unset, sequenceVars, networkVars,
                 roundRobinVars, destroyVars>>

\* The process is gone, or was never started.
Ended ==
  /\ pc \in {"exit", "crashed"} \/ gpc \in {"failed", "crashed"}
  /\ UNCHANGED vars

Next ==
  \/ GeneratorNext /\ UNCHANGED <<programVars, sorted>>
  \/ Feed          /\ UNCHANGED <<generatorVars, sorted>>
  \/ ProgramStep   /\ UNCHANGED <<generatorVars, sorted>>
  \/ Ended

Spec == Init /\ [][Next]_vars

-----------------------------------------------------------------------------
TypeOK ==
  /\ ProgramTypeOK
  /\ GeneratorTypeOK
  /\ sorted \in BOOLEAN

\* The pipeline of the README gives csim what its simulation relies on: every
\* job asked for with -c is in the list of moments, the list is sorted, and no
\* moment is at the finish time or after it, whatever was drawn.
SortedPipelineFits ==
  pc = "simulate" /\ gpc = "done" /\ sorted =>
    /\ \A p, q \in Position : p < q => job_sequence[p].time < job_sequence[q].time
    /\ \A p \in Position : job_sequence[p].time < number["-t"]
    /\ UNION {ToSet(job_sequence[p].jobs) : p \in Position} = 1..number["-c"]
=============================================================================
