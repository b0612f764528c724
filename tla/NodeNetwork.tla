---------------------------- MODULE NodeNetwork ----------------------------
(***************************************************************************)
(* Loading the cluster dataset (node_network_from_dataset.c) and listing   *)
(* its nodes in the registry that the rest of the program uses             *)
(* (_populate_node_registry of init.c).                                    *)
(*                                                                         *)
(* The file is a sequence of lines.  What a line is depends on its first   *)
(* word only where an interconnect is expected: where a node is expected   *)
(* any line with a space in it makes a node.  A node is the number of the  *)
(* line it was made from.  il->next is never set by the code: no memory    *)
(* that was used before is handed out while the list grows, and fresh      *)
(* pages are zero.                                                         *)
(***************************************************************************)
EXTENDS Process, Sequences, SequencesExt, FiniteSets

\* "other" is any line with a space, such as a node's; "bare" has no space.
NetworkLine ==
  [kind : {"bus"}, nodes : Nat, equal_delays : BOOLEAN] \cup
  [kind : {"p2p", "other", "bare"}]

VARIABLES
  node_file,     \* the dataset: [openable, lines]
  line,          \* the line that fgets returns next
  read_lines,    \* the local of _parse_lines
  node_count,    \* cluster_t.node_count
  connections,   \* cluster_t.connections: [type, header, nodes], in order
  node_registry, \* cluster_t.node_registry
  cons,          \* the place in connections of _populate_node_registry
  registered     \* its index n: the entries it has written

networkVars == <<line, read_lines, node_count, connections, node_registry, cons, registered>>
registryVars == <<node_registry, cons, registered>>

Stray == 0   \* an entry of the registry that was never written

\* What fgets returns: the kind of the next line, or that there is none.
Kind == IF line > Len(node_file.lines) THEN "end" ELSE node_file.lines[line].kind

\* cluster_node_network_from_dataset
OpenNodes ==
  /\ pc = "open_nodes"
  /\ connections' = <<>>
  /\ node_count' = 0
  /\ read_lines' = 0
  /\ line' = 1
  /\ SetPointer("connections")
  /\ Open(node_file, "connection")
  /\ UNCHANGED <<node_file, registryVars>>

-----------------------------------------------------------------------------
(***************************************************************************)
(* The loop of _parse_lines: one interconnect a turn.  What the last turn  *)
(* read is added to node_count at the top.                                 *)
(***************************************************************************)

\* Mutant: the count is replaced, not increased.
AtTopReplacing ==
  /\ pc = "connection"
  /\ node_count' = IF read_lines = 0 THEN node_count ELSE read_lines
  /\ UNCHANGED <<node_file, registryVars, unset>>

AtTop ==
  /\ pc = "connection"
  /\ node_count' = node_count + read_lines
  /\ UNCHANGED <<node_file, registryVars, unset>>

NetworkLoaded ==
  /\ AtTop
  /\ Kind = "end"
  /\ Goto("populate")
  /\ UNCHANGED <<line, read_lines, connections>>

\* _fetch_type writes through the null pointer that strchr returns.
BareHeader ==
  /\ AtTop
  /\ Kind = "bare"
  /\ Crash
  /\ UNCHANGED <<line, read_lines, connections>>

UnknownType ==
  /\ AtTop
  /\ Kind = "other"
  /\ line' = line + 1
  /\ Fail
  /\ UNCHANGED <<read_lines, connections>>

AddInterconnectToList(type) ==
  connections' = Append(connections, [type |-> type, header |-> line, nodes |-> <<>>])

\* The switch has no case for p2p: read_lines is still that of the turn
\* before, and it decides whether this turn failed.
ReadP2P ==
  /\ AtTop
  /\ Kind = "p2p"
  /\ line' = line + 1
  /\ AddInterconnectToList("p2p")
  /\ IF read_lines = 0 THEN Fail ELSE Goto("connection")
  /\ UNCHANGED read_lines

ReadBus ==
  /\ AtTop
  /\ Kind = "bus"
  /\ line' = line + 1
  /\ AddInterconnectToList("bus")
  /\ Goto("node")
  /\ UNCHANGED read_lines

-----------------------------------------------------------------------------
(***************************************************************************)
(* The loop of _parse_bus: one node a turn.                                *)
(***************************************************************************)
Bus       == Last(connections)
Announced == node_file.lines[Bus.header].nodes
BusFrame  == UNCHANGED <<node_file, node_count, registryVars, unset>>

\* Mutant: the interconnect's line is read once more as a node.
MakeNodeFromHeader ==
  /\ pc = "node"
  /\ Len(Bus.nodes) < Announced
  /\ Kind \notin {"end", "bare"}
  /\ line' = line + 1
  /\ connections' = [connections EXCEPT ![Len(connections)].nodes = Append(@, line - 1)]
  /\ BusFrame
  /\ UNCHANGED <<pc, status, read_lines>>

MakeNode ==
  /\ pc = "node"
  /\ Len(Bus.nodes) < Announced
  /\ Kind \notin {"end", "bare"}
  /\ line' = line + 1
  /\ connections' = [connections EXCEPT ![Len(connections)].nodes = Append(@, line)]
  /\ BusFrame
  /\ UNCHANGED <<pc, status, read_lines>>

\* What fgets and strchr return is not looked at: the end of the file, or a
\* line without a space, is a null pointer.
NodeMissing ==
  /\ pc = "node"
  /\ Len(Bus.nodes) < Announced
  /\ Kind \in {"end", "bare"}
  /\ Crash
  /\ BusFrame
  /\ UNCHANGED <<line, read_lines, connections>>

\* _parse_bus returns; a bus without nodes counts as a failure.
BusRead ==
  /\ pc = "node"
  /\ Len(Bus.nodes) = Announced
  /\ read_lines' = Announced
  /\ IF Announced = 0 THEN Fail ELSE Goto("connection")
  /\ BusFrame
  /\ UNCHANGED <<line, connections>>

LoadNetwork ==
  \/ OpenNodes
  \/ NetworkLoaded \/ BareHeader \/ UnknownType \/ ReadP2P \/ ReadBus
  \/ MakeNode \/ NodeMissing \/ BusRead

-----------------------------------------------------------------------------
(***************************************************************************)
(* _populate_node_registry: room for node_count entries, then one          *)
(* interconnect a turn.                                                    *)
(***************************************************************************)
AllocateRegistry ==
  /\ pc = "populate"
  /\ node_registry' = [k \in 1..node_count |-> Stray]
  /\ cons' = 1
  /\ registered' = 0
  /\ SetPointer("node_registry")
  /\ Goto("register")
  /\ UNCHANGED <<node_file, line, read_lines, node_count, connections>>

\* The entries that a turn writes behind the first n; a p2p connection has no
\* case in the switch, and no nodes.
WrittenBehind(n, nodes) ==
  [k \in 1..node_count |-> IF k > n /\ k - n \in DOMAIN nodes THEN nodes[k - n]
                           ELSE node_registry[k]]

RegistryFrame ==
  UNCHANGED <<node_file, line, read_lines, node_count, connections, unset>>

\* Mutant: the index starts over with every interconnect.
RegisterNodesAnew ==
  /\ pc = "register"
  /\ cons <= Len(connections)
  /\ node_registry' = WrittenBehind(0, connections[cons].nodes)
  /\ registered' = Len(connections[cons].nodes)
  /\ cons' = cons + 1
  /\ UNCHANGED <<pc, status>> /\ RegistryFrame

RegisterNodes ==
  /\ pc = "register"
  /\ cons <= Len(connections)
  /\ node_registry' = WrittenBehind(registered, connections[cons].nodes)
  /\ registered' = registered + Len(connections[cons].nodes)
  /\ cons' = cons + 1
  /\ UNCHANGED <<pc, status>> /\ RegistryFrame

AllRegistered ==
  /\ pc = "register"
  /\ cons > Len(connections)
  /\ Goto("init_scheduler")
  /\ UNCHANGED registryVars /\ RegistryFrame

PopulateNodeRegistry == AllocateRegistry \/ RegisterNodes \/ AllRegistered

\* Reading an entry that was never written follows a stray pointer.
HasStrayNode == \E k \in DOMAIN node_registry : node_registry[k] = Stray

-----------------------------------------------------------------------------
NetworkTypeOK ==
  /\ node_file.openable \in BOOLEAN
  /\ \A p \in DOMAIN node_file.lines : node_file.lines[p] \in NetworkLine
  /\ line \in 1..(Len(node_file.lines) + 1)
  /\ read_lines \in Nat
  /\ node_count \in Nat
  /\ \A i \in DOMAIN connections :
       /\ connections[i].type = node_file.lines[connections[i].header].kind
       /\ connections[i].nodes \in Seq(DOMAIN node_file.lines)
  /\ node_registry \in Seq(0..Len(node_file.lines))
  /\ cons \in 1..(Len(connections) + 1)
  /\ registered \in Nat

\* The file the README describes, with buses only: every bus has as many node
\* lines behind it as it says, and nothing follows them but another bus.
WellFormed ==
  LET lines == node_file.lines
      IsBus(p) == p \in DOMAIN lines /\ lines[p].kind = "bus"
  IN  /\ lines # <<>> => IsBus(1)
      /\ \A p \in DOMAIN lines : lines[p].kind \in {"bus", "other"}
      /\ \A p \in DOMAIN lines : IsBus(p) =>
           /\ lines[p].nodes # 0
           /\ \A i \in 1..lines[p].nodes : p + i \in DOMAIN lines /\ ~IsBus(p + i)
           /\ LET after == p + lines[p].nodes + 1
              IN  after = Len(lines) + 1 \/ IsBus(after)

\* The registry never overflows: however the lines are mixed, no entry is
\* written that it has no room for (init.c:69 and init.c:81), although the
\* nodes and node_count are counted in two different loops.  Room that nobody
\* fills comes from p2p lines alone: each adds to node_count what the bus
\* before it had read (node_network_from_dataset.c:116).
RegistryFits ==
  /\ pc \in {"register", "init_scheduler"} => registered <= node_count
  /\ pc = "init_scheduler" /\ HasStrayNode
       => \E i \in DOMAIN connections : connections[i].type = "p2p"

\* A well-formed file gives exactly its nodes, in its order: the registry has
\* an entry for every node line and no other, and no entry is left unwritten.
RegistryIsFile ==
  LET nodeLines == {p \in DOMAIN node_file.lines : node_file.lines[p].kind = "other"}
  IN  WellFormed /\ pc = "init_scheduler" =>
        /\ node_count = Cardinality(nodeLines)
        /\ DOMAIN node_registry = 1..node_count
        /\ ToSet(node_registry) = nodeLines
        /\ \A a, b \in DOMAIN node_registry :
             a < b => node_registry[a] < node_registry[b]
=============================================================================
