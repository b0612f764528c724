---------------------------- MODULE MCToolchain ----------------------------
(***************************************************************************)
(* Instances of csim's loading, round-robin and destroying, and of the     *)
(* generator in front of it: a family of inputs for each question.         *)
(***************************************************************************)
EXTENDS Toolchain

Call(mode)  == [complete |-> TRUE, mode |-> mode]
File(ls)    == [openable |-> TRUE, lines |-> ls]
Missing     == [openable |-> FALSE, lines |-> <<>>]
BusOf(n)    == [kind |-> "bus", nodes |-> n, equal_delays |-> FALSE]
FlatBus(n)  == [kind |-> "bus", nodes |-> n, equal_delays |-> TRUE]
PeerToPeer  == [kind |-> "p2p"]
NodeLine    == [kind |-> "other"]
Bare        == [kind |-> "bare"]
World(call, jobs, nodes) == [arguments |-> call, job_file |-> jobs, node_file |-> nodes]

TwoBuses == File(<<BusOf(1), NodeLine, BusOf(2), NodeLine, NodeLine>>)

\* Job datasets of five lines over four moments, and of four lines of the
\* first moment with every mix of three priorities.
JobFile(moments, priorities) ==
  File([i \in DOMAIN moments |-> [moment |-> moments[i], priority |-> priorities[i]]])
FiveLines == {JobFile(m, [i \in 1..5 |-> 0]) : m \in [1..5 -> 0..3]}
FourEqual == {JobFile([i \in 1..4 |-> 0], p) : p \in [1..4 -> 0..2]}
TwoLines  == JobFile(<<0, 1>>, <<0, 0>>)

\* Every cluster dataset of up to three lines, those of four lines whose buses
\* have nodes, and longer ones in which the lines of a second bus count.
Clusters ==
  LET kinds == {BusOf(0), BusOf(1), BusOf(2), FlatBus(1), PeerToPeer, NodeLine, Bare}
  IN  {File(ls) : ls \in UNION {[1..n -> kinds] : n \in 0..3}}
LongClusters ==
  {File(ls) : ls \in [1..4 -> {BusOf(1), BusOf(2), PeerToPeer, NodeLine, Bare}]} \cup
  {TwoBuses, Missing,
   File(<<BusOf(2), NodeLine, NodeLine, PeerToPeer, BusOf(1), NodeLine>>),
   File(<<BusOf(2), NodeLine, NodeLine, BusOf(1), PeerToPeer, PeerToPeer>>),
   File(<<BusOf(2), NodeLine, NodeLine, BusOf(2), NodeLine, NodeLine, BusOf(1), NodeLine>>)}

CsimInputs ==
  {World(Call("fifo"), jobs, TwoBuses) : jobs \in FiveLines} \cup
  {World(Call("round_robin"), jobs, TwoBuses) : jobs \in FourEqual} \cup
  {World(Call(mode), TwoLines, nodes) : mode \in Modes, nodes \in Clusters} \cup
  {World(Call("priority"), TwoLines, nodes) : nodes \in LongClusters} \cup
  {World(Call(mode), jobs, nodes) : mode \in Modes \cup {"sjf"},
                                    jobs \in {Missing, File(<<>>)},
                                    nodes \in {TwoBuses, File(<<>>), Missing}} \cup
  {World([complete |-> FALSE, mode |-> "fifo"], Missing, Missing)}

NoWorlds == {}

-----------------------------------------------------------------------------
Texts   == "-1" :> -1 @@ "0" :> 0 @@ "1" :> 1 @@ "2" :> 2 @@ "3" :> 3 @@ "4" :> 4
             @@ "9" :> 9 @@ "2040" :> 2040 @@ "2050" :> 2050
Words(texts) ==
  [i \in DOMAIN texts |->
     [text  |-> texts[i],
      value |-> IF texts[i] \in DOMAIN Texts THEN Texts[texts[i]] ELSE 0]]

\* The small option lists of a user: what is counted, where it goes, what is
\* drawn, and the features; and lists that are cut short or misspelt.
Counts  == {<<"-c", "2">>, <<"-c", "3", "-t", "4">>, <<"-c", "1", "-t", "3">>}
Outputs == {<<"--stdout">>, <<>>, <<"-r">>, <<"-o", "mine">>, <<"-r", "-o", "mine">>,
            <<"-o", "mine", "-o", "jobs">>, <<"-o", "-r">>}
Drawing == {<<>>, <<"--cpu", "1", "4">>, <<"--mem", "3", "3">>, <<"--thread", "4", "1">>,
            <<"--time-var", "0">>, <<"-t", "0">>, <<"--priority", "1", "9">>,
            <<"--priority", "4", "2">>, <<"--exec-time", "2040", "2050">>,
            <<"--wait-time", "-1", "2">>, <<"--mem", "-1", "2">>}
Broken  == {<<"-c">>, <<"-o">>, <<"--cpu", "1">>, <<"--cpu">>, <<"--help">>,
            <<"-c", "--stdout">>, <<"-c", "0">>}
Asking  == {<<>>, <<"--fgpu">>, <<"--fgpu", "--fnot-rand">>}

Disks ==
  {"jobs" :> a @@ "mine" :> b @@ "-r" :> "absent" :
     a \in {"absent", "old"}, b \in {"old", "locked"}}

Pipe(words, disk0, sort) ==
  [arguments |-> Call("fifo"), node_file |-> TwoBuses,
   argv |-> Words(words), disk |-> disk0, sorted |-> sort]

AnyDisk == "jobs" :> "absent" @@ "mine" :> "absent" @@ "-r" :> "absent"

PipelineInputs ==
  {Pipe(<<"-c", "1">> \o out \o draw, d, FALSE) :
     out \in Outputs, draw \in {<<>>, <<"--cpu", "1", "1">>}, d \in Disks} \cup
  {Pipe(count \o draw \o <<"--stdout">>, AnyDisk, TRUE) :
     count \in Counts, draw \in Drawing} \cup
  {Pipe(<<"-c", "2", "--stdout">> \o ask, AnyDisk, FALSE) : ask \in Asking} \cup
  {Pipe(<<"-r">> \o broken, AnyDisk, FALSE) : broken \in Broken}

\* All the fields of a line are drawn alike, from the ends of rand's range and
\* from its middle.
LevelDraws == {[f \in DrawnFields |-> r] : r \in {0, 1, 2, 3, 1022, 1023}}
=============================================================================
