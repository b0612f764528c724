----------------------------- MODULE Generator -----------------------------
(***************************************************************************)
(* The job dataset generator (job_dataset_generator/main.c): its options   *)
(* are taken one after the other, the file is opened, and one line of      *)
(* drawn fields is written for every job.  The words of the command line   *)
(* are [text, value]: what a word says, and what atoll makes of it.        *)
(***************************************************************************)
EXTENDS Integers, Sequences

CONSTANTS
  W32, W64,   \* 2^32 and 2^64
  RandMax,    \* RAND_MAX
  Draws       \* what rand may answer, field by field, for one line

RangeOptions  ==
  {"--exec-time", "--wait-time", "--mem", "--cpu", "--thread", "--priority"}
NumberOptions == {"-c", "-t", "--time-var"}
FeatureFlags  == {"--fcpu-vec", "--fgpu", "--fnpu", "--ftpu", "--ffpga", "--fasic"}
Flags         == {"-r", "--fnot-rand", "--stdout"} \cup FeatureFlags
DrawnFields   == RangeOptions \cup {"-t", "--time-var"}
Width(option) == IF option \in {"--exec-time", "--wait-time"} THEN W64 ELSE W32

ASSUME GeneratorAssumption ==
  /\ W32 \in Nat \ {0} /\ W64 \in Nat \ {0} /\ RandMax \in Nat
  /\ 1024 < W32 /\ RandMax < W32 /\ W32 <= W64
  /\ Draws \subseteq [DrawnFields -> 0..RandMax]

\* What a word says, and the number that atoll makes of it.
Word == [text : STRING, value : Int]

VARIABLES
  argv,           \* the words behind the program's name
  word,           \* the next one to be taken
  flags,          \* the flags taken so far; the p_ variables they set
  number, range,  \* the p_ variables of the other options
  out_file_name,  \* p_out_file_name
  disk,           \* "absent", "old", "locked", "truncated" or "written", by name
  lines,          \* what was printed
  gpc             \* where the generator is; "idle" if it is not used

optionVars    == <<word, flags, number, range, out_file_name>>
generatorVars == <<argv, optionVars, disk, lines, gpc>>

\* The initial values of the p_ variables.
DefaultNumber(o) ==
  IF o = "-c" THEN 20 ELSE IF o = "-t" THEN 40 ELSE 5

DefaultRange(o) ==
  IF      o = "--exec-time" THEN [min |-> 5,  max |-> 20]
  ELSE IF o = "--wait-time" THEN [min |-> 10, max |-> 20]
  ELSE IF o = "--mem"       THEN [min |-> 32, max |-> 1024]
  ELSE IF o = "--priority"  THEN [min |-> 9,  max |-> 0]
  ELSE                           [min |-> 1,  max |-> 64]

GeneratorInit ==
  /\ word = 1
  /\ flags = {}
  /\ number = [o \in NumberOptions |-> DefaultNumber(o)]
  /\ range = [o \in RangeOptions |-> DefaultRange(o)]
  /\ out_file_name = "jobs"
  /\ lines = <<>>

-----------------------------------------------------------------------------
(***************************************************************************)
(* parse_args and interpret                                                *)
(***************************************************************************)
Option     == argv[word].text
Has(n)     == word + n <= Len(argv)
Operand(n) == argv[word + n]

ArgsFrame == UNCHANGED <<argv, disk, lines>>

TakeFlag ==
  /\ Option \in Flags
  /\ flags' = flags \cup {Option}
  /\ word' = word + 1
  /\ UNCHANGED <<number, range, out_file_name, gpc>>

TakeFileName ==
  /\ Option = "-o" /\ Has(1)
  /\ out_file_name' = Operand(1).text
  /\ word' = word + 2
  /\ UNCHANGED <<flags, number, range, gpc>>

\* Whatever stands there is taken, an option too: it counts as 0.
TakeNumber ==
  /\ Option \in NumberOptions /\ Has(1)
  /\ number' = [number EXCEPT ![Option] = Operand(1).value % W64]
  /\ word' = word + 2
  /\ UNCHANGED <<flags, range, out_file_name, gpc>>

TakeRange ==
  /\ Option \in RangeOptions /\ Has(2)
  /\ range' = [range EXCEPT ![Option] =
       [min |-> Operand(1).value % Width(Option), max |-> Operand(2).value % Width(Option)]]
  /\ word' = word + 3
  /\ UNCHANGED <<flags, number, out_file_name, gpc>>

\* Only the first of the two bounds is looked for: atoll(NULL).
SecondBoundMissing ==
  /\ Option \in RangeOptions /\ Has(1) /\ ~Has(2)
  /\ gpc' = "crashed"
  /\ UNCHANGED optionVars

Misunderstood ==
  /\ \/ Option \notin Flags \cup NumberOptions \cup RangeOptions \cup {"-o"}
     \/ Option \notin Flags /\ ~Has(1)
  /\ gpc' = "failed"
  /\ UNCHANGED optionVars

Interpret ==
  /\ gpc = "args" /\ word <= Len(argv)
  /\ \/ TakeFlag \/ TakeFileName \/ TakeNumber \/ TakeRange
     \/ SecondBoundMissing \/ Misunderstood
  /\ ArgsFrame

-----------------------------------------------------------------------------
(***************************************************************************)
(* main                                                                    *)
(***************************************************************************)
OpenFrame == UNCHANGED <<argv, optionVars, lines>>

\* Mutant: an existing file is opened without being asked to.
OpenOutputAlways ==
  /\ gpc = "args" /\ word > Len(argv)
  /\ IF "--stdout" \in flags
       THEN gpc' = "write" /\ UNCHANGED disk
     ELSE IF disk[out_file_name] = "locked"
       THEN gpc' = "failed" /\ UNCHANGED disk
       ELSE gpc' = "write" /\ disk' = [disk EXCEPT ![out_file_name] = "truncated"]
  /\ OpenFrame

\* fopen with "wx" refuses a file that exists, with "w" it empties it.
OpenOutput ==
  /\ gpc = "args" /\ word > Len(argv)
  /\ IF "--stdout" \in flags
       THEN gpc' = "write" /\ UNCHANGED disk
     ELSE IF \/ disk[out_file_name] = "locked"
             \/ disk[out_file_name] # "absent" /\ "-r" \notin flags
       THEN gpc' = "failed" /\ UNCHANGED disk
       ELSE gpc' = "write" /\ disk' = [disk EXCEPT ![out_file_name] = "truncated"]
  /\ OpenFrame

\* The priority's bounds are subtracted the other way round.
Base(o)    == IF o = "--priority" THEN range[o].max ELSE range[o].min
Top(o)     == IF o = "--priority" THEN range[o].min ELSE range[o].max
Modulus(o) == (Top(o) - Base(o)) % Width(o)

\* Mutant: the upper bound is meant to be included.
DrawnInclusive(o, rand) == (((rand % (Modulus(o) + 1)) + Base(o)) % Width(o)) % W32

\* %u prints the lower half of a long.
Drawn(o, rand) == (((rand % Modulus(o)) + Base(o)) % Width(o)) % W32

DividesByZero ==
  \/ number["-t"] = 0 \/ number["--time-var"] = 0
  \/ \E o \in RangeOptions : Modulus(o) = 0

Allowed == {"--fcpu"} \cup (flags \cap FeatureFlags)

FeatureSets ==
  IF "--fnot-rand" \in flags THEN {Allowed}
  ELSE {{"--fcpu"} \cup more : more \in SUBSET Allowed}

\* The arguments of fprintf, without the name and max_exec_time, which is 0.
Line(draw, features) ==
  [moment   |-> (draw["-t"] % number["-t"]) % W32,
   field    |-> [o \in RangeOptions |-> Drawn(o, draw[o])],
   time_var |-> (draw["--time-var"] % number["--time-var"]) % W32,
   features |-> features]

WriteLine ==
  /\ gpc = "write"
  /\ Len(lines) < number["-c"]
  /\ ~DividesByZero
  /\ \E draw \in Draws, features \in FeatureSets :
       lines' = Append(lines, Line(draw, features))
  /\ UNCHANGED <<argv, optionVars, disk, gpc>>

\* An empty range, or a limit of 0, is divided by; the file is empty by then.
EmptyRange ==
  /\ gpc = "write"
  /\ Len(lines) < number["-c"]
  /\ DividesByZero
  /\ gpc' = "crashed"
  /\ UNCHANGED <<argv, optionVars, disk, lines>>

CloseOutput ==
  /\ gpc = "write"
  /\ Len(lines) = number["-c"]
  /\ gpc' = "done"
  /\ disk' = IF "--stdout" \in flags THEN disk
             ELSE [disk EXCEPT ![out_file_name] = "written"]
  /\ UNCHANGED <<argv, optionVars, lines>>

GeneratorNext == Interpret \/ OpenOutput \/ WriteLine \/ EmptyRange \/ CloseOutput

-----------------------------------------------------------------------------
GeneratorTypeOK ==
  /\ argv \in Seq(Word)
  /\ word \in Nat \ {0}
  /\ flags \subseteq Flags
  /\ number \in [NumberOptions -> Nat]
  /\ range \in [RangeOptions -> [min : Nat, max : Nat]]
  /\ \A o \in RangeOptions : range[o].min < Width(o) /\ range[o].max < Width(o)
  /\ \A name \in DOMAIN disk :
       disk[name] \in {"absent", "old", "locked", "truncated", "written"}
  /\ lines \in Seq([moment : Nat, field : [RangeOptions -> Nat], time_var : Nat,
                    features : SUBSET (FeatureFlags \cup {"--fcpu"})])
  /\ gpc \in {"idle", "args", "write", "done", "failed", "crashed"}

\* The values of an option lie between its two bounds, the upper one excluded,
\* when they are given in the order in which the code subtracts them and fit
\* the 32 bits that %u prints; and every moment is before the finish time
\* (main.c:83-91).  Unsigned wrapping never shows there.  Every job asks for
\* the plain CPU and for no feature that was not typed, and with --fnot-rand
\* for all of those.
LinesInBounds ==
  \A k \in DOMAIN lines :
    /\ lines[k].moment < number["-t"]
    /\ \A o \in RangeOptions :
         Base(o) < Top(o) /\ Top(o) <= W32
           => Base(o) <= lines[k].field[o] /\ lines[k].field[o] < Top(o)
    /\ "--fcpu" \in lines[k].features
    /\ lines[k].features \subseteq Allowed
    /\ "--fnot-rand" \in flags => lines[k].features = Allowed

\* A file that was there is emptied only when the user typed -r, and no file
\* is touched but one the user named, or the default one (main.c:67-69, 258).
\* The options may come in any order and more than once.
OnlyAskedFileTouched ==
  [][\A name \in DOMAIN disk : disk'[name] # disk[name] =>
       /\ disk[name] = "old" => \E k \in DOMAIN argv : argv[k].text = "-r"
       /\ \/ name = "jobs"
          \/ \E k \in 2..Len(argv) : argv[k].text = name /\ argv[k - 1].text = "-o"]_generatorVars
=============================================================================
