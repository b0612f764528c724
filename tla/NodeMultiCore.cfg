CONSTANTS
  NodeCount = 3
  JobCount = 3
  Features = {"tpu"}
  SizeModulus = 64
  NodeSpec <- MixedNodes
  JobTables <- MixedTables
SPECIFICATION Spec
INVARIANTS
  TypeOK
  MemoryExact
  NeverOvercommitted
  PutInBounds
  ExactOnOneCore
