CONSTANTS
  NodeCount = 2
  JobCount = 4
  Features = {"tpu"}
  SizeModulus = 64
  NodeSpec <- TwoNodes
  Datasets <- Datasets4
SPECIFICATION FairSpec
INVARIANTS
  QueueIsWhole
  WorkConserving
PROPERTIES
  FoldKeepsDemand
  Terminates
