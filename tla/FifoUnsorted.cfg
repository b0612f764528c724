CONSTANTS
  NodeCount = 2
  JobCount = 3
  Features = {"tpu"}
  SizeModulus = 64
  NodeSpec <- TwoNodes
  Datasets <- UnsortedDatasets
SPECIFICATION Spec
INVARIANT ReleasedOnTime
