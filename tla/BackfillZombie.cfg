CONSTANTS
  NodeCount = 1
  JobCount = 3
  Features = {"tpu"}
  SizeModulus = 64
  NodeSpec <- OneNode
  Datasets <- ExpiringDatasets
SPECIFICATION Spec
INVARIANT NoZombie
