CONSTANTS
  NodeCount = 1
  JobCount = 4
  Features = {"tpu"}
  SizeModulus = 64
  NodeSpec <- OneNode
  Datasets <- SharedMoment
SPECIFICATION Spec
INVARIANT QueueInOrder
