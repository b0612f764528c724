CONSTANTS
  NodeCount = 3
  JobCount = 5
  Features = {"tpu"}
  SizeModulus = 64
  NodeSpec <- ThreeNodes
  Datasets <- SingleJobs
SPECIFICATION FairSpec
INVARIANTS
  QueueInOrder
  HeadIsServed
PROPERTIES
  Terminates
