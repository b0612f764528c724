CONSTANTS
  NodeCount = 2
  JobCount = 3
  Features = {"tpu"}
  SizeModulus = 64
  NodeSpec <- TwoNodes
  Datasets <- FifoDatasets
SPECIFICATION FairSpec
INVARIANTS
  TypeOK
  NoZombie
  CountsExact
  WaitBound
  WaitIsAge
  ReleasedOnTime
  StalledNodesAreIdle
  StallAverageDefined
  QueueIsDistributed
  NoJobLost
  WorkConserving
PROPERTIES
  NeverPreempts
  ImplementsContract
  Terminates
