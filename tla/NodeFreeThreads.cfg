CONSTANTS
  NodeCount = 2
  JobCount = 3
  Features = {"tpu"}
  SizeModulus = 64
  NodeSpec <- MultiCoreNodes
  JobTables <- MCJobTables
SPECIFICATION Spec
INVARIANT FreeThreadsExact
