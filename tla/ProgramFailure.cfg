CONSTANTS
  W32 = 2048
  W64 = 65536
  RandMax = 1023
  Draws <- LevelDraws
  CsimWorlds <- CsimInputs
  PipelineWorlds <- NoWorlds
SPECIFICATION Spec
INVARIANT FailureIsReported
