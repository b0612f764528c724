CONSTANTS
  W32 = 2048
  W64 = 65536
  RandMax = 1023
  Draws <- LevelDraws
  CsimWorlds <- CsimInputs
  PipelineWorlds <- PipelineInputs
SPECIFICATION Spec
INVARIANTS
  TypeOK
  TimesDistinct
  EachLineOnce
  LineOrderKept
  SortedAfterEarliestFirst
  RegistryFits
  RegistryIsFile
  QueueSortedBehindHead
  SoundInputsEndWell
  ReleasedOnce
  LinesInBounds
  SortedPipelineFits
PROPERTIES
  NeverReorders
  OnlyAskedFileTouched
