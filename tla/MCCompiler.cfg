CONSTANTS
  Tiers = {"types", "functions", "words"}
  Pools <- MCPools
  Universe <- MCUniverse
  MaxDepth = 2
  Avoided <- MCAvoided
  Heap <- MCHeap
  Fuel = 40
  Menus <- MCMenus
  Graphs <- MCGraphs
  Programs <- MCPrograms
  Inputs <- MCInputs
  Values <- MCValues
  Objects <- MCObjects
  MaxInt = 30
SPECIFICATION Spec
INVARIANTS
  TypeCoversValues
  ContainsIsSound
  OutcomeKept
  OptimizeSettles
  EdgesFollowCode
  InferredTypesHold
  EscapeSound
  ThrowsAsWritten
  WordMeansValue
  InstructionMatchesBif
PROPERTIES
  ChangesReported
CHECK_DEADLOCK FALSE
