SPECIFICATION Spec
CONSTANTS
  Plans <- BothPlans
  NTargets = 3
  Weight <- Weights
  MaxPoll = 2
  Outcomes = {"P", "F"}
INVARIANTS Partition DepsRespected
PROPERTIES EveryJobEnds InterruptEnds
