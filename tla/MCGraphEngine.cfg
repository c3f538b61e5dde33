CONSTANTS
  Nodes <- MCNodes
  Handles <- MCHandles
  Branches = {"b"}
  Root = "a"
  Links <- MCLinks
  NoHandle = NoHandle
  Graphs <- MCGraphs
  Strategy <- ByGraph
  MaxRetries <- OneRetry
  Faulty = {"b", "c"}
  Pausers = {"c"}
  FailHandle = "fail-branch"
  Workers = {w1, w2}
  MaxCommands = 1
  StepLimits <- MCStepLimits
  NoLimit = NoLimit
  MaxRuns = 3
SPECIFICATION FairSpec
INVARIANTS Inv PausedIsResumable SuccessIsComplete
PROPERTIES RunEnds PauseIsReported
