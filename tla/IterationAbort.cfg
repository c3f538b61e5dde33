\* A child aborts while the engine of another is being created.
SPECIFICATION Spec3
CONSTANTS
  MaxItems = 3
  ParallelNums = 2
  Modes = {"terminated", "continue-on-error", "remove-abnormal-output"}
  Inner = {"x", "y"}
  LoopCount = 3
  MaxAttempts = 2
  Askers = {"h1", "h2"}
INVARIANT AbortReachesAll
CHECK_DEADLOCK FALSE
