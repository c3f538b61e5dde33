\* Three machines side by side.  Lists of up to three items, two threads: the third
\* item waits.  A loop of two inner nodes, three rounds, one retry.  Two nodes that
\* ask, in parallel branches: a resumption for one makes the other look again.
SPECIFICATION Spec3
CONSTANTS
  MaxItems = 3
  ParallelNums = 2
  Modes = {"terminated", "continue-on-error", "remove-abnormal-output"}
  Inner = {"x", "y"}
  LoopCount = 3
  MaxAttempts = 2
  Askers = {"h1", "h2"}
INVARIANTS ContainersInv PlacesKept UsageOfEveryChild
PROPERTIES IterationEnds AnswerIsSeen
CHECK_DEADLOCK FALSE
