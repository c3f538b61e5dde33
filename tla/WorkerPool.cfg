\* A pool of one to two workers and the three threads it may create.
SPECIFICATION FairSpec
CONSTANTS
  MinWorkers = 1
  MaxWorkers = 2
  ScaleUpThreshold = 1
  NodeCounts = {3, 20, 60}
  MaxThreads = 3
  MaxDepth = 2
INVARIANT PoolInv
PROPERTY ThreadsServe
CHECK_DEADLOCK FALSE
