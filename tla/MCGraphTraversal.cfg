CONSTANTS
  N = 4
  MCBranches = {2, 3}
  Nodes <- MCNodes
  Handles <- MCHandles
  Branches <- MCBranches
  Links <- MCLinks
  Root = 1
  NoHandle = NoHandle
SPECIFICATION FairSpec
INVARIANTS Inv ClosedBetweenHandlers StopsWhenDone NothingLeftWaiting
PROPERTIES MarksAreFinal ImplementsDataflow KeepsPromise
