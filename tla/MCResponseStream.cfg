\* Three graphs, two responses that share sources.
SPECIFICATION Spec
CONSTANTS
  Nodes <- MCNodes
  Handles <- MCHandles
  Branches = {"b"}
  Root = "a"
  Links <- MCLinks
  NoHandle = "no-handle"
  Graphs <- MCGraphs
  Responses <- MCResponses
  Containers = {}
  Assigners <- MCAssigners
  Template <- MCTemplate
  Streaming = {"b", "c"}
  Failing = {"b", "d"}
  FailHandle = "fail-branch"
  MaxSegments = 3
  MaxChunks = 3
  MaxRestores = 1
INVARIANTS Inv ShownInOrder NothingHeldBack AllShown
CHECK_DEADLOCK FALSE
