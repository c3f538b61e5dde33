CONSTANTS
  Ids <- MCIds
  Nodes <- MCNodes
  Entries = {"a"}
  RootKind <- MCRoots
  Links <- MCLinks
SPECIFICATION Spec
INVARIANT Inv
PROPERTY InitEnds
