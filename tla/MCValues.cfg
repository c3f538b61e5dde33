SPECIFICATION Spec
CONSTANTS
  Assigners <- TheAssigners
  Programs <- ThePrograms
  Nodes <- TheNodes
  MaxCount = 2
  MaxPools = 3
INVARIANTS ValuesAreTyped PoolIsKept SnapshotsRestore BranchesAndLists RequestsAndTexts
CHECK_DEADLOCK FALSE
