SPECIFICATION CarefulSpec
CONSTANTS
  LIST_MAX_NUM_HEADS = 2
  LIST_MAX_NUM_NODES = 4
  NoItem = NoItem
  x = x
  y = y
  hostMsg = hostMsg
  remoteMsg = remoteMsg
  Item <- MCItem
  Owner <- MCOwner
  Ops <- AllOps
INVARIANTS TypeOK ListsLinked NodesConserved FreeReturnsEverything
PROPERTIES ContentsFollowCalls  SearchEnds RemoveFreesCursorNode
SYMMETRY Alike
CHECK_DEADLOCK FALSE
