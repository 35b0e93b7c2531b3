SPECIFICATION EndSpec
CONSTANTS
  LIST_MAX_NUM_HEADS = 2
  LIST_MAX_NUM_NODES = 4
  NoItem = NoItem
  x = x
  y = y
  hostMsg = hostMsg
  remoteMsg = remoteMsg
  Item <- MCItem
  Owner <- MCOwner
  Ops <- AllOps
PROPERTIES InsertBeforeAsPromised
CHECK_DEADLOCK FALSE
