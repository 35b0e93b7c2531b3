SPECIFICATION Spec
CONSTANTS
  LIST_MAX_NUM_HEADS = 2
  LIST_MAX_NUM_NODES = 4
  NoItem = NoItem
  sender = sender
  display = display
  hostMsg = hostMsg
  remoteMsg = remoteMsg
  a = a
  b = b
  c = c
  Thread <- MCThread
  Mutex <- MCMutex
  MutexOf <- TwoMutexes
  Stored <- MCStored
INVARIANTS FreedOnce
CHECK_DEADLOCK FALSE
