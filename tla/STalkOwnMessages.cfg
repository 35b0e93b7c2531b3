SPECIFICATION Spec
CONSTANTS
  reader = reader
  sender = sender
  display = display
  receiver = receiver
  hostMsg = hostMsg
  remoteMsg = remoteMsg
  Bang = Bang
  RawBang = RawBang
  Junk = Junk
  Blank = Blank
  NoThread = NoThread
  hi = hi
  yo = yo
  hey = hey
  list = list
  Thread <- MCThread
  Mailbox <- MCMailbox
  List <- MCList
  ListOf <- MCListOf
  Line <- MCLine
  Datagram <- MCDatagram
  Message <- MCMessage
  Reads <- MCReads
  MAX_NUM_MESSAGES = 1
  LIST_MAX_NUM_NODES = 10
  MaxTyped = 1
  MaxArrived = 0
INVARIANTS OwnMessagesNotShown
CHECK_DEADLOCK FALSE
