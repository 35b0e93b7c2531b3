SPECIFICATION LiveSpec
CONSTANTS
  w1 = w1
  w2 = w2
  r1 = r1
  r2 = r2
  hello = hello
  raw = raw
  box = box
  list = list
  NoThread = NoThread
  Blank = hello
  List <- MCList
  Thread <- MCThread
  Writer <- MCWriter
  Mailbox <- MCMailbox
  ListOf <- MCListOf
  BoxOf <- MCBoxOf
  Text <- MCMessage
  Message <- MCMessage
  Reads <- MCReads
  NumTimes = 3
  MAX_NUM_MESSAGES = 3
  LIST_MAX_NUM_NODES = 4
INVARIANTS MailboxTypeOK MutualExclusion Bounded TestStillHolds NoLostWakeup CrashTakesThree
PROPERTIES IsBlockingQueue ServesItsCallers TestEnds
CHECK_DEADLOCK FALSE
