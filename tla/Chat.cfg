SPECIFICATION MCSpec
CONSTANTS
  Bang = Bang
  RawBang = RawBang
  Junk = Junk
  Blank = Blank
  hi = hi
  Line <- MCLine
  Datagram <- MCDatagram
  Message <- MCMessage
  Reads <- MCReads
  MaxTyped = 2
  MaxArrived = 2
INVARIANTS ClosingWasAsked ShownWasTyped
CHECK_DEADLOCK FALSE
