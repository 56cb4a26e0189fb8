\* One send, one button press.
CONSTANTS
  SeqSpace = 3
  FirstSeq = 0
  MaxAttempts = 2
  MaxFails = 2
  InboxCap = 64
  CursorX = 1
  Events <- MCEvents
  MaxSends = 1
  MaxEvents = 1
  MaxWork = 3
  MaxFaults = 1
SPECIFICATION Spec
INVARIANT NoEventDropped
CHECK_DEADLOCK FALSE
