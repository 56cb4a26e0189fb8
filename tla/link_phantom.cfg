\* Sequence numbers 18 and 19, no button press and no fault but a late reply.
CONSTANTS
  SeqSpace = 256
  FirstSeq = 18
  MaxAttempts = 2
  MaxFails = 2
  InboxCap = 64
  CursorX = 1
  Events <- MCEvents
  MaxSends = 2
  MaxEvents = 0
  MaxWork = 3
  MaxFaults = 0
SPECIFICATION Spec
INVARIANT NoPhantomEvent
CHECK_DEADLOCK FALSE
