\* Sequence numbers that are no opcode and wrap within the run; two attempts a
\* send; the port closes at two failed sends in a row.  Four sends and one button
\* press, or two sends and two.
CONSTANTS
  SeqSpace = 3
  FirstSeq = 0
  MaxAttempts = 2
  MaxFails = 2
  InboxCap = 64
  CursorX = 1
  Events <- MCEvents
  MaxSends = 4
  MaxEvents = 2
  MaxWork = 6
  MaxFaults = 1
SPECIFICATION Spec
INVARIANTS TypeOK EventsAccounted NoPhantomEvent
PROPERTIES EventsReported ImplementsDelivery SendsReturn
CHECK_DEADLOCK FALSE
