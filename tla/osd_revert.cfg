\* One press, and nothing goes wrong.
CONSTANTS
  Steps <- MCSteps
  Default <- MCDefault
  SLEEP_SECS <- MCSecs
  Edits <- MCEdits
  MaxPresses = 1
  MaxFaults = 0
SPECIFICATION Spec
PROPERTY AppliedLocally
