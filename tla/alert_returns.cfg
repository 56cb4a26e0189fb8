\* A clock of 8 ticks, two texts, up to three frames.
CONSTANTS
  BTN_DEBOUNCE_MS = 1
  BTN_LONG_MS = 2
  IDLE_CLOSE_MS = 3
  SleepTime = 4
  ClockSize = 8
  Texts = {1, 2}
  Confs <- MCConfs
  MaxPass = 1
SPECIFICATION Spec
PROPERTY HiddenUntilChanged
