\* One keyboard, one key, two disturbances.
CONSTANTS
  Kb = {k1}
  MaxKeys = 1
  Configs <- MCConfigs
  MaxFaults = 2
SPECIFICATION Spec
INVARIANTS TypeOK GrabOnlyInTerminal ReadsOnlyAllowed
CHECK_DEADLOCK FALSE
PROPERTIES DeadLinkEnds PanelFollowsMode HotplugGrabbed
