\* Two presses and two disturbances.
CONSTANTS
  Steps <- MCSteps
  Default <- MCDefault
  SLEEP_SECS <- MCSecs
  Edits <- MCEdits
  MaxPresses = 2
  MaxFaults = 2
SPECIFICATION Spec
INVARIANTS HostValueShown NvsKept ChoiceKept
PROPERTIES OtherSettingKept PanelFollowsConfig
