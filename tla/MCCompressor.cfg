SPECIFICATION ControlSpec
CONSTANTS
  MinOff = 12
  MinInterval = 2
  Late = 2
  Lossy = FALSE
  ControllerMinOff = 12
  Reassert = 4
  ExcitationTicks = 18
  HalfCycle = 3
  Modes <- MCAllModes
  MaxRestarts = 1
INVARIANTS
  SafeHoldStops
PROPERTIES
  StopsPromptly
