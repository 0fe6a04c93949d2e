SPECIFICATION PartSpec
CONSTANTS
  room = room
  ac = ac
  Sensors <- MCSensors
  DirectTests <- MCDirectTests
  Indoor = room
  Ac = ac
  ClearConfirm = 2
  Budget = 4
  D5Window = 0
  MaxDivergences = 0
PROPERTIES
  FaultsEnd
