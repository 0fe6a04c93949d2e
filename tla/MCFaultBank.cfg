SPECIFICATION FairSpec
CONSTANTS
  room = room
  humidity = humidity
  ac = ac
  Sensors <- MCSensors
  DirectTests <- MCDirectTests
  Indoor = room
  Ac = ac
  ClearConfirm = 1
  Budget = 2
  D5Window = 1
  MaxDivergences = 2
INVARIANTS
  IInv
PROPERTIES
  SafeHoldLatched
  ActuatorJudgedOnTrustedRoom
  EscalationCountsSubjects
  ImplementsContract
  
