SPECIFICATION BothSpec
CONSTANTS
  room = room
  ac = ac
  Sensors <- MCSensors
  DirectTests <- MCDirectTests
  Indoor = room
  Ac = ac
  Judged <- MCDirectOnly
  MaxRaises = 2
  MaxResets = 1
  MaxDeaths = 1
  FaultIds <- MCFaultIds
  KeyOf <- MCKeyOf
  Subjects <- MCSubjects
  Kept = 3
  Plots <- MCPlots
  Never = Never
INVARIANTS
  ThreadsAgree
  
PROPERTIES
  ThreadsSettle
  EveryFaultIsExplained
CHECK_DEADLOCK FALSE
