CONSTANTS
  MaxEvents = 3
  MaxFaults = 1
  QueueCap = 1
  WireCap = 1
  Polls <- MCPolls
  Budgets <- MCBudgets
  None = None
  Scenes <- MCScenes
  Plans <- MCPlans
  HalfDoor = 9
  LegTicks = 2
  MaxOrders = 2
  MaxWire = 1
  MaxLapses = 1
  Unseen = Unseen
SPECIFICATION WatchSpec
INVARIANTS
  
  BoardIsTrue
  
  HouseIsTrue

  
CHECK_DEADLOCK FALSE
