CONSTANTS
  None = None
  Words <- MCWords
  MaxTakes = 2
  MaxAsks = 3
  Budgets <- MCBudgets
  MaxExtras = 1
  QueueCap = 2
  RemoteKept = 1
  MaxMessages = 3
  MaxReplays = 1
  MaxRestarts = 1
  MaxKept = 2
  VoiceCap = 1
  SentKept = 2
  PageKept = 1
  Nobody = Nobody
SPECIFICATION TalkSpec
PROPERTIES
  TalkIsTrue
  
  TalksEnd
CHECK_DEADLOCK FALSE
