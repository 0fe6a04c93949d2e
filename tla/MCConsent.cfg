CONSTANTS
  r1 = r1
  r2 = r2
  chat = chat
  bookings = bookings
  Requests <- MCRequests
  Pages <- MCPages
  Cards <- MCCards
  Shows <- MCShows
  WorkQueue = 1
  Plans <- MCPlans
  Subjects <- MCSubjects
  Days = {1, 2}
  NoEntry = NoEntry
  MaxEvents = 3
  Entries0 <- MCEntries0
  Additions <- MCAdditions
  Taps = 2
  Elsewhere = 1
SPECIFICATION AskSpec
INVARIANTS
  ConsentIsKept
  CalendarIsKept
PROPERTIES
  AskingEnds
CHECK_DEADLOCK FALSE
