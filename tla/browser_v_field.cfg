SPECIFICATION BrowserSpec
CONSTANTS
  MaxChoice = 2
  Direct = {3}
  DailyTickets = 1
  PollLimit = 1
  Days = 2
  MaxTroubles = 0
CHECK_DEADLOCK FALSE
INVARIANT
  FieldIsOfTheLastFile
