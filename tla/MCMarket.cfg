SPECIFICATION SuiteSpec
CONSTANTS
  Credentials = {"a", "b"}
  Requests = {1, 2}
  MaxOwners = 5
  Orders = {1, 2}
  MaxEpoch = 2
  MaxStarts = 1
  MaxFails = 1
  Keys <- ChartKeys
  Switches <- ChartKeys
  Bars <- Arrivals
  Jobs = {1, 2}
  Display = 2
  Quotes = {1, 2}
  Rates = {0, 1, 2}
  MaxBars = 2
  CompactAt = 9
  MaxRevision = 3
  Saves = {1, 2}
  Wanted <- Workspaces
INVARIANTS CandlesSurvive ChartCurrent OrdersAnnounced AlarmsOnce
CHECK_DEADLOCK FALSE
