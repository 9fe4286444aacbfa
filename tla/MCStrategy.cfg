SPECIFICATION SuiteSpec
CONSTANTS
  Runs = {1, 2}
  Kinds = {"place", "protect", "cancel", "amend"}
  AccountOf <- TwoAccounts
  MaxSeq = 2
  MaxActions = 2
  MaxTotal = 2
  MaxEpoch = 1
  MaxAdmission = 2
  MaxFaults = 1
  Guests = {"a", "b"}
  MaxLife = 1
  MaxSession = 2
  MaxSerial = 6
  MaxPending = 1
INVARIANTS StrategySafe GuestsSafe
PROPERTY SpentStaysSpent
CHECK_DEADLOCK FALSE
