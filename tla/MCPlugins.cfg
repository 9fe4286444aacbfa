SPECIFICATION SuiteSpec
CONSTANTS
  Requests = {1, 2, 3}
  Life = 1
  MaxTime = 2
  Objs = {1, 2, 3, 4}
  Ids = {"a", "b", "c"}
  IdOf <- Manifests
  EditedId <- Edited
  MaxStage = 1
  MaxQuarantine = 2
  MaxUser = 2
  MaxFaults = 2
INVARIANTS  SessionsSafe
 
CHECK_DEADLOCK FALSE
