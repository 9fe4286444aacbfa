SPECIFICATION FairSpec
CONSTANTS
  Absent = Absent
  Damaged = Damaged
  open = open
  reduce = reduce
  Ids = {o1, o2}
  Requests <- MCRequests
  ReduceOnly <- MCReduceOnly
PROPERTIES
  LockReleased
CHECK_DEADLOCK FALSE
