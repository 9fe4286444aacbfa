SPECIFICATION Spec
CONSTANTS
  Absent = Absent
  Damaged = Damaged
  open = open
  reduce = reduce
  Ids = {o1, o2, o3}
  Requests <- MCRequests
  ReduceOnly <- MCReduceOnly
SYMMETRY Symmetry
INVARIANTS
  TypeOK
  AtMostOneOrder
  IntentOutlivesSend
  JournalTruthful
  
  ExposureBound
PROPERTIES
  RecordNeverRegresses
CHECK_DEADLOCK FALSE
