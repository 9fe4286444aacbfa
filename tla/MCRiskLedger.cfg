CONSTANTS
  Absent = Absent
  Damaged = Damaged
  Zones <- OneZone
  Offset <- HoursAhead
  Times <- Instants
  Limits <- LimitValues
  MaxOrders = 5
SPECIFICATION Spec
INVARIANTS TypeOK OrdersStayCounted RestartKeepsCount 
PROPERTY QuotaHeld
