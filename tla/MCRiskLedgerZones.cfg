CONSTANTS
  Absent = Absent
  Damaged = Damaged
  Zones <- TwoZones
  Offset <- HoursAhead
  Times <- Instants
  Limits <- LimitValues
  MaxOrders = 5
SPECIFICATION Spec
INVARIANT OrdersStayCounted
