CONSTANTS
  Absent = Absent
  Damaged = Damaged
  Stores <- AllStores
  MaxSaves = 4
SPECIFICATION Spec
INVARIANT TypeOK
PROPERTY ImplementsRegister
