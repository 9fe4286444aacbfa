SPECIFICATION Spec
CONSTANTS
  None = None
  Accounts = {a1, a2}
  Credentials = {k1, k2}
  MaxEpoch = 2
SYMMETRY Symmetry
INVARIANTS
  TypeOK
  SessionOwned
  OneAccountPerEpoch
  DataOwned
  ListedUsable
PROPERTIES
  FailedSwitchSettled
  ActiveCredentialKept
