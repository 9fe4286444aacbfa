SPECIFICATION FairSpec
CONSTANTS
  None = None
  Accounts = {a1, a2}
  Credentials = {k1}
  MaxEpoch = 1
PROPERTY MutationsEnd
