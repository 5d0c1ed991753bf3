SPECIFICATION Spec
CONSTANTS
  a1 = a1
  a2 = a2
  a3 = a3
  Accounts <- ThreeAccounts
  Managed <- ThreeAccounts
  MaxForks = 3
  MayFail = TRUE
INVARIANTS TypeOK PidfileNamesDaemon NeverOvercounted
PROPERTIES UsedAsPromised
