SPECIFICATION Spec
CONSTANTS
  a1 = a1
  a2 = a2
  a3 = a3
  Accounts <- ThreeAccounts
  Managed <- TwoManaged
  MaxForks = 2
  MayFail = FALSE
PROPERTIES KilledOnlyWhenUnused
