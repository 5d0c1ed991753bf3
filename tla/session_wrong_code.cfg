SPECIFICATION Spec
CONSTANTS
  LinkOptions = {TRUE}
  MaxInbox = 2
  MaxFaults = 2
  MaxEvents = 1
INVARIANTS LinksScannedCode
