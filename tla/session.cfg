SPECIFICATION FairSpec
CONSTANTS
  LinkOptions = {TRUE, FALSE}
  MaxInbox = 2
  MaxFaults = 1
  MaxEvents = 1
INVARIANTS TypeOK AccountNamed GcTracksWebSocket
PROPERTIES LoginResolves SyncCompletes CloseTerminates
