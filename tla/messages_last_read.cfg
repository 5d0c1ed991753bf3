SPECIFICATION Spec
CONSTANTS
  alice = alice
  team = team
  Self = Self
  NoConv = NoConv
  Contacts <- OneContact
  Groups <- OneGroup
  WaitOptions = {TRUE, FALSE}
  Capacities = {0, 1, 2}
  MaxSent = 2
  MaxReceived = 2
  MaxMessages = 4
  MaxInbox = 1
INVARIANTS ReleasedNotUsed
