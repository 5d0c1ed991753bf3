SPECIFICATION Spec
CONSTANTS
  alice = alice
  team = team
  Self = Self
  NoConv = NoConv
  Contacts <- OneContact
  Groups <- OneGroup
  WaitOptions = {TRUE, FALSE}
  Capacities = {0, 1, 2}
  MaxSent = 2
  MaxReceived = 2
  MaxMessages = 3
  MaxInbox = 2
INVARIANTS TypeOK EchoedOnceInPlace RepliesToNewest ReceiptsAccounted
PROPERTIES SentLikeOutbox
