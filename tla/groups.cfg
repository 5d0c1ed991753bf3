SPECIFICATION FairSpec
CONSTANTS
  g1 = g1
  g2 = g2
  ann = ann
  bob = bob
  NoOne = NoOne
  Groups <- TwoGroups
  People <- TwoPeople
  Members <- MembersOf
  Buddies <- OneBuddy
  Nameless <- Nobody
  Old <- OneGroup
  AutoAccept = TRUE
  MaxActions = 2
  MaxEvents = 1
  MaxInbox = 2
INVARIANTS TypeOK NamedOrAsked RoomsOnce LeftGroupIsGone
PROPERTIES AskedIsAnswered
