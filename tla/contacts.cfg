SPECIFICATION Spec
CONSTANTS
  ann = ann
  bob = bob
  n1 = n1
  n2 = n2
  None = None
  People <- TwoPeople
  Numbers <- TwoNumbers
  MaxBuddies = 4
  MaxEarlier = 3
  MaxActions = 4
SYMMETRY Symmetry
INVARIANTS TypeOK OneBuddyEach TooltipIsLatest StatusAssumed
