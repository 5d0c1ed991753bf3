SPECIFICATION FairSpec
CONSTANTS
  xdg = xdg
  var = var
  NoFd = NoFd
  Paths <- TwoPaths
  Choices <- BothOrOne
  Listening <- TwoPaths
  MaxTries = 10
  SetupMayFail = TRUE
  CloseEarly = TRUE
INVARIANTS TypeOK UnableOnlyIfAllGaveUp ConnectedIsWatched ClosedIsReleased
PROPERTIES ResolvedIfSingle
