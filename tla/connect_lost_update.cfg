SPECIFICATION FairSpec
CONSTANTS
  xdg = xdg
  var = var
  NoFd = NoFd
  Paths <- TwoPaths
  Choices <- Both
  Listening <- TwoPaths
  MaxTries = 2
  SetupMayFail = FALSE
  CloseEarly = FALSE
PROPERTIES Resolved
