SPECIFICATION FairSpec
CONSTANTS
  BufSize = 4
  LineLens <- AllLens
  MaxLines = 3
INVARIANTS TypeOK NoOverrun FragmentsOnlyWhenFailing
PROPERTIES LineByLine NothingOverlooked
