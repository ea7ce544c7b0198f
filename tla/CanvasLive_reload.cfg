SPECIFICATION FairSpec
CONSTANTS
  Tabs <- ThreeTabs
  UserOf <- OwnUsers
  InitDoc <- MCDoc
  InitLamport = 1
  ListFields = {"points"}
  FieldSets <- OneOrBoth
  NewShape <- MCNewShape
  MaxEdits <- OneOneNone
  MaxRejects = 1
INVARIANTS
  StreamIsGapless
  ConvergedUnlessRefused
PROPERTIES
  BoardSpec
  Settles
CHECK_DEADLOCK FALSE
