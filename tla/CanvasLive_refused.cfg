SPECIFICATION Spec
CONSTANTS
  Tabs <- TwoTabs
  UserOf <- OwnUsers
  InitDoc <- MCDoc
  InitLamport = 1
  ListFields = {"points"}
  FieldSets <- OneOrBoth
  NewShape <- MCNewShape
  MaxEdits <- OneEach
  MaxRejects = 1
INVARIANTS
  ConvergedWhenQuiet
CHECK_DEADLOCK FALSE
