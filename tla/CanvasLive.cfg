SPECIFICATION Spec
CONSTANTS
  Tabs <- TwoTabs
  UserOf <- OwnUsers
  InitDoc <- MCDoc
  InitLamport = 1
  ListFields = {"points"}
  FieldSets <- OneOrBoth
  NewShape <- MCNewShape
  MaxEdits <- TwoAndOne
  MaxRejects = 0
INVARIANTS
  TypeOK
  RebaseSound
  PendingIsUnacked
  ConvergedUnlessRefused
  LamportCovers
PROPERTIES
  BoardSpec
CHECK_DEADLOCK FALSE
