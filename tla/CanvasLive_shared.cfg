SPECIFICATION Spec
CONSTANTS
  Tabs <- TwoTabs
  UserOf <- OneUser
  InitDoc <- MCDoc
  InitLamport = 1
  ListFields = {"points"}
  FieldSets <- OneOrBoth
  NewShape <- MCNewShape
  MaxEdits <- OneEach
  MaxRejects = 0
INVARIANTS
  PendingIsUnacked
CHECK_DEADLOCK FALSE
