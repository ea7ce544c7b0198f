SPECIFICATION Spec
CONSTANTS
  Conns = {c1}
  Rate = 500
  Burst = 1
  Limit <- MCLimit
  MaxAppend = 1
  MaxFrame = 3
  Ids = {"d"}
  Ops <- MCOps
  MaxHellos = 2
  MaxClock = 4
  MaxBack = 1
INVARIANTS
  TypeOK
  RateBound
  DebtIsBounded
  PacedIsServed
  SizesAreLimited
