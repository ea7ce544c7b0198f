SPECIFICATION Spec
CONSTANTS
  Conns <- Two
  Subjects <- Named
  TokensOf <- TwoTokens
  Fragile <- Stalling
  Says <- TwoSay
  MaxSays <- TwoMaxSays
  MaxHellos <- TwoHellos
INVARIANTS
  MembersAreConnected
CHECK_DEADLOCK FALSE
