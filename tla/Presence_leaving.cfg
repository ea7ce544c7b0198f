SPECIFICATION FairSpec
CONSTANTS
  Conns <- Two
  Subjects <- Named
  TokensOf <- TwoTokens
  Fragile <- Stalling
  Says <- TwoSay
  MaxSays <- TwoMaxSays
  MaxHellos <- TwoHellos
PROPERTIES
  LeaversAreRemoved
CHECK_DEADLOCK FALSE
