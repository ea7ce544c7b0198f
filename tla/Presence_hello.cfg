SPECIFICATION Spec
CONSTANTS
  Conns <- Two
  Subjects <- Named
  TokensOf <- NoTokens
  Fragile <- Stalling
  Says <- TwoSay
  MaxSays <- TwoMaxSays
  MaxHellos <- TwoHellos
INVARIANTS
  HelloWasMissing
CHECK_DEADLOCK FALSE
