SPECIFICATION Spec
CONSTANTS
  Conns <- Three
  Subjects <- Named
  TokensOf <- ThreeTokens
  Fragile = {}
  Says <- ThreeSay
  MaxSays <- ThreeMaxSays
  MaxHellos <- ThreeHellos
INVARIANTS
  TypeOK
  PeersFollowMembers
  CursorsHavePeers
  OnlyAuthorized
CHECK_DEADLOCK FALSE
