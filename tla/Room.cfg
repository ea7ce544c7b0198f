SPECIFICATION Spec
CONSTANTS
  c1 = c1
  c2 = c2
  Clients <- MCClients
  Ops <- MCOps
  SnapshotEvery = 2
  MaxSeq = 3
  MaxCrashes = 2
SYMMETRY Symmetry
INVARIANTS
  TypeOK
  LogIsReplayable
  RowIsVersion
  MemoryIsDurable
  NoKeyConflict
  ChannelsAreGapless
  MembersAreServed
  ViewsAreDurable
  CaughtUp
  TailBoundedByCrashes
PROPERTIES
  DurableSpec
