CONSTANTS
  MaxBuffered = 3
  MaxEvents = 5
  Lossy = FALSE
  AlignedSnapshots = TRUE
  SnapshotLag = 2

SPECIFICATION MCSpec
INVARIANTS
  TypeOK
  PublishedBookExact
  DepthMirrorsBook
  OneSyncAtATime
PROPERTIES
  GapDiscardsBook
  ImplementsReplica
  SynchronizationCompletes
CHECK_DEADLOCK FALSE
