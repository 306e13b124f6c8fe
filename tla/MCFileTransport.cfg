SPECIFICATION FairSpec
CONSTANTS
  Events = 5
  Length <- MCLength
  Header = 1
  ChunkSize = 4
  ReadBuffSize = 3
  MaxEventSize = 3
  EventBufferSize = 2
  FlushMaxBytes = 4
  Leftovers <- MCLeftovers
  MaxErrors = 2
INVARIANTS EventsInOrder CloseWritesAll CrossingNeedsReopen
PROPERTIES FlushedMeansOnDisk DestructorReturns SyncedInTime FlushReturnsUnlessError
CHECK_DEADLOCK FALSE
