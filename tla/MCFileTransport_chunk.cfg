SPECIFICATION Spec
CONSTANTS
  Events = 5
  Length <- MCLength
  Header = 1
  ChunkSize = 4
  ReadBuffSize = 3
  MaxEventSize = 3
  EventBufferSize = 2
  FlushMaxBytes = 4
  Leftovers <- MCLeftovers
  MaxErrors = 2
INVARIANT NoEventCrossesChunk
CHECK_DEADLOCK FALSE
