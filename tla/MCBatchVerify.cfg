CONSTANTS
  ChunkSize = 2
  MaxItems = 6
  Batches <- MCBatches
SPECIFICATION Spec
INVARIANTS
  OnlyLosersPanic
PROPERTIES
  ImplementsVerification
  ThreadsEnd
CHECK_DEADLOCK FALSE
