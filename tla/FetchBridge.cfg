SPECIFICATION FairSpec
CHECK_DEADLOCK FALSE
CONSTANTS
  Job = {j1, j2}
  RequestLimit = 3
  ChunkBytes = 2
  MaxBodyBytes = 4
  MaxChunk = 3
  MaxServed = 5
INVARIANTS
  StreamInv
  CompletionsWhole
  AbortedNeverAnswers
  NothingHeld
PROPERTIES
  Settles
