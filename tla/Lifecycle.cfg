CONSTANTS
  MaxRequests = 2
SPECIFICATION FairSpec
CHECK_DEADLOCK FALSE
INVARIANT TypeOK
INVARIANT NothingOutlivesRun
INVARIANT FirstFailureWins
INVARIANT ZeroMeansWell
PROPERTY ProcessEnds
