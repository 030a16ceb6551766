CONSTANTS
  Line = {a, b}
  NoLine = NoLine
  Observer = {p, q}
  MaxLimit = 2
  MaxMessages = 3
  LineBuffer = 1
SPECIFICATION FairSpec
CHECK_DEADLOCK FALSE
INVARIANT TypeOK
INVARIANT NeverPanics
INVARIANT AtMostCount
INVARIANT OncePerPrefix
INVARIANT AcceptedIsPrinted
INVARIANT FailureIsReported
PROPERTY CommandEnds
