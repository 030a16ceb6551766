CONSTANTS
  Line = {a, b}
  NoLine = NoLine
  Observer = {p}
  MaxLimit = 2
  MaxMessages = 4
  LineBuffer = 1
SPECIFICATION Spec
CHECK_DEADLOCK FALSE
INVARIANT PublishedIsPrinted
