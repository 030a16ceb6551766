CONSTANTS
  NaN = NaN
  PosInf = PosInf
  NegInf = NegInf
  Help = {"help"}
  Id = {"odd"}
  KindOf <- MCKindOf
  HelpOf <- MCHelpOf
  Reading <- WithInf
  MaxOffset = 4
SPECIFICATION Spec
INVARIANT BadReadingPasses
