CONSTANTS
  NaN = NaN
  PosInf = PosInf
  NegInf = NegInf
  Help = {"help"}
  Id = {"temp", "energy", "odd"}
  KindOf <- MCKindOf
  HelpOf <- MCHelpOf
  Reading <- WithNaN
  MaxOffset = 4
SPECIFICATION Spec
INVARIANT TypeOK
INVARIANT NeverBelowPeak
INVARIANT BadReadingPasses
PROPERTY ImplementsIdeal
