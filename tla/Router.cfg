CONSTANTS
  NaN = NaN
  PosInf = PosInf
  NegInf = NegInf
  Help = {"help", "seen"}
  HeartbeatHelp = "seen"
  NoLabels = NoLabels
  Source = {"meter", "room"}
  SourceList <- MCSourceList
  Metric <- MCMetric
  Labels <- MCLabels
  Message <- MCMessage
  Owned <- MCOwned
  Rules <- MCRules
  Apply <- MCApply
  SourceBeat <- MCSourceBeat
  Resolve <- MCResolve
  sourceBuffer = 1
  MaxArrivals = 3
SPECIFICATION Spec
CHECK_DEADLOCK FALSE
INVARIANT TypeOK
INVARIANT EachOnce
INVARIANT ReceivedIsHanded
INVARIANT BeatNeverAhead
INVARIANT SameAsSequential
PROPERTY StoppedIsQuiet
