CONSTANTS
  Source <- MCSource
  Own <- MCOwn
  MaxSources = 1
  NoName = "none"
  HeartbeatHelp = "heartbeat"
SPECIFICATION Spec
CHECK_DEADLOCK FALSE
INVARIANT OwnMetricsAgree
