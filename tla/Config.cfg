CONSTANTS
  Source <- MCSource
  Own <- MCOwn
  MaxSources = 2
  NoName = "none"
  HeartbeatHelp = "heartbeat"
SPECIFICATION Spec
CHECK_DEADLOCK FALSE
INVARIANT TypeOK
INVARIANT FamiliesAgree
INVARIANT TemplatesResolve
INVARIANT RefusedExactly
