CONSTANTS
  Filter = {f, old}
  Subs = {f}
  MaxConnections = 2
SPECIFICATION Spec
CHECK_DEADLOCK FALSE
INVARIANT TypeOK
INVARIANT ReconnectsAreUps
PROPERTY SubscribedAgain
PROPERTY LinkIsNoticed
