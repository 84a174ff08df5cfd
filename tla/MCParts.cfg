SPECIFICATION Spec
CONSTANTS
  a = a
  Order <- OneInverter
  Foreign = {f, g}
  MaxCycles = 3
  None = None
  Handlers = {h1, h2}
  Longest = 2
  Installs = {TRUE, FALSE}
  MaxRequests = 3
  MaxRestarts = 1
  Chunks = 2
  Retries = 3
  MaxSessions = 2
INVARIANT TypeOK
INVARIANT OnceOrTwice
INVARIANT RepliesInOrder
INVARIANT TelemetryAtMostOneCycleOld
INVARIANT PongIsFresh
INVARIANT InStep
INVARIANT DoneMeansFlashed
PROPERTY LoadsAreReads
PROPERTY DaemonFollows
PROPERTY SessionEnds
CHECK_DEADLOCK FALSE
