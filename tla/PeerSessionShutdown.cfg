\* One connection: in relay mode the hello of a peer that never comes is awaited.
CONSTANTS
  MaxAttempts = 1
  MaxPings = 1
  Base = 2
  MaxDelay = 3
SPECIFICATION FairSpec
PROPERTY ShutdownEndsEverySession
CHECK_DEADLOCK FALSE
