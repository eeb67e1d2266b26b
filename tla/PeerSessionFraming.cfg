\* One connection: a heartbeat cancels a recv between a length and its body.
CONSTANTS
  MaxAttempts = 1
  MaxPings = 1
  Base = 2
  MaxDelay = 3
SPECIFICATION FairSpec
PROPERTY RecvFailsOnlyWithThePeer
CHECK_DEADLOCK FALSE
