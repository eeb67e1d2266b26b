\* Two connections, one heartbeat on each from either end.  A program that has ended stays ended.
CONSTANTS
  MaxAttempts = 2
  MaxPings = 1
  Base = 2
  MaxDelay = 3
SPECIFICATION FairSpec
INVARIANTS TypeOK EstablishedIsTheLoop
PROPERTIES OnlyATornReadEndsALiveSession ShutdownEndsTheProgram EndsEndTogether LostSessionsAreRetried
CHECK_DEADLOCK FALSE
