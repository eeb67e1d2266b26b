\* Each part by itself; a part that has come to its end stops.
CONSTANTS
  MaxNonce = 8
  MaxFrames = 4
  ChunksOf <- MCChunksOf
  QueueCapacity = 2
  MaxFramesBuffered = 2
  MaxWait = 1
  MaxCopies = 2
  MaxGenerated = 3
  OutboundBuffer = 1
  Window = 1
  MaxSends = 3
  ByteBase = 6
  Sample <- MCSample
  Bootstraps = {c1, c2}
  MaxMade = 2
SPECIFICATION Spec
INVARIANTS TypeOK GuardDecidesRight BuffersKeepTheNewest NothingLeaks DecodeInvertsEncode AccountIsKept
PROPERTIES ImplementsPlayout EveryFrameIsPlayed ComesBackAsItself SendsFinish
CHECK_DEADLOCK FALSE
